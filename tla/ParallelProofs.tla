--------------------------- MODULE ParallelProofs ---------------------------
(***************************************************************************)
(* Proofs about ParallelTightening, for any number of workers, any network *)
(* and any problems: the bounds keep every solution, an infeasible model   *)
(* is reported, no thread outlives the call, and no bound gets weaker,     *)
(* although every worker goes by the bounds its neuron had when it was     *)
(* visited.                                                                *)
(***************************************************************************)
EXTENDS ParallelTightening, TLAPS, SequenceTheorems

\* A value that may be stored for an end
Storable(phase, v) ==
    /\ phase = "lb" => v \in Values \cup {Infinity}
    /\ phase = "ub" => v \in Values

\* The modes whose second optimization of an end does not know of the first
Forgetful == problem.mode \in {"milp", "one layer milp"}

\* The modes that optimize each end once
Once == problem.mode \notin {"milp", "one layer milp", "incremental milp"}

OnePhase == {<<"lb">>, <<"ub">>}
TwoPhases == {<<"ub", "lb">>, <<"lb", "ub">>}

BoundsTyped == bounds \in [Neurons -> [lb : Values \cup {Infinity}, ub : Values]]

\* The main thread waits for a solver with a neuron that needs one
WaitsForNeuron == main = "wait" => at <= Len(Visits) /\ Phases(Neuron, bounds[Neuron]) /= <<>>

\* The flag is up only if there is no solution, and whenever a bound is infinite
FlagRight ==
    /\ infeasible => ~problem.feasible
    /\ \A n \in Neurons : bounds[n].lb = Infinity => infeasible

\* The call is over when the main thread is, which has joined the others
OverWhenJoined ==
    /\ main = "done" => Idle
    /\ outcome /= "running" => main = "done"
    /\ outcome = "infeasible" => infeasible
    /\ outcome = "returned" => ~infeasible

\* The incremental modes have one thread, and it is the main thread
OneThread ==
    Incremental =>
        /\ main /= "visit" => Idle
        /\ \A s, t \in Solvers : work[s] /= None /\ work[t] /= None => s = t

\* The solutions, if the modes that may lose some are left out
Kept ==
    problem.feasible /\ ~(problem.mode = "incremental milp" /\ problem.timeouts) =>
        \A n \in Neurons : bounds[n].lb <= problem.truth[n].lb /\ problem.truth[n].ub <= bounds[n].ub

\* The threads work on neurons the main thread has passed, each on its own
EachItsOwn ==
    /\ \A s \in Solvers : work[s] /= None => \E i \in 1 .. at - 1 : i <= Len(Visits) /\ work[s].neuron = Visits[i]
    /\ \A s, t \in Solvers : work[s] /= None /\ work[t] /= None /\ work[s].neuron = work[t].neuron => s = t

\* A thread knows the present bound of each end it has still to optimize
Current(job, b) ==
    /\ problem.mode = "incremental milp" => job.lb = b.lb /\ job.ub = b.ub
    /\ Once =>
        /\ job.rest \in OnePhase \cup TwoPhases
        /\ job.rest /= <<"ub">> => job.lb = b.lb
        /\ job.rest /= <<"lb">> => job.ub = b.ub

JobsCurrent == \A s \in Solvers : work[s] /= None => Current(work[s], bounds[work[s].neuron])

IInv ==
    /\ problem \in Problems /\ TypeOK /\ BoundsTyped
    /\ WaitsForNeuron /\ FlagRight /\ OverWhenJoined /\ OneThread
    /\ Kept /\ EachItsOwn /\ JobsCurrent

-----------------------------------------------------------------------------
(* The model's operators *)

\* A phase that is skipped is left out, the others are kept
LEMMA WantedTyped ==
    ASSUME NEW n, NEW phase \in {"lb", "ub"}
    PROVE  Wanted(phase, n) \in {<<>>, <<phase>>}
BY DEF Wanted

\* Joining what is wanted of two phases
LEMMA TwoWanted ==
    ASSUME NEW p \in {"lb", "ub"}, NEW q \in {"lb", "ub"}, NEW s \in {<<>>, <<p>>}, NEW t \in {<<>>, <<q>>}
    PROVE  s \o t \in {<<>>, <<p>>, <<q>>, <<p, q>>}
<1>1. CASE s = <<>> /\ t = <<>>
  BY <1>1
<1>2. CASE s = <<>> /\ t = <<q>>
  BY <1>2
<1>3. CASE s = <<p>> /\ t = <<>>
  BY <1>3
<1>4. CASE s = <<p>> /\ t = <<q>>
  <2>1. /\ <<p>> \o <<q>> \in Seq({"lb", "ub"}) /\ <<p, q>> \in Seq({"lb", "ub"})
        /\ Len(<<p>> \o <<q>>) = 2 /\ Len(<<p, q>>) = 2
    OBVIOUS
  <2>2. (<<p>> \o <<q>>)[1] = p /\ (<<p>> \o <<q>>)[2] = q
    OBVIOUS
  <2>3. <<p>> \o <<q>> = <<p, q>>
    <3>1. \A i \in 1 .. Len(<<p>> \o <<q>>) : (<<p>> \o <<q>>)[i] = <<p, q>>[i]
      BY <2>1, <2>2
    <3>. QED
      BY <2>1, <3>1, SeqEqual
  <2>. QED
    BY <1>4, <2>3, Zenon
<1>5. (s = <<>> \/ s = <<p>>) /\ (t = <<>> \/ t = <<q>>)
  BY Zenon
<1>. QED
  BY <1>1, <1>2, <1>3, <1>4, <1>5, Zenon

\* Nothing is left of one phase
LEMMA TailOfOne == Tail(<<"lb">>) = <<>> /\ Tail(<<"ub">>) = <<>>
OBVIOUS

\* What is left of two phases
LEMMA TwoTails ==
    ASSUME NEW p \in {"lb", "ub"}, NEW q \in {"lb", "ub"}
    PROVE  Tail(<<p, q>>) = <<q>> /\ Head(<<p, q>>) = p
<1>1. /\ Tail(<<p, q>>) \in Seq({"lb", "ub"}) /\ <<q>> \in Seq({"lb", "ub"})
      /\ Len(Tail(<<p, q>>)) = 1 /\ Len(<<q>>) = 1 /\ Tail(<<p, q>>)[1] = q /\ <<q>>[1] = q
  OBVIOUS
<1>2. \A i \in 1 .. Len(Tail(<<p, q>>)) : Tail(<<p, q>>)[i] = <<q>>[i]
  BY <1>1
<1>. QED
  BY <1>1, <1>2, SeqEqual

\* The modes but the MILP optimize each end at most once
LEMMA PhasesOnce ==
    ASSUME problem \in Problems, Once, NEW n, NEW b
    PROVE  Phases(n, b) \in {<<>>} \cup OnePhase \cup TwoPhases
<1>. problem.mode \in Modes
  BY ProblemsWellFormed
<1>1. LPPhases(n) \in {<<>>, <<"ub">>, <<"lb">>, <<"ub", "lb">>}
  BY WantedTyped, TwoWanted DEF LPPhases
<1>2. IterativePhases(b) \in TwoPhases /\ IncrementalLPPhases \in TwoPhases
  BY DEF IterativePhases, IncrementalLPPhases, TwoPhases
<1>3. Phases(n, b) \in {LPPhases(n), IncrementalLPPhases, IterativePhases(b)}
  BY DEF Phases, Modes, Once
<1>. QED
  BY <1>1, <1>2, <1>3 DEF OnePhase, TwoPhases

\* The phases are optimizations of an end
LEMMA PhasesTyped ==
    ASSUME problem \in Problems, NEW n, NEW b
    PROVE  Phases(n, b) \in Seq({"lb", "ub"})
<1>. problem.mode \in Modes
  BY ProblemsWellFormed
<1>0. /\ <<>> \in Seq({"lb", "ub"}) /\ <<"lb">> \in Seq({"lb", "ub"}) /\ <<"ub">> \in Seq({"lb", "ub"})
      /\ <<"lb", "ub">> \in Seq({"lb", "ub"}) /\ <<"ub", "lb">> \in Seq({"lb", "ub"})
  OBVIOUS
<1>1. CASE Once
  BY <1>0, <1>1, PhasesOnce, Zenon DEF OnePhase, TwoPhases
<1>2. CASE Forgetful
  <2>1. Wanted("lb", n) \in Seq({"lb", "ub"}) /\ Wanted("ub", n) \in Seq({"lb", "ub"})
    BY <1>0, WantedTyped, Zenon
  <2>2. MilpPhases(n) \in Seq({"lb", "ub"})
    BY <2>1 DEF MilpPhases
  <2>. QED
    BY <1>2, <2>2 DEF Phases, Forgetful
<1>3. CASE problem.mode = "incremental milp"
  <2>0. <<"ub", "lb", "ub", "lb">> \in Seq({"lb", "ub"})
    OBVIOUS
  <2>1. IncrementalMilpPhases(n) \in Seq({"lb", "ub"})
    BY <1>0, <2>0, Zenon DEF IncrementalMilpPhases
  <2>2. Phases(n, b) = IncrementalMilpPhases(n)
    BY <1>3 DEF Phases
  <2>. QED
    BY <2>1, <2>2
<1>. QED
  BY <1>1, <1>2, <1>3, Zenon DEF Once, Forgetful

\* Whether there is anything to optimize does not depend on the bounds
LEMMA PhasesOfAnyBounds ==
    ASSUME problem \in Problems, NEW n, NEW b, NEW c, Phases(n, b) = <<>>
    PROVE  Phases(n, c) = <<>>
<1>. problem.mode \in Modes
  BY ProblemsWellFormed
<1>1. CASE problem.mode = "iterative"
  <2>1. Phases(n, b) = IterativePhases(b)
    BY <1>1 DEF Phases
  <2>2. IterativePhases(b) /= <<>>
    BY DEF IterativePhases
  <2>. QED
    BY <2>1, <2>2
<1>2. CASE problem.mode /= "iterative"
  BY <1>2 DEF Phases, Modes
<1>. QED
  BY <1>1, <1>2

\* The walk of every mode meets each neuron once
LEMMA VisitsIsWalk ==
    ASSUME problem \in Problems
    PROVE  IsWalk(Visits) /\ Len(Visits) \in Nat /\ \A i \in 1 .. Len(Visits) : Visits[i] \in Neurons
<1>. problem.mode \in Modes /\ problem.target \in DOMAIN Layers
  BY ProblemsWellFormed
<1>1. IsWalk(Visits)
  BY LayersNumberNeurons DEF Visits, Modes, OneLayerVisits, OneLayerMilpVisits
<1>. QED
  BY <1>1 DEF IsWalk

\* A job goes on with the same neuron and what is left of its phases
LEMMA ContinuedTyped ==
    ASSUME NEW job \in Jobs, NEW v \in Int, Continued(job, v) /= None,
           Better(Head(job.rest), job[Head(job.rest)], v) => Storable(Head(job.rest), v)
    PROVE  /\ Continued(job, v) \in Jobs
           /\ Continued(job, v).neuron = job.neuron
           /\ Continued(job, v).rest = Tail(job.rest)
<1>. DEFINE phase == Head(job.rest)
            next == [job EXCEPT !.rest = Tail(@),
                                ![phase] = IF Better(phase, job[phase], v) /\ problem.mode = "incremental milp" THEN v ELSE @]
<1>1. phase \in {"lb", "ub"} /\ Tail(job.rest) \in Seq({"lb", "ub"})
  BY DEF Jobs
<1>2. Continued(job, v) = next /\ Tail(job.rest) /= <<>>
  BY DEF Continued
<1>3. next \in Jobs /\ next.neuron = job.neuron /\ next.rest = Tail(job.rest)
  BY <1>1, <1>2 DEF Jobs, Storable
<1>. QED
  BY <1>2, <1>3

\* Where it is stored, a returned value replaces one end of one neuron's bounds
LEMMA StoredBounds ==
    ASSUME BoundsTyped, NEW n \in Neurons, NEW phase \in {"lb", "ub"}, NEW v,
           phase = "lb" => v \in Values \cup {Infinity}, phase = "ub" => v \in Values
    PROVE  LET stored == [bounds EXCEPT ![n][phase] = v] IN
             /\ stored \in [Neurons -> [lb : Values \cup {Infinity}, ub : Values]]
             /\ \A m \in Neurons :
                  /\ stored[m].lb = IF m = n /\ phase = "lb" THEN v ELSE bounds[m].lb
                  /\ stored[m].ub = IF m = n /\ phase = "ub" THEN v ELSE bounds[m].ub
BY DEF BoundsTyped
-----------------------------------------------------------------------------
(* The invariant *)

\* Every problem starts with the invariant
LEMMA InitInv == Init => IInv
<1>. SUFFICES ASSUME Init PROVE IInv
  OBVIOUS
<1>1. problem \in Problems
  BY DEF Init
<1>2. /\ problem.start \in [Neurons -> [lb : Values, ub : Values]]
      /\ problem.feasible =>
           \A n \in Neurons : problem.start[n].lb <= problem.truth[n].lb /\ problem.truth[n].ub <= problem.start[n].ub
  BY <1>1, ProblemsWellFormed
<1>3. bounds \in [Neurons -> [lb : Values, ub : Values]] /\ bounds = problem.start
  BY <1>2 DEF Init
<1>4. BoundsTyped
  BY <1>3 DEF BoundsTyped
<1>5. \A s \in Solvers : work[s] = None
  BY DEF Init
<1>6. TypeOK
  <2>1. at \in 1 .. Len(Visits) + 1
    BY <1>1, VisitsIsWalk DEF Init
  <2>2. work \in [Solvers -> Jobs \cup {None}] /\ {fixed, before} \subseteq Neurons \cup {NoNeuron}
    BY DEF Init
  <2>. QED
    BY <1>3, <2>1, <2>2 DEF Init, TypeOK
<1>7. WaitsForNeuron /\ OverWhenJoined /\ OneThread
  BY <1>5 DEF Init, WaitsForNeuron, OverWhenJoined, OneThread
<1>8. FlagRight
  BY <1>3, ValuesAreNumbers DEF Init, FlagRight
<1>9. Kept
  BY <1>2, <1>3 DEF Kept
<1>10. EachItsOwn /\ JobsCurrent
  BY <1>5 DEF EachItsOwn, JobsCurrent
<1>. QED
  BY <1>1, <1>4, <1>6, <1>7, <1>8, <1>9, <1>10 DEF IInv

\* A step of the main thread that hands out no neuron
LEMMA WalkInv ==
    ASSUME IInv,
           UNCHANGED <<problem, bounds, work, infeasible>>,
           at' \in 1 .. Len(Visits) + 1, at' >= at \/ Idle,
           main' \in {"visit", "wait", "join", "done"}, {fixed', before'} \subseteq Neurons \cup {NoNeuron},
           outcome' \in {"running", "returned", "infeasible"},
           WaitsForNeuron', OverWhenJoined', Incremental /\ main' /= "visit" => Idle
    PROVE  IInv'
<1>1. TypeOK'
  BY DEF IInv, TypeOK, Visits
<1>2. BoundsTyped' /\ FlagRight' /\ Kept' /\ JobsCurrent'
  BY DEF IInv, BoundsTyped, FlagRight, Kept, JobsCurrent, Current, Once
<1>3. OneThread'
  BY DEF IInv, OneThread, Idle, Incremental
<1>4. EachItsOwn'
  <2>1. Visits' = Visits
    BY DEF Visits
  <2>4. at \in Nat /\ at' \in Nat /\ Len(Visits) \in Nat
    BY VisitsIsWalk DEF IInv, TypeOK
  <2>2. CASE Idle
    BY <2>2 DEF Idle, EachItsOwn
  <2>3. CASE at' >= at
    <3>1. ASSUME NEW s \in Solvers, work[s] /= None
          PROVE  \E i \in 1 .. at' - 1 : i <= Len(Visits) /\ work[s].neuron = Visits[i]
      <4>1. PICK i \in 1 .. at - 1 : i <= Len(Visits) /\ work[s].neuron = Visits[i]
        BY <3>1 DEF IInv, EachItsOwn
      <4>2. ASSUME NEW a \in Nat, NEW b \in Nat, b >= a, NEW j \in 1 .. a - 1
            PROVE  j \in 1 .. b - 1
        BY <4>2
      <4>3. i \in 1 .. at' - 1
        BY <2>3, <2>4, <4>2
      <4>. QED
        BY <4>1, <4>3
    <3>. QED
      BY <2>1, <3>1 DEF IInv, EachItsOwn
  <2>. QED
    BY <2>2, <2>3
<1>. QED
  BY <1>1, <1>2, <1>3, <1>4 DEF IInv

\* A value that may be stored and keeps the solutions
Holds(n, phase, v) ==
    problem.feasible /\ ~(problem.mode = "incremental milp" /\ problem.timeouts) =>
        /\ phase = "lb" => v <= problem.truth[n].lb
        /\ phase = "ub" => problem.truth[n].ub <= v

\* What is known of the job of a working thread
LEMMA JobTyped ==
    ASSUME IInv, NEW s \in Solvers, work[s] /= None
    PROVE  /\ work[s] \in Jobs
           /\ work[s].neuron \in Neurons
           /\ Head(work[s].rest) \in {"lb", "ub"}
           /\ work[s][Head(work[s].rest)] \in Int
           /\ work[s].ub \in Values
           /\ main /= "done" /\ outcome = "running"
           /\ Incremental => \A t \in Solvers : t /= s => work[t] = None
<1>1. work[s] \in Jobs
  BY DEF IInv, TypeOK
<1>2. work[s].neuron \in Neurons /\ Head(work[s].rest) \in {"lb", "ub"}
  BY <1>1 DEF Jobs
<1>3. work[s][Head(work[s].rest)] \in Int /\ work[s].ub \in Values
  BY <1>1, <1>2, ValuesAreNumbers DEF Jobs
<1>4. main /= "done" /\ outcome = "running"
  BY DEF IInv, OverWhenJoined, Idle, TypeOK
<1>5. Incremental => \A t \in Solvers : t /= s => work[t] = None
  BY DEF IInv, OneThread
<1>. QED
  BY <1>1, <1>2, <1>3, <1>4, <1>5

\* What an optimization does to the bounds, the jobs and the neuron fixed last
LEMMA OptimizeTyped ==
    ASSUME IInv, NEW s \in Solvers, work[s] /= None, NEW v \in Values \cup {Infinity}, Optimize(s, v),
           Better(Head(work[s].rest), work[s][Head(work[s].rest)], v) => Storable(Head(work[s].rest), v)
    PROVE  /\ bounds' \in [Neurons -> [lb : Values \cup {Infinity}, ub : Values]]
           /\ work' \in [Solvers -> Jobs \cup {None}]
           /\ fixed' \in Neurons \cup {NoNeuron}
           /\ \A t \in Solvers : t /= s => work'[t] = work[t]
           /\ work'[s] /= None =>
                /\ work[s] /= None
                /\ work'[s].neuron = work[s].neuron
                /\ work'[s].rest = Tail(work[s].rest)
<1>. DEFINE job == work[s]
            phase == Head(job.rest)
<1>1. job \in Jobs /\ job.neuron \in Neurons /\ phase \in {"lb", "ub"} /\ v \in Int
  BY JobTyped, ValuesAreNumbers
<1>2. bounds' \in [Neurons -> [lb : Values \cup {Infinity}, ub : Values]]
  BY <1>1, StoredBounds DEF Optimize, Storable, IInv, BoundsTyped
<1>3. work' = [work EXCEPT ![s] = Continued(job, v)]
  BY DEF Optimize
<1>4. Continued(job, v) \in Jobs \cup {None}
  BY <1>1, ContinuedTyped
<1>5. work \in [Solvers -> Jobs \cup {None}] /\ fixed \in Neurons \cup {NoNeuron}
  BY DEF IInv, TypeOK
<1>6. fixed' \in Neurons \cup {NoNeuron}
  BY <1>1, <1>5 DEF Optimize
<1>7. work' \in [Solvers -> Jobs \cup {None}] /\ work'[s] = Continued(job, v) /\ \A t \in Solvers : t /= s => work'[t] = work[t]
  BY <1>3, <1>4, <1>5
<1>8. work'[s] /= None => work'[s].neuron = work[s].neuron /\ work'[s].rest = Tail(work[s].rest)
  BY <1>1, <1>7, ContinuedTyped
<1>. QED
  BY <1>2, <1>6, <1>7, <1>8

\* What a job knows of the bounds is true after its own optimization, and after those of
\* others, who work on other neurons
LEMMA OptimizeKeepsCurrent ==
    ASSUME IInv, NEW s \in Solvers, work[s] /= None, NEW v \in Values \cup {Infinity}, Optimize(s, v),
           problem' = problem,
           Better(Head(work[s].rest), work[s][Head(work[s].rest)], v) => Storable(Head(work[s].rest), v)
    PROVE  JobsCurrent'
<1>. DEFINE job == work[s]
            n == job.neuron
            phase == Head(job.rest)
            stored == Better(phase, job[phase], v)
<1>1. job \in Jobs /\ n \in Neurons /\ phase \in {"lb", "ub"} /\ v \in Int
  BY JobTyped, ValuesAreNumbers
<1>2. /\ \A t \in Solvers : t /= s => work'[t] = work[t]
      /\ work'[s] /= None => work'[s].neuron = n /\ work'[s].rest = Tail(job.rest)
  BY OptimizeTyped
<1>3. bounds' = IF stored THEN [bounds EXCEPT ![n][phase] = v] ELSE bounds
  BY DEF Optimize
<1>4. \A m \in Neurons :
        /\ bounds'[m].lb = IF stored /\ m = n /\ phase = "lb" THEN v ELSE bounds[m].lb
        /\ bounds'[m].ub = IF stored /\ m = n /\ phase = "ub" THEN v ELSE bounds[m].ub
  BY <1>1, <1>3, StoredBounds DEF Storable, IInv
<1>5. SUFFICES ASSUME NEW t \in Solvers, work'[t] /= None
               PROVE  Current(work[t], bounds[work[t].neuron])'
  BY DEF JobsCurrent
<1>6. CASE t /= s
  <2>1. work'[t] = work[t] /\ work[t].neuron \in Neurons /\ work[t].neuron /= n
    BY <1>2, <1>5, <1>6, JobTyped DEF IInv, EachItsOwn
  <2>2. bounds'[work[t].neuron].lb = bounds[work[t].neuron].lb /\ bounds'[work[t].neuron].ub = bounds[work[t].neuron].ub
    BY <1>4, <2>1
  <2>3. Current(work[t], bounds[work[t].neuron])
    BY <1>5, <2>1 DEF IInv, JobsCurrent
  <2>. QED
    BY <2>1, <2>2, <2>3 DEF Current, Once
<1>7. CASE t = s
  <2>1. Current(job, bounds[n])
    BY DEF IInv, JobsCurrent
  <2>2. work'[s] = Continued(job, v)
    BY DEF Optimize, IInv, TypeOK
  <2>3. Tail(job.rest) /= <<>>
    BY <1>5, <1>7, <2>2 DEF Continued
  <2>4. CASE Once
    <3>1. job.rest \in TwoPhases
      <4>1. job.rest \in OnePhase \cup TwoPhases
        BY <2>1, <2>4 DEF Current
      <4>. QED
        BY <2>3, <4>1, TailOfOne, Zenon DEF OnePhase
    <3>2. Tail(job.rest) = (IF phase = "ub" THEN <<"lb">> ELSE <<"ub">>)
      <4>1. /\ Tail(<<"lb", "ub">>) = <<"ub">> /\ Head(<<"lb", "ub">>) = "lb"
            /\ Tail(<<"ub", "lb">>) = <<"lb">> /\ Head(<<"ub", "lb">>) = "ub"
        BY TwoTails
      <4>2. job.rest = <<"lb", "ub">> \/ job.rest = <<"ub", "lb">>
        BY <3>1, Zenon DEF TwoPhases
      <4>. QED
        BY <4>1, <4>2
    <3>3. job.lb = bounds[n].lb /\ job.ub = bounds[n].ub
      <4>1. job.rest /= <<"ub">> /\ job.rest /= <<"lb">>
        BY <2>3, TailOfOne, Zenon
      <4>. QED
        BY <2>1, <2>4, <4>1 DEF Current
    <3>4. work'[s].lb = job.lb /\ work'[s].ub = job.ub
      BY <1>1, <1>5, <1>7, <2>2, <2>4 DEF Continued, Once, Jobs
    <3>. QED
      BY <1>1, <1>2, <1>4, <1>5, <1>7, <2>4, <3>2, <3>3, <3>4 DEF Current, Once, OnePhase
  <2>5. CASE problem.mode = "incremental milp"
    <3>1. job.lb = bounds[n].lb /\ job.ub = bounds[n].ub
      BY <2>1, <2>5 DEF Current
    <3>2. /\ work'[s].lb = IF stored /\ phase = "lb" THEN v ELSE job.lb
          /\ work'[s].ub = IF stored /\ phase = "ub" THEN v ELSE job.ub
      BY <1>1, <1>5, <1>7, <2>2, <2>5 DEF Continued, Jobs
    <3>. QED
      BY <1>1, <1>2, <1>4, <1>5, <1>7, <2>5, <3>1, <3>2 DEF Current, Once
  <2>. QED
    BY <1>5, <1>7, <2>4, <2>5 DEF Current, Once
<1>. QED
  BY <1>6, <1>7

\* One optimization of a thread, whatever the solver returned
LEMMA OptimizeInv ==
    ASSUME IInv, NEW s \in Solvers, work[s] /= None, NEW v \in Values \cup {Infinity}, Optimize(s, v),
           UNCHANGED <<problem, at, main, before, outcome>>,
           infeasible' \in BOOLEAN, infeasible => infeasible', infeasible' => ~problem.feasible, v = Infinity => infeasible',
           LET phase == Head(work[s].rest) IN
             Better(phase, work[s][phase], v) => Storable(phase, v) /\ Holds(work[s].neuron, phase, v)
    PROVE  IInv'
<1>. DEFINE n == work[s].neuron
            phase == Head(work[s].rest)
            stored == Better(phase, work[s][phase], v)
<1>1. work[s] \in Jobs /\ n \in Neurons /\ phase \in {"lb", "ub"} /\ v \in Int
  BY JobTyped, ValuesAreNumbers
<1>2. /\ bounds' \in [Neurons -> [lb : Values \cup {Infinity}, ub : Values]]
      /\ work' \in [Solvers -> Jobs \cup {None}]
      /\ fixed' \in Neurons \cup {NoNeuron}
      /\ \A t \in Solvers : t /= s => work'[t] = work[t]
      /\ work'[s] /= None => work'[s].neuron = n
  BY OptimizeTyped
<1>3. Visits' = Visits
  BY DEF Visits
<1>4. bounds' = IF stored THEN [bounds EXCEPT ![n][phase] = v] ELSE bounds
  BY DEF Optimize
<1>5. \A m \in Neurons :
        /\ bounds'[m].lb = IF stored /\ m = n /\ phase = "lb" THEN v ELSE bounds[m].lb
        /\ bounds'[m].ub = IF stored /\ m = n /\ phase = "ub" THEN v ELSE bounds[m].ub
  <2>1. stored => Storable(phase, v)
    OBVIOUS
  <2>. QED
    BY <1>1, <1>4, <2>1, StoredBounds DEF IInv, Storable
<1>6. problem' \in Problems /\ TypeOK' /\ BoundsTyped'
  <2>1. \A m \in Neurons : bounds'[m].lb \in Values \cup {Infinity} /\ bounds'[m].ub \in Values
    BY <1>2
  <2>2. at' \in 1 .. Len(Visits') + 1 /\ main' \in {"visit", "wait", "join", "done"}
    BY <1>3 DEF IInv, TypeOK
  <2>3. {fixed', before'} \subseteq Neurons \cup {NoNeuron} /\ outcome' \in {"running", "returned", "infeasible"}
    BY <1>2 DEF IInv, TypeOK
  <2>. QED
    BY <1>2, <2>1, <2>2, <2>3 DEF IInv, TypeOK, BoundsTyped
<1>7. WaitsForNeuron'
  <2>1. Neuron' = Neuron
    BY <1>3 DEF Neuron
  <2>2. (Phases(Neuron, bounds[Neuron]))' = Phases(Neuron, bounds'[Neuron])
    BY <2>1 DEF Phases, LPPhases, MilpPhases, IncrementalMilpPhases, Wanted, Skipped, Incremental, Iterative
  <2>. QED
    BY <1>3, <2>1, <2>2, PhasesOfAnyBounds DEF IInv, WaitsForNeuron
<1>8. FlagRight'
  BY <1>5, ValuesAreNumbers DEF IInv, FlagRight
<1>9. OverWhenJoined'
  <2>1. main /= "done" /\ outcome = "running"
    BY JobTyped
  <2>. QED
    BY <2>1 DEF OverWhenJoined
<1>10. OneThread'
  BY <1>2 DEF IInv, OneThread, Incremental, Idle
<1>11. Kept'
  BY <1>5 DEF IInv, Kept, Holds
<1>12. EachItsOwn'
  BY <1>2, <1>3 DEF IInv, EachItsOwn
<1>13. JobsCurrent'
  BY OptimizeKeepsCurrent
<1>. QED
  BY <1>6, <1>7, <1>8, <1>9, <1>10, <1>11, <1>12, <1>13 DEF IInv

\* The solver returns a bound that holds in every solution, or the best solution it has found
LEMMA SolveInv ==
    ASSUME IInv, NEW s \in Solvers, Solve(s)
    PROVE  IInv'
<1>1. PICK v \in Returns(work[s].neuron, Head(work[s].rest)) : Optimize(s, v)
  BY DEF Solve
<1>. DEFINE n == work[s].neuron
            phase == Head(work[s].rest)
<1>2. work[s] /= None /\ UNCHANGED <<problem, at, main, infeasible, before, outcome>>
  BY DEF Solve
<1>3. n \in Neurons /\ phase \in {"lb", "ub"}
  BY <1>2, JobTyped
<1>0. v \in Values
  BY <1>1 DEF Returns, Bounds, Incumbents
<1>4. v \in Values /\ v /= Infinity /\ Storable(phase, v)
  BY <1>0, ValuesAreNumbers DEF Storable
<1>5. Holds(n, phase, v)
  BY <1>1 DEF Returns, Bounds, Incumbents, Holds
<1>6. infeasible \in BOOLEAN /\ (infeasible => ~problem.feasible)
  BY DEF IInv, TypeOK, FlagRight
<1>. QED
  BY <1>1, <1>2, <1>4, <1>5, <1>6, OptimizeInv

\* The infinity an infeasible model returns is never stored as an upper bound
LEMMA InfinityStorable ==
    ASSUME IInv, NEW s \in Solvers, work[s] /= None,
           Better(Head(work[s].rest), work[s][Head(work[s].rest)], Infinity)
    PROVE  Storable(Head(work[s].rest), Infinity)
<1>. DEFINE phase == Head(work[s].rest)
<1>1. phase \in {"lb", "ub"} /\ work[s] \in Jobs
  BY JobTyped
<1>2. CASE phase = "ub"
  <2>1. work[s][phase] \in Values
    BY <1>1, <1>2 DEF Jobs
  <2>2. work[s][phase] \in Int /\ work[s][phase] < Infinity /\ Infinity \in Int
    BY <2>1, ValuesAreNumbers
  <2>. QED
    BY <1>2, <2>2 DEF Better
<1>3. CASE phase = "lb"
  BY <1>3 DEF Storable
<1>. QED
  BY <1>1, <1>2, <1>3

\* A thread of the other modes raises the flag before it gives the solver back
LEMMA FindInfeasibleInv ==
    ASSUME IInv, NEW s \in Solvers, FindInfeasible(s)
    PROVE  IInv'
<1>. DEFINE n == work[s].neuron
            phase == Head(work[s].rest)
<1>1. /\ work[s] /= None /\ ~problem.feasible /\ infeasible' /\ Optimize(s, Infinity)
      /\ UNCHANGED <<problem, at, main, before, outcome>>
  BY DEF FindInfeasible
<1>2. phase \in {"lb", "ub"} /\ work[s].ub \in Values
  BY <1>1, JobTyped
<1>3. Better(phase, work[s][phase], Infinity) => Storable(phase, Infinity)
  BY <1>1, InfinityStorable
<1>4. Holds(n, phase, Infinity)
  BY <1>1 DEF Holds
<1>5. infeasible' \in BOOLEAN
  BY DEF FindInfeasible
<1>. QED
  BY <1>1, <1>3, <1>4, <1>5, OptimizeInv

\* The incremental modes leave with the exception, and nobody else is at work
LEMMA ThrowInfeasibleInv ==
    ASSUME IInv, NEW s \in Solvers, ThrowInfeasible(s)
    PROVE  IInv'
<1>1. /\ work[s] /= None /\ ~problem.feasible /\ Incremental
      /\ infeasible' = TRUE /\ outcome' = "infeasible" /\ main' = "done"
      /\ work' = [work EXCEPT ![s] = None]
      /\ UNCHANGED <<problem, bounds, at, fixed, before>>
  BY DEF ThrowInfeasible
<1>2. \A t \in Solvers : work'[t] = None
  BY <1>1, JobTyped DEF IInv, TypeOK
<1>3. Visits' = Visits
  BY <1>1 DEF Visits
<1>4. TypeOK'
  BY <1>1, <1>3 DEF IInv, TypeOK
<1>5. BoundsTyped' /\ FlagRight' /\ Kept'
  BY <1>1 DEF IInv, BoundsTyped, FlagRight, Kept
<1>6. WaitsForNeuron' /\ OverWhenJoined' /\ OneThread'
  BY <1>1, <1>2 DEF WaitsForNeuron, OverWhenJoined, OneThread, Idle
<1>7. EachItsOwn' /\ JobsCurrent'
  BY <1>2 DEF EachItsOwn, JobsCurrent
<1>. QED
  BY <1>1, <1>4, <1>5, <1>6, <1>7 DEF IInv

\* The main thread goes on to the next neuron
LEMMA SkipInv == ASSUME IInv, Skip PROVE IInv'
<1>1. /\ main = "visit" /\ main' = main /\ at <= Len(Visits) /\ at' = at + 1
      /\ UNCHANGED <<problem, bounds, work, infeasible, fixed, before, outcome>>
  BY DEF Skip
<1>2. at \in 1 .. Len(Visits) + 1 /\ Len(Visits) \in Nat
  BY VisitsIsWalk DEF IInv, TypeOK
<1>3. at' \in 1 .. Len(Visits) + 1 /\ at' >= at
  BY <1>1, <1>2
<1>4. WaitsForNeuron' /\ OverWhenJoined'
  BY <1>1 DEF IInv, WaitsForNeuron, OverWhenJoined, Idle
<1>. QED
  BY <1>1, <1>3, <1>4, WalkInv DEF IInv, TypeOK

\* The main thread stops handing out neurons
LEMMA StopWalkInv ==
    ASSUME IInv, main = "visit", main' = "join", MainFree,
           UNCHANGED <<problem, bounds, at, work, infeasible, fixed, before, outcome>>
    PROVE  IInv'
<1>1. at' \in 1 .. Len(Visits) + 1 /\ at' >= at
  BY VisitsIsWalk DEF IInv, TypeOK
<1>2. WaitsForNeuron' /\ OverWhenJoined'
  BY DEF IInv, WaitsForNeuron, OverWhenJoined, Idle
<1>3. Incremental => Idle
  BY DEF MainFree
<1>. QED
  BY <1>1, <1>2, <1>3, WalkInv DEF IInv, TypeOK

\* The main thread asks for a solver for a neuron that needs one
LEMMA VisitInv == ASSUME IInv, Visit PROVE IInv'
<1>1. /\ main = "visit" /\ main' = "wait" /\ at <= Len(Visits) /\ MainFree /\ ~NeedsNothing /\ ~NoProgress
      /\ UNCHANGED <<problem, bounds, at, work, infeasible, fixed, before, outcome>>
  BY DEF Visit
<1>2. at' \in 1 .. Len(Visits) + 1 /\ at' >= at
  BY <1>1, VisitsIsWalk DEF IInv, TypeOK
<1>3. Phases(Neuron, bounds[Neuron]) /= <<>>
  BY <1>1 DEF NeedsNothing
<1>4. WaitsForNeuron'
  <2>1. Visits' = Visits
    BY <1>1 DEF Visits
  <2>2. Neuron' = Neuron
    BY <1>1, <2>1 DEF Neuron
  <2>3. Phases(Neuron, bounds[Neuron])' = Phases(Neuron, bounds[Neuron])
    BY <1>1, <2>2 DEF Phases, LPPhases, MilpPhases, IncrementalMilpPhases, Wanted, Skipped, Incremental, Iterative
  <2>. QED
    BY <1>1, <1>3, <2>1, <2>3 DEF WaitsForNeuron
<1>5. OverWhenJoined'
  BY <1>1 DEF IInv, OverWhenJoined, Idle
<1>6. Incremental => Idle
  BY <1>1 DEF MainFree
<1>. QED
  BY <1>1, <1>2, <1>4, <1>5, <1>6, WalkInv DEF IInv, TypeOK

\* The next pass starts when all threads are joined
LEMMA NextPassInv == ASSUME IInv, NextPass PROVE IInv'
<1>1. /\ main = "join" /\ main' = "visit" /\ Idle /\ at' = 1 /\ before' = fixed /\ fixed' = NoNeuron
      /\ UNCHANGED <<problem, bounds, work, infeasible, outcome>>
  BY DEF NextPass
<1>2. at' \in 1 .. Len(Visits) + 1
  BY <1>1, VisitsIsWalk DEF IInv
<1>3. WaitsForNeuron' /\ OverWhenJoined'
  BY <1>1 DEF IInv, WaitsForNeuron, OverWhenJoined, Idle
<1>4. {fixed', before'} \subseteq Neurons \cup {NoNeuron}
  BY <1>1 DEF IInv, TypeOK
<1>. QED
  BY <1>1, <1>2, <1>3, <1>4, WalkInv DEF IInv, TypeOK

\* The call ends when all threads are joined, and reads the flag after that
LEMMA FinishInv == ASSUME IInv, Finish PROVE IInv'
<1>1. /\ main = "join" /\ Idle /\ main' = "done"
      /\ outcome' = IF infeasible THEN "infeasible" ELSE "returned"
      /\ UNCHANGED <<problem, bounds, at, work, infeasible, fixed, before>>
  BY DEF Finish
<1>2. at' \in 1 .. Len(Visits) + 1
  BY <1>1 DEF IInv, TypeOK
<1>3. WaitsForNeuron' /\ OverWhenJoined'
  BY <1>1 DEF IInv, WaitsForNeuron, OverWhenJoined, Idle
<1>. QED
  BY <1>1, <1>2, <1>3, WalkInv DEF IInv, TypeOK

\* A thread is given a neuron no other works on, with its present bounds
LEMMA DispatchInv ==
    ASSUME IInv, NEW s \in Solvers, Dispatch(s)
    PROVE  IInv'
<1>. DEFINE job == [neuron |-> Neuron, lb |-> bounds[Neuron].lb, ub |-> bounds[Neuron].ub,
                    rest |-> Phases(Neuron, bounds[Neuron])]
<1>1. /\ main = "wait" /\ main' = "visit" /\ at' = at + 1 /\ work[s] = None
      /\ work' = [work EXCEPT ![s] = job]
      /\ UNCHANGED <<problem, bounds, infeasible, fixed, before, outcome>>
  BY DEF Dispatch
<1>2. at \in 1 .. Len(Visits) /\ Len(Visits) \in Nat /\ Neuron \in Neurons /\ IsWalk(Visits)
  BY <1>1, VisitsIsWalk DEF IInv, TypeOK, WaitsForNeuron, Neuron
<1>3. job \in Jobs
  <2>1. job.rest \in Seq({"lb", "ub"}) \ {<<>>}
    BY <1>1, PhasesTyped DEF IInv, WaitsForNeuron
  <2>2. bounds[Neuron].lb \in Values \cup {Infinity} /\ bounds[Neuron].ub \in Values
    BY <1>2 DEF IInv, TypeOK
  <2>. QED
    BY <1>2, <2>1, <2>2 DEF Jobs
<1>4. /\ work' \in [Solvers -> Jobs \cup {None}] /\ work'[s] = job
      /\ \A t \in Solvers : t /= s => work'[t] = work[t]
  BY <1>1, <1>3 DEF IInv, TypeOK
<1>5. Visits' = Visits
  BY <1>1 DEF Visits
<1>6. TypeOK'
  <2>1. at' \in 1 .. Len(Visits') + 1
    BY <1>1, <1>2, <1>5
  <2>. QED
    BY <1>1, <1>4, <2>1 DEF IInv, TypeOK
<1>7. BoundsTyped' /\ FlagRight' /\ Kept'
  BY <1>1 DEF IInv, BoundsTyped, FlagRight, Kept
<1>8. WaitsForNeuron' /\ OverWhenJoined'
  BY <1>1 DEF IInv, WaitsForNeuron, OverWhenJoined
<1>9. OneThread'
  <2>1. Incremental' = Incremental
    BY <1>1 DEF Incremental
  <2>2. Incremental => \A t \in Solvers : work[t] = None
    BY <1>1 DEF IInv, OneThread, Idle
  <2>. QED
    BY <1>1, <1>4, <2>1, <2>2 DEF OneThread
<1>10. \A t \in Solvers : t /= s /\ work[t] /= None => work[t].neuron /= Neuron
  <2>1. SUFFICES ASSUME NEW t \in Solvers, work[t] /= None PROVE work[t].neuron /= Neuron
    OBVIOUS
  <2>2. PICK i \in 1 .. at - 1 : i <= Len(Visits) /\ work[t].neuron = Visits[i]
    BY <2>1 DEF IInv, EachItsOwn
  <2>3. i \in DOMAIN Visits /\ at \in DOMAIN Visits /\ i /= at
    BY <1>2, <2>2 DEF IsWalk
  <2>. QED
    BY <1>2, <2>2, <2>3 DEF IsWalk, Neuron
<1>11. EachItsOwn'
  <2>1. ASSUME NEW t \in Solvers, work'[t] /= None
        PROVE  \E i \in 1 .. at' - 1 : i <= Len(Visits) /\ work'[t].neuron = Visits[i]
    <3>1. CASE t = s
      <4>1. at \in 1 .. at' - 1 /\ at <= Len(Visits)
        BY <1>1, <1>2
      <4>. QED
        BY <1>4, <3>1, <4>1 DEF Neuron
    <3>2. CASE t /= s
      <4>1. PICK i \in 1 .. at - 1 : i <= Len(Visits) /\ work[t].neuron = Visits[i]
        BY <1>4, <2>1, <3>2 DEF IInv, EachItsOwn
      <4>2. i \in 1 .. at' - 1
        BY <1>1, <1>2
      <4>. QED
        BY <1>4, <3>2, <4>1, <4>2
    <3>. QED
      BY <3>1, <3>2
  <2>2. ASSUME NEW t \in Solvers, NEW u \in Solvers, work'[t] /= None, work'[u] /= None, work'[t].neuron = work'[u].neuron
        PROVE  t = u
    BY <1>4, <1>10, <2>2 DEF IInv, EachItsOwn
  <2>. QED
    BY <1>5, <2>1, <2>2 DEF EachItsOwn
<1>12. JobsCurrent'
  <2>1. Current(job, bounds[Neuron])
    <3>1. CASE Once
      <4>1. job.rest \in OnePhase \cup TwoPhases
        BY <1>1, <1>2, <3>1, PhasesOnce DEF IInv, WaitsForNeuron
      <4>. QED
        BY <3>1, <4>1 DEF Current, Once
    <3>2. CASE ~Once
      BY <3>2 DEF Current
    <3>. QED
      BY <3>1, <3>2
  <2>2. ASSUME NEW t \in Solvers, work'[t] /= None
        PROVE  Current(work'[t], bounds[work'[t].neuron])
    BY <1>4, <2>1, <2>2 DEF IInv, JobsCurrent
  <2>. QED
    BY <1>1, <2>2 DEF JobsCurrent, Current, Once
<1>. QED
  BY <1>1, <1>6, <1>7, <1>8, <1>9, <1>11, <1>12 DEF IInv

\* Every step keeps the invariant
LEMMA NextInv == ASSUME IInv, [Next]_vars PROVE IInv'
<1>1. CASE UNCHANGED vars
  <2>1. UNCHANGED <<problem, bounds, at, main, work, infeasible, fixed, before, outcome>>
    BY <1>1 DEF vars
  <2>2. Visits' = Visits
    BY <2>1 DEF Visits
  <2>3. Phases(Neuron, bounds[Neuron])' = Phases(Neuron, bounds[Neuron])
    BY <2>1, <2>2 DEF Neuron, Phases, LPPhases, MilpPhases, IncrementalMilpPhases, Wanted, Skipped, Incremental, Iterative
  <2>4. WaitsForNeuron' /\ OverWhenJoined'
    BY <2>1, <2>2, <2>3 DEF IInv, WaitsForNeuron, OverWhenJoined, Idle
  <2>5. at' \in 1 .. Len(Visits) + 1 /\ at' >= at /\ (Incremental /\ main' /= "visit" => Idle)
    BY <2>1, VisitsIsWalk DEF IInv, TypeOK, OneThread
  <2>. QED
    BY <2>1, <2>4, <2>5, WalkInv DEF IInv, TypeOK
<1>2. CASE Skip
  BY <1>2, SkipInv
<1>3. CASE Abort
  BY <1>3, StopWalkInv DEF Abort
<1>4. CASE Visit
  BY <1>4, VisitInv
<1>5. CASE \E s \in Solvers : Dispatch(s)
  BY <1>5, DispatchInv
<1>6. CASE NoNeuronLeft
  BY <1>6, StopWalkInv DEF NoNeuronLeft
<1>7. CASE NextPass
  BY <1>7, NextPassInv
<1>8. CASE Finish
  BY <1>8, FinishInv
<1>9. CASE \E s \in Solvers : Worker(s)
  BY <1>9, SolveInv, FindInfeasibleInv, ThrowInfeasibleInv DEF Worker
<1>. QED
  BY <1>1, <1>2, <1>3, <1>4, <1>5, <1>6, <1>7, <1>8, <1>9 DEF Next, Main

\* The threads and the bounds fit together at all times
THEOREM Invariance == Spec => []IInv
<1>. QED
  BY InitInv, NextInv, PTL DEF Spec

-----------------------------------------------------------------------------
(* The properties *)

\* The bounds, the jobs and the walk stay what they should be, in all eight modes
THEOREM TypesAreKept == Spec => []TypeOK
<1>1. IInv => TypeOK
  BY DEF IInv
<1>. QED
  BY <1>1, Invariance, PTL

\* A problem with a solution is never called infeasible, and the bounds keep every
\* solution, however far behind the bounds the workers go by are (LPFormulator.cpp:557-646,
\* MILPFormulator.cpp:413-590)
THEOREM EverySolutionKept == Spec => []SolutionsKept
<1>1. IInv => SolutionsKept
  BY DEF IInv, SolutionsKept, Kept, OverWhenJoined, FlagRight
<1>. QED
  BY <1>1, Invariance, PTL

\* The call returns normally only if no thread has found its model infeasible, and
\* when it is over no thread is at work (LPFormulator.cpp:308-336, :494-512)
THEOREM EveryInfeasibilityHandled == Spec => []InfeasibilityHandled
<1>1. IInv => InfeasibilityHandled
  BY DEF IInv, InfeasibilityHandled, InfeasibleIsReported, NoThreadOutlives, OverWhenJoined, FlagRight
<1>. QED
  BY <1>1, Invariance, PTL

\* A thread that knows the present bound replaces it only by a better one
LEMMA OptimizeTightens ==
    ASSUME IInv, ~Forgetful, NEW s \in Solvers, work[s] /= None, NEW v \in Values \cup {Infinity}, Optimize(s, v),
           Better(Head(work[s].rest), work[s][Head(work[s].rest)], v) => Storable(Head(work[s].rest), v)
    PROVE  \A n \in Neurons : bounds[n].lb <= bounds'[n].lb /\ bounds'[n].ub <= bounds[n].ub
<1>. DEFINE job == work[s]
            n == job.neuron
            phase == Head(job.rest)
            stored == Better(phase, job[phase], v)
<1>1. job \in Jobs /\ n \in Neurons /\ phase \in {"lb", "ub"} /\ v \in Int
  BY JobTyped, ValuesAreNumbers
<1>2. bounds' = IF stored THEN [bounds EXCEPT ![n][phase] = v] ELSE bounds
  BY DEF Optimize
<1>3. \A m \in Neurons :
        /\ bounds'[m].lb = IF stored /\ m = n /\ phase = "lb" THEN v ELSE bounds[m].lb
        /\ bounds'[m].ub = IF stored /\ m = n /\ phase = "ub" THEN v ELSE bounds[m].ub
  BY <1>1, <1>2, StoredBounds DEF Storable, IInv
<1>4. job[phase] = bounds[n][phase]
  <2>1. Current(job, bounds[n])
    BY DEF IInv, JobsCurrent
  <2>2. /\ phase = "lb" => job.rest /= <<"ub">>
        /\ phase = "ub" => job.rest /= <<"lb">>
    OBVIOUS
  <2>3. /\ phase = "lb" => job.lb = bounds[n].lb
        /\ phase = "ub" => job.ub = bounds[n].ub
    BY <2>1, <2>2 DEF Current, Once, Forgetful
  <2>4. job \in Jobs /\ bounds[n] \in [lb : Values \cup {Infinity}, ub : Values]
    BY <1>1 DEF IInv, BoundsTyped
  <2>5. CASE phase = "lb"
    BY <2>3, <2>4, <2>5 DEF Jobs
  <2>6. CASE phase = "ub"
    BY <2>3, <2>4, <2>6 DEF Jobs
  <2>. QED
    BY <1>1, <2>5, <2>6
<1>5. \A m \in Neurons : bounds[m].lb \in Int /\ bounds[m].ub \in Int
  BY ValuesAreNumbers DEF IInv, TypeOK
<1>6. /\ stored /\ phase = "lb" => bounds[n].lb < v
      /\ stored /\ phase = "ub" => v < bounds[n].ub
  BY <1>1, <1>4, <1>5 DEF Better
<1>. QED
  BY <1>1, <1>3, <1>5, <1>6

\* No bound is replaced by a weaker one in the modes whose threads know what they have
\* stored themselves, although they go by the bounds of their neuron at the time it was
\* handed out (LPFormulator.cpp:523, MILPFormulator.cpp:738-770)
THEOREM NoBoundWeakens == Spec => BoundsOnlyTighten
<1>1. ASSUME IInv, [Next]_vars, ~Forgetful
      PROVE  \A n \in Neurons : bounds[n].lb <= bounds'[n].lb /\ bounds'[n].ub <= bounds[n].ub
  <2>1. \A m \in Neurons : bounds[m].lb \in Int /\ bounds[m].ub \in Int
    BY <1>1, ValuesAreNumbers DEF IInv, TypeOK
  <2>2. CASE bounds' = bounds
    BY <2>1, <2>2
  <2>3. ASSUME NEW s \in Solvers, Solve(s) \/ FindInfeasible(s)
        PROVE  \A n \in Neurons : bounds[n].lb <= bounds'[n].lb /\ bounds'[n].ub <= bounds[n].ub
    <3>1. work[s] /= None
      BY <2>3 DEF Solve, FindInfeasible
    <3>2. CASE Solve(s)
      <4>1. PICK v \in Returns(work[s].neuron, Head(work[s].rest)) : Optimize(s, v)
        BY <3>2 DEF Solve
      <4>2. v \in Values
        BY <4>1 DEF Returns, Bounds, Incumbents
      <4>. QED
        BY <1>1, <3>1, <4>1, <4>2, OptimizeTightens DEF Storable
    <3>3. CASE FindInfeasible(s)
      <4>1. Optimize(s, Infinity)
        BY <3>3 DEF FindInfeasible
      <4>. QED
        BY <1>1, <3>1, <4>1, InfinityStorable, OptimizeTightens
    <3>. QED
      BY <2>3, <3>2, <3>3
  <2>4. \/ bounds' = bounds
        \/ \E s \in Solvers : Solve(s) \/ FindInfeasible(s)
    BY <1>1 DEF Next, Main, Worker, Skip, Abort, Visit, Dispatch, NoNeuronLeft, NextPass, Finish, ThrowInfeasible, vars
  <2>. QED
    BY <2>2, <2>3, <2>4
<1>2. IInv /\ [Next]_vars =>
        [problem.mode \notin {"milp", "one layer milp"} =>
           \A n \in Neurons : bounds[n].lb <= bounds'[n].lb /\ bounds'[n].ub <= bounds[n].ub]_vars
  BY <1>1 DEF Forgetful
<1>. QED
  BY <1>2, Invariance, PTL DEF Spec, BoundsOnlyTighten
=============================================================================
