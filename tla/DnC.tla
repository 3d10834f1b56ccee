-------------------------------- MODULE DnC --------------------------------
(***************************************************************************)
(* Divide and conquer: the DnCManager, its DnCWorkers, one thread each,    *)
(* the queue of subqueries they share, the counter of unsolved subqueries  *)
(* and the flag that tells everybody to stop.  Every access to the shared  *)
(* queue, to the counter and to the flag is a step of its own.             *)
(*                                                                         *)
(* A subquery is the part of the input it is about, a set of points, and   *)
(* the identity of the object allocated for it.  An engine is what it      *)
(* answers: UNSAT and SAT are sound for the region, TIMEOUT needs a limit, *)
(* QUIT_REQUESTED a request.  The order of the queue is left open.         *)
(***************************************************************************)
EXTENDS Integers, FiniteSets

CONSTANTS
    Workers,        \* the threads
    Points,         \* the points of the input
    InitialParts,   \* the number of subqueries of the initial division
    OnlineParts,    \* the most parts a subquery that timed out is divided in
    DepthThreshold, \* GlobalConfiguration::DNC_DEPTH_THRESHOLD
    TimeLimit,      \* the manager has a timeout
    Failures,       \* the answers of an engine besides SAT, UNSAT, TIMEOUT
    Signals,        \* the process may be sent SIGTERM or SIGQUIT
    None            \* no subquery

ASSUME WorkersAreFinite == IsFiniteSet(Workers) /\ Workers # {}
ASSUME PartsArePositive == InitialParts \in Nat \ {0} /\ OnlineParts \in Nat \ {0}
ASSUME DepthThresholdIsANumber == DepthThreshold \in Nat
ASSUME FlagsAreBoolean == TimeLimit \in BOOLEAN /\ Signals \in BOOLEAN
ASSUME FailuresOfEngine == Failures \subseteq {"ERROR", "UNKNOWN"}

VARIABLES
    solutions,  \* the points that satisfy the query
    queue,      \* _workload
    unsolved,   \* _numUnsolvedSubQueries
    shouldQuit, \* shouldQuitSolving
    quit,       \* per engine: _quitRequested
    result,     \* per engine: _exitCode
    pc,         \* per worker: where it is
    job,        \* per worker: the subquery it popped
    parts,      \* per worker: the new subqueries it has still to push
    manager,    \* where the manager is
    timedOut,   \* _timeoutReached
    answer,     \* the manager's _exitCode
    allocated,  \* the number of subqueries allocated so far
    dropped     \* history: the subqueries deleted without having been solved

work == <<queue, unsolved, shouldQuit>>
engine == <<quit, result>>
local == <<pc, job, parts>>
managerState == <<manager, timedOut, answer>>
vars == <<solutions, work, engine, local, managerState, allocated, dropped>>

SubQuery == [id : Nat, region : SUBSET Points, depth : Nat, limited : BOOLEAN]

Covered(queries) == UNION {q.region : q \in queries}

\* Allocations of at most n subqueries that cover a region, the first with id
\* k + 1, at a depth and with or without a time limit
Divisions(region, n, k, depth, limited) ==
    UNION {{{[id |-> k + i, region |-> r[i], depth |-> depth, limited |-> limited] :
                i \in 1 .. m} :
            r \in {f \in [1 .. m -> SUBSET region] : UNION {f[i] : i \in 1 .. m} = region}} :
           m \in 1 .. n}

Goto(w, label) == pc' = [pc EXCEPT ![w] = label]

\* The subquery is deleted, and back to the loop
Delete(w) ==
    /\ job' = [job EXCEPT ![w] = None]
    /\ Goto(w, "loop")
-----------------------------------------------------------------------------
\* The initial division is in the queue and counted before any thread starts
Init ==
    /\ solutions \in SUBSET Points
    /\ queue \in Divisions(Points, InitialParts, 0, 1, TRUE)
    /\ unsolved = Cardinality(queue)
    /\ shouldQuit = FALSE
    /\ quit = [w \in Workers |-> FALSE]
    /\ result = [w \in Workers |-> "NOT_DONE"]
    /\ pc = [w \in Workers |-> "loop"]
    /\ job = [w \in Workers |-> None]
    /\ parts = [w \in Workers |-> {}]
    /\ manager = "wait"
    /\ timedOut = FALSE
    /\ answer = "NOT_DONE"
    /\ allocated = Cardinality(queue)
    /\ dropped = {}

\* The loop of dncSolve
Loop(w) ==
    /\ pc[w] = "loop"
    /\ Goto(w, IF shouldQuit THEN "gone" ELSE "pop")
    /\ UNCHANGED <<solutions, work, engine, job, parts, managerState, allocated, dropped>>

PopEmpty(w) ==
    /\ pc[w] = "pop"
    /\ queue = {}
    /\ Goto(w, "loop")
    /\ UNCHANGED <<solutions, work, engine, job, parts, managerState, allocated, dropped>>

\* A subquery is popped, the engine is restored and reset
Pop(w) ==
    /\ pc[w] = "pop"
    /\ \E q \in queue :
        /\ queue' = queue \ {q}
        /\ job' = [job EXCEPT ![w] = q]
    /\ result' = [result EXCEPT ![w] = "NOT_DONE"]
    /\ Goto(w, "solve")
    /\ UNCHANGED <<solutions, unsolved, shouldQuit, quit, parts, managerState, allocated, dropped>>

\* What the engine of w may answer
Answers(w) ==
    (IF job[w].region \cap solutions = {} THEN {"UNSAT"} ELSE {"SAT"})
    \cup (IF job[w].limited THEN {"TIMEOUT"} ELSE {})
    \cup (IF quit[w] THEN {"QUIT_REQUESTED"} ELSE {})
    \cup Failures

Solve(w) ==
    /\ pc[w] = "solve"
    /\ \E code \in Answers(w) : result' = [result EXCEPT ![w] = code]
    /\ Goto(w, "judge")
    /\ UNCHANGED <<solutions, work, quit, job, parts, managerState, allocated, dropped>>

\* UNSAT: the counter is decremented, then read
Refuted(w) ==
    /\ pc[w] = "judge"
    /\ result[w] = "UNSAT"
    /\ unsolved' = unsolved - 1
    /\ Goto(w, "check")
    /\ UNCHANGED <<solutions, queue, shouldQuit, engine, job, parts, managerState, allocated, dropped>>

\* Mutant of Check: the last subquery is not noticed
CheckBelow(w) ==
    /\ pc[w] = "check"
    /\ shouldQuit' = (shouldQuit \/ unsolved < 0)
    /\ Delete(w)
    /\ UNCHANGED <<solutions, queue, unsolved, engine, parts, managerState, allocated, dropped>>

Check(w) ==
    /\ pc[w] = "check"
    /\ shouldQuit' = (shouldQuit \/ unsolved = 0)
    /\ Delete(w)
    /\ UNCHANGED <<solutions, queue, unsolved, engine, parts, managerState, allocated, dropped>>

\* Mutant of Divide: the part of the input that timed out loses a point
DivideLosing(w) ==
    /\ pc[w] = "judge"
    /\ result[w] = "TIMEOUT"
    /\ \E r \in SUBSET job[w].region :
        parts' \in {[parts EXCEPT ![w] = d] :
            d \in Divisions(r, OnlineParts, allocated, job[w].depth + 1, FALSE)}
    /\ allocated' = allocated + Cardinality(parts'[w])
    /\ Goto(w, "push")
    /\ UNCHANGED <<solutions, work, engine, job, managerState, dropped>>

\* TIMEOUT: the region is divided; deep enough, the parts have no limit
Divide(w) ==
    /\ pc[w] = "judge"
    /\ result[w] = "TIMEOUT"
    /\ parts' \in {[parts EXCEPT ![w] = d] :
            d \in Divisions(job[w].region, OnlineParts, allocated, job[w].depth + 1,
                            job[w].depth < DepthThreshold - 1)}
    /\ allocated' = allocated + Cardinality(parts'[w])
    /\ Goto(w, "push")
    /\ UNCHANGED <<solutions, work, engine, job, managerState, dropped>>

\* A part is pushed; from here on another worker may pop it
Push(w) ==
    /\ pc[w] = "push"
    /\ \E q \in parts[w] :
        /\ queue' = queue \cup {q}
        /\ parts' = [parts EXCEPT ![w] = @ \ {q}]
    /\ Goto(w, "count")
    /\ UNCHANGED <<solutions, unsolved, shouldQuit, engine, job, managerState, allocated, dropped>>

\* Mutant of Count: the parts are not counted
CountNothing(w) ==
    /\ pc[w] = "count"
    /\ Goto(w, "push")
    /\ UNCHANGED <<solutions, work, engine, job, parts, managerState, allocated, dropped>>

\* ... and only then counted
Count(w) ==
    /\ pc[w] = "count"
    /\ unsolved' = unsolved + 1
    /\ Goto(w, "push")
    /\ UNCHANGED <<solutions, queue, shouldQuit, engine, job, parts, managerState, allocated, dropped>>

\* Mutant of Divided: the subquery that was divided is counted for ever
DividedUncounted(w) ==
    /\ pc[w] = "push"
    /\ parts[w] = {}
    /\ Delete(w)
    /\ UNCHANGED <<solutions, work, engine, parts, managerState, allocated, dropped>>

\* The subquery that was divided is no longer counted; nobody reads the counter
Divided(w) ==
    /\ pc[w] = "push"
    /\ parts[w] = {}
    /\ unsolved' = unsolved - 1
    /\ Delete(w)
    /\ UNCHANGED <<solutions, queue, shouldQuit, engine, parts, managerState, allocated, dropped>>

\* QUIT_REQUESTED: the subquery is deleted
Abandon(w) ==
    /\ pc[w] = "judge"
    /\ result[w] = "QUIT_REQUESTED"
    /\ dropped' = dropped \cup {job[w]}
    /\ Delete(w)
    /\ UNCHANGED <<solutions, work, engine, parts, managerState, allocated>>

\* Any other answer stops everybody
Stop(w) ==
    /\ pc[w] = "judge"
    /\ result[w] \in {"SAT", "ERROR", "UNKNOWN"}
    /\ shouldQuit' = TRUE
    /\ Goto(w, "stop")
    /\ UNCHANGED <<solutions, queue, unsolved, engine, job, parts, managerState, allocated, dropped>>

\* ... and a subquery that is SAT counts as solved
Stopped(w) ==
    /\ pc[w] = "stop"
    /\ IF result[w] = "SAT"
       THEN /\ unsolved' = unsolved - 1
            /\ UNCHANGED dropped
       ELSE /\ dropped' = dropped \cup {job[w]}
            /\ UNCHANGED unsolved
    /\ Delete(w)
    /\ UNCHANGED <<solutions, queue, shouldQuit, engine, parts, managerState, allocated>>

\* The loop of DnCManager::solve finds that the time is up
TimeUp ==
    /\ manager = "wait"
    /\ TimeLimit
    /\ timedOut' = TRUE
    /\ shouldQuit' = TRUE
    /\ UNCHANGED <<solutions, queue, unsolved, engine, local, manager, answer, allocated, dropped>>

\* ... or that a worker asks everybody to stop: the engines are told, in turn
AskToQuit(w) ==
    /\ manager = "wait"
    /\ shouldQuit
    /\ ~quit[w]
    /\ quit' = [quit EXCEPT ![w] = TRUE]
    /\ UNCHANGED <<solutions, work, result, local, managerState, allocated, dropped>>

\* Mutant of ExitCode: the counter is looked at first
ExitCodeCounterFirst ==
    LET codes == {result[w] : w \in Workers} IN
    IF unsolved <= 0 THEN "UNSAT"
    ELSE IF "SAT" \in codes THEN "SAT"
    ELSE IF timedOut THEN "TIMEOUT"
    ELSE IF "QUIT_REQUESTED" \in codes THEN "QUIT_REQUESTED"
    ELSE IF "ERROR" \in codes THEN "ERROR"
    ELSE "NOT_DONE"

\* updateDnCExitCode
ExitCode ==
    LET codes == {result[w] : w \in Workers} IN
    IF "SAT" \in codes THEN "SAT"
    ELSE IF timedOut THEN "TIMEOUT"
    ELSE IF unsolved <= 0 THEN "UNSAT"
    ELSE IF "QUIT_REQUESTED" \in codes THEN "QUIT_REQUESTED"
    ELSE IF "ERROR" \in codes THEN "ERROR"
    ELSE "NOT_DONE"

\* All threads have been joined
Finish ==
    /\ manager = "wait"
    /\ shouldQuit
    /\ \A w \in Workers : quit[w] /\ pc[w] = "gone"
    /\ manager' = "done"
    /\ answer' = ExitCode
    /\ UNCHANGED <<solutions, work, engine, local, timedOut, allocated, dropped>>

\* SignalHandler: every engine that has started to solve is asked to quit
Signal ==
    /\ Signals
    /\ manager = "wait"
    /\ quit' = [w \in Workers |-> quit[w] \/ pc[w] = "solve" \/ result[w] # "NOT_DONE"]
    /\ UNCHANGED <<solutions, work, result, local, managerState, allocated, dropped>>

Worker(w) ==
    \/ Loop(w) \/ PopEmpty(w) \/ Pop(w) \/ Solve(w)
    \/ Refuted(w) \/ Check(w)
    \/ Divide(w) \/ Push(w) \/ Count(w) \/ Divided(w)
    \/ Abandon(w) \/ Stop(w) \/ Stopped(w)

Manager == TimeUp \/ Finish \/ \E w \in Workers : AskToQuit(w)

Next == Manager \/ Signal \/ \E w \in Workers : Worker(w)

\* Every thread gets to run; the time limit, if any, need not be reached
Spec ==
    /\ Init /\ [][Next]_vars
    /\ \A w \in Workers : WF_vars(Worker(w)) /\ WF_vars(AskToQuit(w))
    /\ WF_vars(Finish)
-----------------------------------------------------------------------------
Codes == {"NOT_DONE", "SAT", "UNSAT", "TIMEOUT", "QUIT_REQUESTED", "ERROR", "UNKNOWN"}
Labels == {"loop", "pop", "solve", "judge", "check", "push", "count", "stop", "gone"}

TypeOK ==
    /\ solutions \subseteq Points
    /\ queue \subseteq SubQuery
    /\ unsolved \in Nat
    /\ shouldQuit \in BOOLEAN
    /\ quit \in [Workers -> BOOLEAN]
    /\ result \in [Workers -> Codes]
    /\ pc \in [Workers -> Labels]
    /\ job \in [Workers -> SubQuery \cup {None}]
    /\ parts \in [Workers -> SUBSET SubQuery]
    /\ manager \in {"wait", "done"}
    /\ timedOut \in BOOLEAN
    /\ answer \in Codes \ {"UNKNOWN"}
    /\ allocated \in Nat
    /\ dropped \subseteq SubQuery

\* The workers whose job is still counted, and those that have pushed a
\* subquery that is not counted yet
Holding == {w \in Workers : pc[w] \in {"solve", "judge", "push", "count", "stop"}}
Counting == {w \in Workers : pc[w] = "count"}

\* The counter is the number of subqueries that are queued, held by a worker or
\* given up, less those pushed but not yet counted: no decrement is lost or
\* made twice, whatever the order in which the threads run.
CounterExact ==
    unsolved = Cardinality(queue) + Cardinality(Holding) + Cardinality(dropped)
               - Cardinality(Counting)

\* A worker has the parts it has to push, and its subquery as long as that is
\* neither refuted nor divided
Carrying(w) ==
    \/ pc[w] \in {"solve", "stop"}
    \/ pc[w] = "judge" /\ result[w] # "UNSAT"
Mine(w) == parts[w] \cup (IF Carrying(w) THEN {job[w]} ELSE {})

\* The subqueries that nobody has refuted or divided
Open == queue \cup dropped \cup UNION {Mine(w) : w \in Workers}

\* No solution is lost between the subqueries: one that has not been found is
\* in a subquery that is queued, being pushed, being solved, or given up.
SolutionsCovered ==
    (\E w \in Workers : result[w] = "SAT") \/ solutions \subseteq Covered(Open)

\* The manager answers SAT and UNSAT only if that is what the query is,
\* although the counter it reads is not always the number of subqueries left.
AnswerSound ==
    /\ answer = "UNSAT" => solutions = {}
    /\ answer = "SAT" => solutions # {}

\* The manager stops waiting, either because all subqueries are solved or
\* because a satisfying assignment was found.
Ends == <>(manager = "done")

\* A worker that divided its subquery is back in the loop, and the counter it
\* has decremented last, or somebody after it, is at zero
DividedLast ==
    unsolved = 0 /\ \E w \in Workers : pc[w] = "loop" /\ result[w] = "TIMEOUT"

\* An engine quit because of a signal, which the manager knows nothing of, and
\* its subquery was deleted
QuitUnasked == dropped # {} /\ ~shouldQuit

\* The only ways not to end are that the last decrement is that of a division,
\* after which nobody looks, and that a signal made an engine drop a subquery:
\* no worker waits for another, no zero reached by an UNSAT answer is missed,
\* and the divisions do not go on for ever.
EndsUnlessMissed == []~(DividedLast \/ QuitUnasked) => Ends
=============================================================================
