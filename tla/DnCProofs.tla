----------------------------- MODULE DnCProofs -----------------------------
(***************************************************************************)
(* Proofs about DnC, for any threads, any input, any division, any depth,  *)
(* with or without timeouts, signals and failing engines: the counter is   *)
(* exact, no solution is lost between the workers, the manager answers SAT *)
(* and UNSAT only if that is what the query is, no worker waits for        *)
(* nothing, and the threads move forward.                                  *)
(***************************************************************************)
EXTENDS DnC, TLAPS, FiniteSetTheorems, FunctionTheorems, WellFoundedInduction

\* Where a worker holds a subquery it has not deleted yet
LiveLabels == {"solve", "judge", "check", "push", "count", "stop"}
Live == {w \in Workers : pc[w] \in LiveLabels}

\* What is in the shared state and in the workers; the counter may be anything
TypeInv ==
    /\ solutions \subseteq Points
    /\ queue \subseteq SubQuery /\ IsFiniteSet(queue)
    /\ dropped \subseteq SubQuery /\ IsFiniteSet(dropped)
    /\ unsolved \in Int
    /\ shouldQuit \in BOOLEAN
    /\ quit \in [Workers -> BOOLEAN]
    /\ result \in [Workers -> Codes]
    /\ pc \in [Workers -> Labels]
    /\ job \in [Workers -> SubQuery \cup {None}]
    /\ parts \in [Workers -> SUBSET SubQuery]
    /\ manager \in {"wait", "done"}
    /\ timedOut \in BOOLEAN
    /\ answer \in Codes \ {"UNKNOWN"}
    /\ allocated \in Nat
    /\ \A w \in Live : job[w] \in SubQuery

\* A subquery is in one place: in the queue, held by one worker, among the
\* parts one worker has to push, or given up; a new one is none of these
Places ==
    /\ queue \cap dropped = {}
    /\ \A w \in Live : job[w] \notin queue \cup dropped
    /\ \A w \in Workers : parts[w] \cap (queue \cup dropped) = {}
    /\ \A w \in Live, v \in Workers : job[w] \notin parts[v]
    /\ \A w, v \in Live : w # v => job[w] # job[v]
    /\ \A w, v \in Workers : w # v => parts[w] \cap parts[v] = {}
    /\ \A w \in Workers : pc[w] \notin {"push", "count"} => parts[w] = {}
    /\ \A q \in queue \cup dropped : q.id <= allocated
    /\ \A w \in Live : job[w].id <= allocated
    /\ \A w \in Workers : \A q \in parts[w] : q.id <= allocated

\* SAT is answered for a region with a solution, and whoever answered it does
\* not answer again
SatKept ==
    \A w \in Workers : result[w] = "SAT" =>
        /\ solutions # {}
        /\ pc[w] = "judge" \/ (shouldQuit /\ pc[w] \in {"stop", "loop", "gone"})

\* UNSAT is answered for a region without a solution
UnsatRight ==
    \A w \in Workers : pc[w] = "judge" /\ result[w] = "UNSAT"
                            => job[w].region \cap solutions = {}

\* The inductive invariant: where the subqueries are, what they cover, and what
\* follows from both
Base == TypeInv /\ Places /\ CounterExact
Sem == SatKept /\ UnsatRight /\ SolutionsCovered
Inv == Base /\ Sem /\ AnswerSound
-----------------------------------------------------------------------------
(***************************************************************************)
(* Divisions.                                                              *)
(***************************************************************************)
\* The parts of a region are new subqueries that cover it
LEMMA DivisionFacts ==
    ASSUME NEW region \in SUBSET Points, NEW n \in Nat, NEW k \in Nat, NEW depth \in Nat,
           NEW limited \in BOOLEAN, NEW d \in Divisions(region, n, k, depth, limited)
    PROVE  /\ d \subseteq SubQuery
           /\ IsFiniteSet(d)
           /\ Cardinality(d) \in Nat
           /\ \A q \in d : k < q.id /\ q.id <= k + Cardinality(d)
           /\ Covered(d) = region
<1>1. PICK m \in 1 .. n :
        \E r \in [1 .. m -> SUBSET region] :
            /\ UNION {r[i] : i \in 1 .. m} = region
            /\ d = {[id |-> k + i, region |-> r[i], depth |-> depth, limited |-> limited] :
                        i \in 1 .. m}
  BY DEF Divisions
<1>0. PICK r \in [1 .. m -> SUBSET region] :
        /\ UNION {r[i] : i \in 1 .. m} = region
        /\ d = {[id |-> k + i, region |-> r[i], depth |-> depth, limited |-> limited] :
                    i \in 1 .. m}
  BY <1>1
<1> DEFINE part(i) == [id |-> k + i, region |-> r[i], depth |-> depth, limited |-> limited]
           f == [i \in 1 .. m |-> part(i)]
<1>2. m \in Nat /\ \A i \in 1 .. m : i \in Nat
  OBVIOUS
<1>3. d = {part(i) : i \in 1 .. m}
  BY <1>0
<1>4. \A i \in 1 .. m : /\ part(i) \in SubQuery
                        /\ part(i).id = k + i
                        /\ part(i).region = r[i]
  BY <1>2 DEF SubQuery
<1> HIDE DEF part
<1>5. f \in Bijection(1 .. m, d)
  <2>1. f \in [1 .. m -> d]
    BY <1>3
  <2>2. \A i, j \in 1 .. m : f[i] = f[j] => i = j
    BY <1>2, <1>4
  <2>3. \A t \in d : \E i \in 1 .. m : f[i] = t
    BY <1>3
  <2>4. QED
    BY <2>1, <2>2, <2>3, Fun_IsBij
<1>6. ExistsBijection(1 .. m, d)
  BY <1>5 DEF ExistsBijection
<1>7. IsFiniteSet(1 .. m) /\ Cardinality(1 .. m) = m
  BY <1>2, FS_Interval
<1>8. IsFiniteSet(d) /\ Cardinality(d) = m
  BY <1>6, <1>7, FS_Bijection
<1>9. \A q \in d : q \in SubQuery /\ k < q.id /\ q.id <= k + m
  <2> TAKE q \in d
  <2>1. PICK i \in 1 .. m : q = part(i)
    BY <1>3
  <2>2. QED
    BY <1>2, <1>4, <2>1
<1>10. Covered(d) = region
  <2>1. {q.region : q \in d} = {r[i] : i \in 1 .. m}
    BY <1>3, <1>4
  <2>2. QED
    BY <1>0, <2>1 DEF Covered
<1>11. QED
  BY <1>2, <1>8, <1>9, <1>10
-----------------------------------------------------------------------------
(***************************************************************************)
(* The counter.                                                            *)
(***************************************************************************)
HoldingLabels == {"solve", "judge", "push", "count", "stop"}

\* What a worker at a label adds to the counter
Weight(l) == (IF l \in HoldingLabels THEN 1 ELSE 0) - (IF l = "count" THEN 1 ELSE 0)

\* The counter is the number of subqueries
LEMMA Counters ==
    ASSUME TypeInv
    PROVE  /\ IsFiniteSet(Holding) /\ IsFiniteSet(Counting)
           /\ Cardinality(Holding) \in Nat /\ Cardinality(Counting) \in Nat
           /\ Cardinality(queue) \in Nat /\ Cardinality(dropped) \in Nat
           /\ Cardinality(Counting) <= Cardinality(Holding)
<1>1. Holding \in SUBSET Workers /\ Counting \in SUBSET Holding
  BY DEF Holding, Counting
<1>2. IsFiniteSet(Holding)
  BY <1>1, WorkersAreFinite, FS_Subset
<1>3. IsFiniteSet(Counting) /\ Cardinality(Counting) <= Cardinality(Holding)
  BY <1>1, <1>2, FS_Subset
<1>4. QED
  BY <1>2, <1>3, FS_CardinalityType DEF TypeInv

\* A worker that moves changes the number of those who hold a counted subquery
LEMMA MoveWeight ==
    ASSUME TypeInv, NEW w \in Workers, NEW l \in Labels, Goto(w, l)
    PROVE  /\ Cardinality(Holding') \in Nat /\ Cardinality(Counting') \in Nat
           /\ Cardinality(Holding') - Cardinality(Counting') =
                Cardinality(Holding) - Cardinality(Counting) + Weight(l) - Weight(pc[w])
<1>1. \A v \in Workers : pc'[v] = IF v = w THEN l ELSE pc[v]
  BY DEF TypeInv, Goto
<1>2. /\ Holding' = IF l \in HoldingLabels THEN Holding \cup {w} ELSE Holding \ {w}
      /\ w \in Holding <=> pc[w] \in HoldingLabels
  BY <1>1 DEF Holding, HoldingLabels
<1>3. /\ Counting' = IF l = "count" THEN Counting \cup {w} ELSE Counting \ {w}
      /\ w \in Counting <=> pc[w] = "count"
  BY <1>1 DEF Counting
<1>4. /\ IsFiniteSet(Holding) /\ IsFiniteSet(Counting)
      /\ Cardinality(Holding) \in Nat /\ Cardinality(Counting) \in Nat
  BY Counters
<1>5. /\ Cardinality(Holding \cup {w}) =
            IF w \in Holding THEN Cardinality(Holding) ELSE Cardinality(Holding) + 1
      /\ Cardinality(Holding \ {w}) =
            IF w \in Holding THEN Cardinality(Holding) - 1 ELSE Cardinality(Holding)
      /\ IsFiniteSet(Holding \cup {w}) /\ IsFiniteSet(Holding \ {w})
  BY <1>4, FS_AddElement, FS_RemoveElement
<1>6. /\ Cardinality(Counting \cup {w}) =
            IF w \in Counting THEN Cardinality(Counting) ELSE Cardinality(Counting) + 1
      /\ Cardinality(Counting \ {w}) =
            IF w \in Counting THEN Cardinality(Counting) - 1 ELSE Cardinality(Counting)
      /\ IsFiniteSet(Counting \cup {w}) /\ IsFiniteSet(Counting \ {w})
  BY <1>4, FS_AddElement, FS_RemoveElement
<1>7. Cardinality(Holding') \in Nat /\ Cardinality(Counting') \in Nat
  BY <1>2, <1>3, <1>5, <1>6, FS_CardinalityType
<1>8. Cardinality(Holding') = Cardinality(Holding)
            + (IF l \in HoldingLabels THEN 1 ELSE 0) - (IF pc[w] \in HoldingLabels THEN 1 ELSE 0)
  BY <1>2, <1>4, <1>5
<1>9. Cardinality(Counting') = Cardinality(Counting)
            + (IF l = "count" THEN 1 ELSE 0) - (IF pc[w] = "count" THEN 1 ELSE 0)
  BY <1>3, <1>4, <1>6
<1>10. QED
  BY <1>4, <1>7, <1>8, <1>9 DEF Weight

\* The counter stays exact if it follows the moves
LEMMA CounterKept ==
    ASSUME TypeInv, CounterExact, NEW w \in Workers, NEW l \in Labels, Goto(w, l),
           NEW a \in Int, NEW b \in Int,
           Cardinality(queue') = Cardinality(queue) + a,
           Cardinality(dropped') = Cardinality(dropped) + b,
           unsolved' = unsolved + a + b + Weight(l) - Weight(pc[w])
    PROVE  CounterExact'
<1>1. /\ Cardinality(Holding) \in Nat /\ Cardinality(Counting) \in Nat
      /\ Cardinality(queue) \in Nat /\ Cardinality(dropped) \in Nat
  BY Counters
<1>2. /\ Cardinality(Holding') \in Nat /\ Cardinality(Counting') \in Nat
      /\ Cardinality(Holding') - Cardinality(Counting') =
            Cardinality(Holding) - Cardinality(Counting) + Weight(l) - Weight(pc[w])
  BY MoveWeight
<1>3. Weight(l) \in Int /\ Weight(pc[w]) \in Int /\ unsolved \in Int
  BY DEF Weight, TypeInv
<1>4. unsolved = Cardinality(queue) + Cardinality(Holding) + Cardinality(dropped)
                    - Cardinality(Counting)
  BY DEF CounterExact
<1>5. unsolved' = Cardinality(queue') + Cardinality(Holding') + Cardinality(dropped')
                    - Cardinality(Counting')
  BY <1>1, <1>2, <1>3, <1>4
<1>6. QED
  BY <1>5 DEF CounterExact
-----------------------------------------------------------------------------
(***************************************************************************)
(* The places of the subqueries.                                           *)
(***************************************************************************)
\* A step of a worker that moves no subquery, except to delete its own
LEMMA PlacesKept ==
    ASSUME TypeInv, Places, NEW w \in Workers, NEW l \in Labels, Goto(w, l),
           UNCHANGED <<queue, dropped, parts, allocated>>,
           l \in LiveLabels => pc[w] \in LiveLabels /\ job' = job,
           \A v \in Workers : v # w => job'[v] = job[v],
           l \notin {"push", "count"} => parts[w] = {}
    PROVE  Places'
<1>1. \A v \in Workers : pc'[v] = IF v = w THEN l ELSE pc[v]
  BY DEF TypeInv, Goto
<1>2. /\ Live' \subseteq Live
      /\ \A v \in Live' : job'[v] = job[v]
  BY <1>1 DEF Live
<1>3. \A v \in Workers : pc'[v] \notin {"push", "count"} => parts[v] = {}
  BY <1>1 DEF Places
<1>4. QED
  BY <1>2, <1>3 DEF Places

\* What is in one place only
LEMMA LiveTypes ==
    ASSUME TypeInv, Places, NEW w \in Workers, pc[w] \in LiveLabels
    PROVE  /\ w \in Live
           /\ job[w] \in SubQuery /\ job[w].region \in SUBSET Points
           /\ job[w].depth \in Nat /\ job[w].limited \in BOOLEAN
           /\ job[w] \notin queue /\ job[w] \notin dropped
           /\ job[w].id <= allocated
<1>1. w \in Live
  BY DEF Live
<1>2. job[w] \in SubQuery
  BY <1>1 DEF TypeInv
<1>3. QED
  BY <1>1, <1>2 DEF Places, SubQuery

\* The steps of a worker that only move it, or that delete its subquery
LEMMA QuietStep ==
    ASSUME Base, NEW w \in Workers, NEW l \in Labels, Goto(w, l),
           UNCHANGED <<solutions, queue, dropped, parts, allocated, quit, managerState>>,
           shouldQuit' \in BOOLEAN, result' \in [Workers -> Codes],
           job' = job \/ job' = [job EXCEPT ![w] = None],
           l \in LiveLabels => pc[w] \in LiveLabels /\ job' = job,
           l \notin {"push", "count"} => parts[w] = {},
           unsolved' = unsolved + Weight(l) - Weight(pc[w])
    PROVE  Base'
<1>1. /\ \A v \in Workers : v # w => job'[v] = job[v]
      /\ job' \in [Workers -> SubQuery \cup {None}]
      /\ pc' \in [Workers -> Labels]
      /\ \A v \in Workers : pc'[v] = IF v = w THEN l ELSE pc[v]
  BY DEF Base, TypeInv, Goto
<1>2. Weight(l) \in Int /\ Weight(pc[w]) \in Int
  BY DEF Weight
<1>3. \A v \in Live' : v \in Live /\ job'[v] = job[v]
  BY <1>1 DEF Live
<1>4. TypeInv'
  BY <1>1, <1>2, <1>3 DEF Base, TypeInv, managerState
<1>5. Places'
  BY <1>1, PlacesKept DEF Base
<1>6. CounterExact'
  <2>1. /\ Cardinality(queue) \in Nat /\ Cardinality(dropped) \in Nat
        /\ unsolved \in Int
    BY Counters DEF Base, TypeInv
  <2>2. /\ Cardinality(queue') = Cardinality(queue) + 0
        /\ Cardinality(dropped') = Cardinality(dropped) + 0
        /\ unsolved' = unsolved + 0 + 0 + Weight(l) - Weight(pc[w])
    BY <1>2, <2>1
  <2>3. QED
    BY <2>2, CounterKept DEF Base
<1>7. QED
  BY <1>4, <1>5, <1>6 DEF Base

\* ... of which these are
LEMMA QuietSteps ==
    ASSUME Base, NEW w \in Workers,
           \/ Loop(w) \/ PopEmpty(w) \/ Solve(w) \/ Refuted(w) \/ Check(w)
           \/ Count(w) \/ Divided(w) \/ Stop(w)
           \/ Stopped(w) /\ result[w] = "SAT"
    PROVE  Base'
<1> USE DEF Base
<1>1. /\ shouldQuit \in BOOLEAN /\ result \in [Workers -> Codes] /\ unsolved \in Int
      /\ pc[w] \notin {"push", "count"} => parts[w] = {}
  BY DEF TypeInv, Places
<1>2. CASE Loop(w)
  <2>1. PICK l \in {"gone", "pop"} : Goto(w, l)
    BY <1>2 DEF Loop
  <2>2. /\ pc[w] = "loop" /\ UNCHANGED <<solutions, work, engine, job, parts, managerState, allocated, dropped>>
    BY <1>2 DEF Loop
  <2>3. l \in Labels /\ l \notin LiveLabels /\ Weight(l) = 0 /\ Weight(pc[w]) = 0
    BY <2>1, <2>2 DEF Labels, LiveLabels, Weight, HoldingLabels
  <2>4. QED
    BY <1>1, <2>1, <2>2, <2>3, QuietStep DEF work, engine, LiveLabels
<1>3. CASE PopEmpty(w)
  <2>1. "loop" \in Labels /\ "loop" \notin LiveLabels /\ Weight("loop") = 0 /\ Weight("pop") = 0
    BY DEF Labels, LiveLabels, Weight, HoldingLabels
  <2>2. QED
    BY <1>1, <1>3, <2>1, QuietStep DEF PopEmpty, work, engine
<1>4. CASE Solve(w)
  <2>1. "judge" \in Labels /\ Weight("judge") = 1 /\ Weight("solve") = 1 /\ "solve" \in LiveLabels
    BY DEF Labels, LiveLabels, Weight, HoldingLabels
  <2>2. PICK code \in Answers(w) : result' = [result EXCEPT ![w] = code]
    BY <1>4 DEF Solve
  <2>3. code \in Codes
    BY FailuresOfEngine DEF Answers, Codes
  <2>4. result' \in [Workers -> Codes]
    BY <1>1, <2>2, <2>3
  <2>5. QED
    BY <1>1, <1>4, <2>1, <2>4, QuietStep DEF Solve, work
<1>5. CASE Refuted(w)
  <2>1. "check" \in Labels /\ Weight("judge") = 1 /\ Weight("check") = 0 /\ "judge" \in LiveLabels
    BY DEF Labels, LiveLabels, Weight, HoldingLabels
  <2>2. QED
    BY <1>1, <1>5, <2>1, QuietStep DEF Refuted, engine
<1>6. CASE Check(w)
  <2>1. "loop" \in Labels /\ "loop" \notin LiveLabels /\ Weight("loop") = 0 /\ Weight("check") = 0
    BY DEF Labels, LiveLabels, Weight, HoldingLabels
  <2>2. (shouldQuit \/ unsolved = 0) \in BOOLEAN
    OBVIOUS
  <2>3. /\ Goto(w, "loop") /\ job' = [job EXCEPT ![w] = None]
        /\ UNCHANGED <<solutions, queue, dropped, parts, allocated, quit, managerState>>
        /\ shouldQuit' \in BOOLEAN /\ result' = result
        /\ parts[w] = {}
        /\ unsolved' = unsolved + Weight("loop") - Weight(pc[w])
    BY <1>1, <1>6, <2>1, <2>2 DEF Check, Delete, engine
  <2>4. QED
    BY <1>1, <2>1, <2>2, <2>3, QuietStep
<1>7. CASE Count(w)
  <2>1. "push" \in Labels /\ Weight("push") = 1 /\ Weight("count") = 0 /\ "count" \in LiveLabels
    BY DEF Labels, LiveLabels, Weight, HoldingLabels
  <2>2. QED
    BY <1>1, <1>7, <2>1, QuietStep DEF Count, engine
<1>8. CASE Divided(w)
  <2>1. "loop" \in Labels /\ "loop" \notin LiveLabels /\ Weight("loop") = 0 /\ Weight("push") = 1
    BY DEF Labels, LiveLabels, Weight, HoldingLabels
  <2>2. /\ Goto(w, "loop") /\ job' = [job EXCEPT ![w] = None]
        /\ UNCHANGED <<solutions, queue, dropped, parts, allocated, quit, managerState>>
        /\ shouldQuit' = shouldQuit /\ result' = result
        /\ parts[w] = {}
        /\ unsolved' = unsolved + Weight("loop") - Weight(pc[w])
    BY <1>1, <1>8, <2>1 DEF Divided, Delete, engine
  <2>3. QED
    BY <1>1, <2>1, <2>2, QuietStep
<1>9. CASE Stop(w)
  <2>1. "stop" \in Labels /\ Weight("stop") = 1 /\ Weight("judge") = 1 /\ "judge" \in LiveLabels
    BY DEF Labels, LiveLabels, Weight, HoldingLabels
  <2>2. QED
    BY <1>1, <1>9, <2>1, QuietStep DEF Stop, engine
<1>10. CASE Stopped(w) /\ result[w] = "SAT"
  <2>1. "loop" \in Labels /\ "loop" \notin LiveLabels /\ Weight("loop") = 0 /\ Weight("stop") = 1
    BY DEF Labels, LiveLabels, Weight, HoldingLabels
  <2>2. /\ Goto(w, "loop") /\ job' = [job EXCEPT ![w] = None]
        /\ UNCHANGED <<solutions, queue, dropped, parts, allocated, quit, managerState>>
        /\ shouldQuit' = shouldQuit /\ result' = result
        /\ parts[w] = {}
        /\ unsolved' = unsolved + Weight("loop") - Weight(pc[w])
    BY <1>1, <1>10, <2>1 DEF Stopped, Delete, engine
  <2>3. QED
    BY <1>1, <2>1, <2>2, QuietStep
<1>11. QED
  BY <1>2, <1>3, <1>4, <1>5, <1>6, <1>7, <1>8, <1>9, <1>10

\* A subquery that is given up is no longer held, and it is not lost
LEMMA GiveUpStep ==
    ASSUME Base, NEW w \in Workers,
           \/ Abandon(w)
           \/ Stopped(w) /\ result[w] # "SAT"
    PROVE  Base'
<1> USE DEF Base
<1>1. /\ pc[w] \in {"judge", "stop"} /\ Goto(w, "loop") /\ job' = [job EXCEPT ![w] = None]
      /\ dropped' = dropped \cup {job[w]}
      /\ UNCHANGED <<solutions, queue, unsolved, shouldQuit, parts, allocated, quit, result,
                     managerState>>
  BY DEF Abandon, Stopped, Delete, work, engine
<1>2. /\ "loop" \in Labels /\ "loop" \notin LiveLabels /\ Weight("loop") = 0
      /\ Weight(pc[w]) = 1 /\ pc[w] \in LiveLabels
  BY <1>1 DEF Labels, LiveLabels, Weight, HoldingLabels
<1>3. /\ w \in Live /\ job[w] \in SubQuery /\ job[w] \notin queue /\ job[w] \notin dropped
      /\ job[w].id <= allocated
  BY <1>2, LiveTypes
<1>4. /\ \A v \in Workers : pc'[v] = IF v = w THEN "loop" ELSE pc[v]
      /\ \A v \in Workers : v # w => job'[v] = job[v]
      /\ pc' \in [Workers -> Labels] /\ job' \in [Workers -> SubQuery \cup {None}]
  BY <1>1, <1>2 DEF TypeInv, Goto
<1>5. \A v \in Live' : v \in Live /\ v # w /\ job'[v] = job[v]
  BY <1>2, <1>4 DEF Live
<1>6. /\ IsFiniteSet(dropped') /\ dropped' \subseteq SubQuery
      /\ Cardinality(dropped') = Cardinality(dropped) + 1
  BY <1>1, <1>3, FS_AddElement DEF TypeInv
<1>7. TypeInv'
  BY <1>1, <1>4, <1>5, <1>6 DEF TypeInv, managerState
<1>8. Places'
  <2>1. /\ queue' \cap dropped' = {}
        /\ \A v \in Live' : job'[v] \notin queue' \cup dropped'
        /\ \A v \in Workers : parts'[v] \cap (queue' \cup dropped') = {}
    BY <1>1, <1>3, <1>5 DEF Places
  <2>2. /\ \A v \in Live', u \in Workers : job'[v] \notin parts'[u]
        /\ \A u, v \in Live' : u # v => job'[u] # job'[v]
        /\ \A u, v \in Workers : u # v => parts'[u] \cap parts'[v] = {}
    BY <1>1, <1>5 DEF Places
  <2>3. \A v \in Workers : pc'[v] \notin {"push", "count"} => parts'[v] = {}
    BY <1>1, <1>4 DEF Places
  <2>4. /\ \A q \in queue' \cup dropped' : q.id <= allocated'
        /\ \A v \in Live' : job'[v].id <= allocated'
        /\ \A v \in Workers : \A q \in parts'[v] : q.id <= allocated'
    BY <1>1, <1>3, <1>5 DEF Places
  <2>5. QED
    BY <2>1, <2>2, <2>3, <2>4 DEF Places
<1>9. CounterExact'
  <2>1. /\ Cardinality(queue) \in Nat /\ Cardinality(dropped) \in Nat /\ unsolved \in Int
    BY Counters DEF TypeInv
  <2>2. /\ Cardinality(queue') = Cardinality(queue) + 0
        /\ unsolved' = unsolved + 0 + 1 + Weight("loop") - Weight(pc[w])
    BY <1>1, <1>2, <2>1
  <2>3. Goto(w, "loop") /\ "loop" \in Labels
    BY <1>1, <1>2
  <2>4. QED
    BY <1>6, <2>2, <2>3, CounterKept
<1>10. QED
  BY <1>7, <1>8, <1>9

\* A subquery that is popped is held by the worker that popped it
LEMMA PopStep ==
    ASSUME Base, NEW w \in Workers, Pop(w)
    PROVE  Base'
<1> USE DEF Base
<1>1. PICK q \in queue : queue' = queue \ {q} /\ job' = [job EXCEPT ![w] = q]
  BY DEF Pop
<1>2. /\ pc[w] = "pop" /\ Goto(w, "solve") /\ result' = [result EXCEPT ![w] = "NOT_DONE"]
      /\ UNCHANGED <<solutions, dropped, unsolved, shouldQuit, parts, allocated, quit,
                     managerState>>
  BY DEF Pop
<1>3. /\ "solve" \in Labels /\ Weight("solve") = 1 /\ Weight("pop") = 0
      /\ "pop" \notin LiveLabels /\ "NOT_DONE" \in Codes
  BY DEF Labels, LiveLabels, Weight, HoldingLabels, Codes
<1>4. q \in SubQuery /\ q.id <= allocated
  BY <1>1 DEF TypeInv, Places
<1>5. /\ \A v \in Workers : pc'[v] = IF v = w THEN "solve" ELSE pc[v]
      /\ \A v \in Workers : job'[v] = IF v = w THEN q ELSE job[v]
      /\ pc' \in [Workers -> Labels] /\ job' \in [Workers -> SubQuery \cup {None}]
      /\ result' \in [Workers -> Codes]
  BY <1>1, <1>2, <1>3, <1>4 DEF TypeInv, Goto
<1>6. \A v \in Live' : IF v = w THEN job'[v] = q ELSE v \in Live /\ job'[v] = job[v]
  <2>1. \A v \in Live' : v \in Workers /\ pc'[v] \in LiveLabels
    BY DEF Live
  <2>2. \A v \in Workers : pc[v] \in LiveLabels => v \in Live
    BY DEF Live
  <2>3. QED
    BY <1>5, <2>1, <2>2
<1>7. /\ IsFiniteSet(queue') /\ queue' \subseteq queue
      /\ Cardinality(queue') = Cardinality(queue) - 1
  BY <1>1, FS_RemoveElement DEF TypeInv
<1>8. TypeInv'
  BY <1>2, <1>4, <1>5, <1>6, <1>7 DEF TypeInv, managerState
<1>9. Places'
  <2>1. /\ queue' \cap dropped' = {}
        /\ \A v \in Live' : job'[v] \notin queue' \cup dropped'
        /\ \A v \in Workers : parts'[v] \cap (queue' \cup dropped') = {}
    BY <1>1, <1>2, <1>6 DEF Places
  <2>2. /\ \A v \in Live', u \in Workers : job'[v] \notin parts'[u]
        /\ \A u, v \in Live' : u # v => job'[u] # job'[v]
        /\ \A u, v \in Workers : u # v => parts'[u] \cap parts'[v] = {}
    BY <1>1, <1>2, <1>6 DEF Places
  <2>3. \A v \in Workers : pc'[v] \notin {"push", "count"} => parts'[v] = {}
    BY <1>2, <1>5 DEF Places
  <2>4. /\ \A p \in queue' \cup dropped' : p.id <= allocated'
        /\ \A v \in Live' : job'[v].id <= allocated'
        /\ \A v \in Workers : \A p \in parts'[v] : p.id <= allocated'
    BY <1>2, <1>4, <1>6, <1>7 DEF Places
  <2>5. QED
    BY <2>1, <2>2, <2>3, <2>4 DEF Places
<1>10. CounterExact'
  <2>1. /\ Cardinality(queue) \in Nat /\ Cardinality(dropped) \in Nat /\ unsolved \in Int
    BY Counters DEF TypeInv
  <2>2. /\ Cardinality(queue') = Cardinality(queue) + (-1)
        /\ Cardinality(dropped') = Cardinality(dropped) + 0
        /\ unsolved' = unsolved + (-1) + 0 + Weight("solve") - Weight(pc[w])
    BY <1>2, <1>3, <1>7, <2>1
  <2>3. QED
    BY <1>2, <1>3, <2>2, CounterKept
<1>11. QED
  BY <1>8, <1>9, <1>10

\* What the division of a subquery that timed out makes
LEMMA DivideFacts ==
    ASSUME TypeInv, Places, NEW w \in Workers, Divide(w)
    PROVE  /\ parts' = [parts EXCEPT ![w] = parts'[w]]
           /\ parts'[w] \subseteq SubQuery
           /\ Cardinality(parts'[w]) \in Nat
           /\ allocated' = allocated + Cardinality(parts'[w])
           /\ \A q \in parts'[w] : allocated < q.id /\ q.id <= allocated'
           /\ Covered(parts'[w]) = job[w].region
<1>1. pc[w] \in LiveLabels
  BY DEF Divide, LiveLabels
<1>2. /\ job[w].region \in SUBSET Points /\ job[w].depth + 1 \in Nat
      /\ (job[w].depth < DepthThreshold - 1) \in BOOLEAN
  BY <1>1, LiveTypes
<1>3. allocated \in Nat /\ OnlineParts \in Nat
  BY PartsArePositive DEF TypeInv
<1>4. PICK d \in Divisions(job[w].region, OnlineParts, allocated, job[w].depth + 1,
                           job[w].depth < DepthThreshold - 1) :
          parts' = [parts EXCEPT ![w] = d]
  BY DEF Divide
<1>5. parts'[w] = d
  BY <1>4 DEF TypeInv
<1>6. /\ d \subseteq SubQuery /\ Cardinality(d) \in Nat /\ Covered(d) = job[w].region
      /\ \A q \in d : allocated < q.id /\ q.id <= allocated + Cardinality(d)
  <2>1. \A region \in SUBSET Points, depth \in Nat, limited \in BOOLEAN :
          \A e \in Divisions(region, OnlineParts, allocated, depth, limited) :
            /\ e \subseteq SubQuery /\ Cardinality(e) \in Nat /\ Covered(e) = region
            /\ \A q \in e : allocated < q.id /\ q.id <= allocated + Cardinality(e)
    BY <1>3, DivisionFacts
  <2>2. QED
    BY <1>2, <2>1, Zenon
<1>7. allocated' = allocated + Cardinality(parts'[w])
  BY DEF Divide
<1>8. QED
  BY <1>4, <1>5, <1>6, <1>7

\* The parts are new
LEMMA DivideStep ==
    ASSUME Base, NEW w \in Workers, Divide(w)
    PROVE  Base'
<1> USE DEF Base
<1>1. /\ pc[w] = "judge" /\ Goto(w, "push")
      /\ UNCHANGED <<solutions, queue, dropped, unsolved, shouldQuit, job, quit, result,
                     managerState>>
  BY DEF Divide, work, engine
<1>2. /\ "push" \in Labels /\ Weight("push") = 1 /\ Weight("judge") = 1
      /\ "judge" \in LiveLabels
  BY DEF Labels, LiveLabels, Weight, HoldingLabels
<1>3. /\ parts' = [parts EXCEPT ![w] = parts'[w]] /\ parts'[w] \subseteq SubQuery
      /\ allocated' \in Nat /\ allocated <= allocated'
      /\ \A q \in parts'[w] : allocated < q.id /\ q.id <= allocated'
  BY DivideFacts DEF TypeInv
<1>4. /\ \A v \in Workers : pc'[v] = IF v = w THEN "push" ELSE pc[v]
      /\ \A v \in Workers : v # w => parts'[v] = parts[v]
      /\ pc' \in [Workers -> Labels] /\ parts' \in [Workers -> SUBSET SubQuery]
  BY <1>1, <1>2, <1>3 DEF TypeInv, Goto
<1>5. Live' = Live
  <2>1. \A v \in Workers : pc'[v] \in LiveLabels <=> pc[v] \in LiveLabels
    BY <1>1, <1>2, <1>4 DEF LiveLabels
  <2>2. QED
    BY <2>1 DEF Live
<1>6. TypeInv'
  BY <1>1, <1>3, <1>4, <1>5 DEF TypeInv, managerState
<1>7. Places'
  <2>0. allocated \in Nat /\ queue \subseteq SubQuery /\ dropped \subseteq SubQuery
        /\ (\A v \in Live : job[v] \in SubQuery)
        /\ (\A v \in Workers : parts[v] \subseteq SubQuery)
        /\ (\A q \in SubQuery : q.id \in Nat)
    BY DEF TypeInv, SubQuery
  <2>1. \A q \in SubQuery : q.id <= allocated => q \notin parts'[w]
    BY <1>3, <2>0
  <2>2. \A q \in queue \cup dropped : q \notin parts'[w] /\ q.id <= allocated'
    BY <1>3, <2>0, <2>1 DEF Places
  <2>3. \A v \in Live : job[v] \notin parts'[w] /\ job[v].id <= allocated'
    BY <1>3, <2>0, <2>1 DEF Places
  <2>4. \A v \in Workers : \A q \in parts[v] : q \notin parts'[w] /\ q.id <= allocated'
    <3> TAKE v \in Workers
    <3> TAKE q \in parts[v]
    <3>1. q \in SubQuery /\ q.id <= allocated /\ q.id \in Nat
      BY <2>0 DEF Places
    <3>2. QED
      BY <1>3, <2>0, <2>1, <3>1
  <2>5. /\ queue' \cap dropped' = {}
        /\ \A v \in Live' : job'[v] \notin queue' \cup dropped'
        /\ \A v \in Workers : parts'[v] \cap (queue' \cup dropped') = {}
    BY <1>1, <1>4, <1>5, <2>2 DEF Places
  <2>6. /\ \A v \in Live', u \in Workers : job'[v] \notin parts'[u]
        /\ \A u, v \in Live' : u # v => job'[u] # job'[v]
    BY <1>1, <1>4, <1>5, <2>3 DEF Places
  <2>7. \A u, v \in Workers : u # v => parts'[u] \cap parts'[v] = {}
    BY <1>4, <2>4 DEF Places
  <2>8. \A v \in Workers : pc'[v] \notin {"push", "count"} => parts'[v] = {}
    BY <1>4 DEF Places
  <2>9. /\ \A q \in queue' \cup dropped' : q.id <= allocated'
        /\ \A v \in Live' : job'[v].id <= allocated'
        /\ \A v \in Workers : \A q \in parts'[v] : q.id <= allocated'
    BY <1>1, <1>3, <1>4, <1>5, <2>2, <2>3, <2>4
  <2>10. QED
    BY <2>5, <2>6, <2>7, <2>8, <2>9 DEF Places
<1>8. CounterExact'
  <2>1. /\ Cardinality(queue) \in Nat /\ Cardinality(dropped) \in Nat /\ unsolved \in Int
    BY Counters DEF TypeInv
  <2>2. /\ Cardinality(queue') = Cardinality(queue) + 0
        /\ Cardinality(dropped') = Cardinality(dropped) + 0
        /\ unsolved' = unsolved + 0 + 0 + Weight("push") - Weight(pc[w])
    BY <1>1, <1>2, <2>1
  <2>3. Goto(w, "push") /\ "push" \in Labels
    BY <1>1, <1>2
  <2>4. QED
    BY <2>2, <2>3, CounterKept
<1>9. QED
  BY <1>6, <1>7, <1>8

\* A part that is pushed is no longer among those to push
LEMMA PushStep ==
    ASSUME Base, NEW w \in Workers, Push(w)
    PROVE  Base'
<1> USE DEF Base
<1>1. PICK q \in parts[w] : /\ queue' = queue \cup {q}
                            /\ parts' = [parts EXCEPT ![w] = @ \ {q}]
  BY DEF Push
<1>2. /\ pc[w] = "push" /\ Goto(w, "count")
      /\ UNCHANGED <<solutions, dropped, unsolved, shouldQuit, job, allocated, quit, result,
                     managerState>>
  BY DEF Push, engine
<1>3. /\ "count" \in Labels /\ Weight("count") = 0 /\ Weight("push") = 1
  BY DEF Labels, Weight, HoldingLabels
<1>4. q \in SubQuery /\ q \notin queue /\ q \notin dropped /\ q.id <= allocated
  BY <1>1 DEF TypeInv, Places
<1>5. /\ \A v \in Workers : pc'[v] = IF v = w THEN "count" ELSE pc[v]
      /\ \A v \in Workers : parts'[v] = IF v = w THEN parts[w] \ {q} ELSE parts[v]
      /\ \A v \in Workers : parts'[v] \subseteq parts[v]
      /\ pc' \in [Workers -> Labels] /\ parts' \in [Workers -> SUBSET SubQuery]
  BY <1>1, <1>2, <1>3 DEF TypeInv, Goto
<1>6. Live' = Live
  <2>1. \A v \in Workers : pc'[v] \in LiveLabels <=> pc[v] \in LiveLabels
    BY <1>2, <1>5 DEF LiveLabels
  <2>2. QED
    BY <2>1 DEF Live
<1>7. /\ IsFiniteSet(queue') /\ queue' \subseteq SubQuery
      /\ Cardinality(queue') = Cardinality(queue) + 1
  BY <1>1, <1>4, FS_AddElement DEF TypeInv
<1>8. TypeInv'
  BY <1>2, <1>5, <1>6, <1>7 DEF TypeInv, managerState
<1>9. Places'
  <2>1. \A v \in Workers : q \notin parts'[v]
    BY <1>1, <1>5 DEF Places
  <2>2. \A v \in Live : job[v] # q
    BY <1>1 DEF Places
  <2>3. /\ queue' \cap dropped' = {}
        /\ \A v \in Live' : job'[v] \notin queue' \cup dropped'
        /\ \A v \in Workers : parts'[v] \cap (queue' \cup dropped') = {}
    BY <1>1, <1>2, <1>4, <1>5, <1>6, <2>1, <2>2 DEF Places
  <2>4. /\ \A v \in Live', u \in Workers : job'[v] \notin parts'[u]
        /\ \A u, v \in Live' : u # v => job'[u] # job'[v]
        /\ \A u, v \in Workers : u # v => parts'[u] \cap parts'[v] = {}
    BY <1>2, <1>5, <1>6 DEF Places
  <2>5. \A v \in Workers : pc'[v] \notin {"push", "count"} => parts'[v] = {}
    BY <1>5 DEF Places
  <2>6. /\ \A p \in queue' \cup dropped' : p.id <= allocated'
        /\ \A v \in Live' : job'[v].id <= allocated'
        /\ \A v \in Workers : \A p \in parts'[v] : p.id <= allocated'
    BY <1>1, <1>2, <1>4, <1>5, <1>6 DEF Places
  <2>7. QED
    BY <2>3, <2>4, <2>5, <2>6 DEF Places
<1>10. CounterExact'
  <2>1. /\ Cardinality(queue) \in Nat /\ Cardinality(dropped) \in Nat /\ unsolved \in Int
    BY Counters DEF TypeInv
  <2>2. /\ Cardinality(queue') = Cardinality(queue) + 1
        /\ Cardinality(dropped') = Cardinality(dropped) + 0
        /\ unsolved' = unsolved + 1 + 0 + Weight("count") - Weight(pc[w])
    BY <1>2, <1>3, <1>7, <2>1
  <2>3. Goto(w, "count") /\ "count" \in Labels
    BY <1>2, <1>3
  <2>4. QED
    BY <2>2, <2>3, CounterKept
<1>11. QED
  BY <1>8, <1>9, <1>10

\* What the manager and a signal change is not what the workers share
LEMMA ManagerStep ==
    ASSUME Base, Manager \/ Signal
    PROVE  Base'
<1> USE DEF Base
<1>1. UNCHANGED <<solutions, queue, dropped, unsolved, pc, job, parts, allocated, result>>
  BY DEF Manager, Signal, TimeUp, AskToQuit, Finish, work, engine, local
<1>2. /\ shouldQuit' \in BOOLEAN /\ quit' \in [Workers -> BOOLEAN]
      /\ manager' \in {"wait", "done"} /\ timedOut' \in BOOLEAN
      /\ answer' \in Codes \ {"UNKNOWN"}
  <2>1. CASE TimeUp
    BY <2>1 DEF TimeUp, TypeInv, engine
  <2>2. CASE Finish
    <3>1. ExitCode \in Codes \ {"UNKNOWN"}
      BY DEF ExitCode, Codes
    <3>2. QED
      BY <2>2, <3>1 DEF Finish, TypeInv, work, engine
  <2>3. CASE \E w \in Workers : AskToQuit(w)
    BY <2>3 DEF AskToQuit, TypeInv, work, managerState
  <2>4. CASE Signal
    BY <2>4 DEF Signal, TypeInv, work, managerState
  <2>5. QED
    BY <2>1, <2>2, <2>3, <2>4 DEF Manager
<1>3. Live' = Live /\ Holding' = Holding /\ Counting' = Counting
  BY <1>1 DEF Live, Holding, Counting
<1>4. TypeInv'
  BY <1>1, <1>2, <1>3 DEF TypeInv
<1>5. Places'
  BY <1>1, <1>3 DEF Places
<1>6. CounterExact'
  BY <1>1, <1>3 DEF CounterExact
<1>7. QED
  BY <1>4, <1>5, <1>6

\* Every step keeps every subquery in its place and the counter exact
LEMMA BaseStep ==
    ASSUME Base, [Next]_vars
    PROVE  Base'
<1>1. CASE Manager \/ Signal
  BY <1>1, ManagerStep
<1>2. ASSUME NEW w \in Workers, Worker(w)
      PROVE  Base'
  <2>1. CASE \/ Loop(w) \/ PopEmpty(w) \/ Solve(w) \/ Refuted(w) \/ Check(w)
             \/ Count(w) \/ Divided(w) \/ Stop(w)
             \/ Stopped(w) /\ result[w] = "SAT"
    BY <2>1, QuietSteps
  <2>2. CASE \/ Abandon(w)
             \/ Stopped(w) /\ result[w] # "SAT"
    BY <2>2, GiveUpStep
  <2>3. CASE Pop(w)
    BY <2>3, PopStep
  <2>4. CASE Divide(w)
    BY <2>4, DivideStep
  <2>5. CASE Push(w)
    BY <2>5, PushStep
  <2>6. QED
    BY <1>2, <2>1, <2>2, <2>3, <2>4, <2>5 DEF Worker
<1>3. CASE UNCHANGED vars
  <2>1. /\ UNCHANGED <<solutions, queue, dropped, unsolved, shouldQuit, quit, result, pc, job,
                       parts, manager, timedOut, answer, allocated>>
    BY <1>3 DEF vars, work, engine, local, managerState
  <2>2. Live' = Live /\ Holding' = Holding /\ Counting' = Counting
    BY <2>1 DEF Live, Holding, Counting
  <2>3. TypeInv'
    BY <2>1, <2>2 DEF Base, TypeInv
  <2>4. Places'
    BY <2>1, <2>2 DEF Base, Places
  <2>5. CounterExact'
    BY <2>1, <2>2 DEF Base, CounterExact
  <2>6. QED
    BY <2>3, <2>4, <2>5 DEF Base
<1>4. QED
  BY <1>1, <1>2, <1>3 DEF Next

\* What the initial division leaves
LEMMA InitFacts ==
    ASSUME Init
    PROVE  /\ queue \subseteq SubQuery /\ IsFiniteSet(queue) /\ Cardinality(queue) \in Nat
           /\ \A q \in queue : q.id <= Cardinality(queue)
           /\ Covered(queue) = Points
<1>1. InitialParts \in Nat /\ 0 \in Nat /\ 1 \in Nat /\ Points \in SUBSET Points
  BY PartsArePositive
<1>2. queue \in Divisions(Points, InitialParts, 0, 1, TRUE)
  BY DEF Init
<1>3. TRUE \in BOOLEAN
  OBVIOUS
<1>4. \A region \in SUBSET Points, limited \in BOOLEAN :
          \A e \in Divisions(region, InitialParts, 0, 1, limited) :
            /\ e \subseteq SubQuery /\ IsFiniteSet(e) /\ Cardinality(e) \in Nat
            /\ Covered(e) = region
            /\ \A q \in e : q.id <= 0 + Cardinality(e)
  BY <1>1, DivisionFacts
<1>5. /\ queue \subseteq SubQuery /\ IsFiniteSet(queue) /\ Cardinality(queue) \in Nat
      /\ Covered(queue) = Points
      /\ \A q \in queue : q.id <= 0 + Cardinality(queue)
  BY <1>1, <1>2, <1>3, <1>4, Zenon
<1>6. QED
  BY <1>5

\* ... from the initial division on
LEMMA BaseInit ==
    ASSUME Init
    PROVE  Base
<1>1. Live = {} /\ Holding = {} /\ Counting = {}
  BY DEF Init, Live, LiveLabels, Holding, Counting
<1>2. IsFiniteSet({}) /\ Cardinality({}) = 0
  BY FS_EmptySet
<1>3. TypeInv
  <2>1. /\ solutions \subseteq Points /\ shouldQuit \in BOOLEAN /\ timedOut \in BOOLEAN
        /\ quit \in [Workers -> BOOLEAN] /\ result \in [Workers -> Codes]
        /\ pc \in [Workers -> Labels] /\ job \in [Workers -> SubQuery \cup {None}]
        /\ parts \in [Workers -> SUBSET SubQuery]
        /\ manager \in {"wait", "done"} /\ answer \in Codes \ {"UNKNOWN"}
    BY DEF Init, Codes, Labels
  <2>2. /\ queue \subseteq SubQuery /\ IsFiniteSet(queue) /\ Cardinality(queue) \in Nat
    BY InitFacts
  <2>3. /\ dropped \subseteq SubQuery /\ IsFiniteSet(dropped)
        /\ unsolved \in Int /\ allocated \in Nat
    BY <1>2, <2>2 DEF Init
  <2>4. QED
    BY <1>1, <2>1, <2>2, <2>3 DEF TypeInv
<1>4. Places
  BY <1>1, InitFacts DEF Init, Places
<1>5. CounterExact
  <2>1. Cardinality(queue) \in Nat
    BY InitFacts
  <2>2. unsolved = Cardinality(queue) /\ dropped = {}
    BY DEF Init
  <2>3. QED
    BY <1>1, <1>2, <2>1, <2>2 DEF CounterExact
<1>6. QED
  BY <1>3, <1>4, <1>5 DEF Base
-----------------------------------------------------------------------------
(***************************************************************************)
(* The solutions.                                                          *)
(***************************************************************************)
\* What w knew of
Known(w) == queue \cup dropped \cup Mine(w)

\* A step of one worker after which every solution it knew of is still known
LEMMA SemStep ==
    ASSUME Base, Sem, NEW w \in Workers,
           \A v \in Workers : v # w =>
                pc'[v] = pc[v] /\ result'[v] = result[v] /\ job'[v] = job[v] /\ parts'[v] = parts[v],
           solutions' = solutions,
           shouldQuit => shouldQuit',
           result[w] = "SAT" => result'[w] = "SAT",
           result'[w] = "SAT" =>
                /\ solutions # {}
                /\ pc'[w] = "judge" \/ (shouldQuit' /\ pc'[w] \in {"stop", "loop", "gone"}),
           pc'[w] = "judge" /\ result'[w] = "UNSAT" => job'[w].region \cap solutions = {},
           \A q \in Known(w) : \A x \in q.region \cap solutions :
                \/ result'[w] = "SAT"
                \/ \E p \in Known(w)' : x \in p.region
    PROVE  Sem'
<1>1. SatKept'
  BY DEF Sem, SatKept
<1>2. UnsatRight'
  BY DEF Sem, UnsatRight
<1>3. SolutionsCovered'
  <2>1. CASE \E v \in Workers : result[v] = "SAT"
    <3>1. \E v \in Workers : result'[v] = "SAT"
      BY <2>1
    <3>2. QED
      BY <3>1 DEF SolutionsCovered
  <2>2. CASE result'[w] = "SAT"
    BY <2>2 DEF SolutionsCovered
  <2>3. CASE ~(\E v \in Workers : result[v] = "SAT") /\ result'[w] # "SAT"
    <3>1. solutions \subseteq Covered(Open)
      BY <2>3 DEF Sem, SolutionsCovered
    <3>2. Open' = queue' \cup dropped' \cup UNION {Mine(v)' : v \in Workers}
      BY DEF Open
    <3>3. \A v \in Workers : v # w => Mine(v)' = Mine(v)
      BY DEF Mine, Carrying
    <3>4. ASSUME NEW x \in solutions
          PROVE  \E p \in Open' : x \in p.region
      <4>1. PICK q \in Open : x \in q.region
        BY <3>1 DEF Covered
      <4>2. CASE q \in Known(w)
        <5>1. PICK p \in Known(w)' : x \in p.region
          BY <2>3, <4>1, <4>2
        <5>2. p \in Open'
          BY <3>2 DEF Known
        <5>3. QED
          BY <5>1, <5>2
      <4>3. CASE q \notin Known(w)
        <5>1. PICK v \in Workers : q \in Mine(v)
          BY <4>3 DEF Open, Known
        <5>2. q \in Mine(v)'
          BY <3>3, <4>3, <5>1 DEF Known
        <5>3. q \in Open'
          BY <3>2, <5>2
        <5>4. QED
          BY <4>1, <5>3
      <4>4. QED
        BY <4>2, <4>3
    <3>5. solutions' \subseteq Covered(Open')
      BY <3>4 DEF Covered
    <3>6. QED
      BY <3>5 DEF SolutionsCovered, Covered
  <2>4. QED
    BY <2>1, <2>2, <2>3
<1>4. QED
  BY <1>1, <1>2, <1>3 DEF Sem

\* A worker that moves without dropping anything and without answering
LEMMA MoveStep ==
    ASSUME Base, Sem, NEW w \in Workers, NEW l \in Labels, Goto(w, l),
           UNCHANGED <<solutions, result>>,
           job' = job \/ job' = [job EXCEPT ![w] = None],
           \A v \in Workers : v # w => parts'[v] = parts[v],
           shouldQuit => shouldQuit',
           l # "judge",
           result[w] = "SAT" => (shouldQuit' /\ l \in {"stop", "loop", "gone"}),
           Known(w) \subseteq Known(w)'
    PROVE  Sem'
<1>1. /\ pc'[w] = l
      /\ \A v \in Workers : v # w => pc'[v] = pc[v] /\ job'[v] = job[v]
  BY DEF Base, TypeInv, Goto
<1>2. result[w] = "SAT" => solutions # {}
  BY DEF Sem, SatKept
<1>3. QED
  BY <1>1, <1>2, SemStep

\* The answers are sound, and SAT is the last one of whoever gives it
LEMMA SolveSem ==
    ASSUME Base, Sem, NEW w \in Workers, Solve(w)
    PROVE  Sem'
<1>1. /\ pc[w] = "solve" /\ Goto(w, "judge")
      /\ UNCHANGED <<solutions, queue, unsolved, shouldQuit, job, parts, dropped>>
  BY DEF Solve, work
<1>2. PICK code \in Answers(w) : result' = [result EXCEPT ![w] = code]
  BY DEF Solve
<1>3. /\ pc'[w] = "judge" /\ result'[w] = code
      /\ \A v \in Workers : v # w => pc'[v] = pc[v] /\ result'[v] = result[v]
  BY <1>1, <1>2 DEF Base, TypeInv, Goto
<1>4. result[w] # "SAT"
  BY <1>1 DEF Sem, SatKept
<1>5. /\ code = "SAT" => solutions # {}
      /\ code = "UNSAT" => job[w].region \cap solutions = {}
  BY FailuresOfEngine DEF Answers
<1>6. Mine(w) = parts[w] \cup {job[w]} /\ parts'[w] \subseteq Mine(w)'
  BY <1>1 DEF Mine, Carrying
<1>7. code # "UNSAT" => Mine(w)' = parts[w] \cup {job[w]}
  BY <1>1, <1>3 DEF Mine, Carrying
<1>8. \A q \in Known(w) : q \in Known(w)' \/ (q = job[w] /\ code = "UNSAT")
  BY <1>1, <1>6, <1>7 DEF Known
<1>9. \A q \in Known(w) : \A x \in q.region \cap solutions : \E p \in Known(w)' : x \in p.region
  BY <1>5, <1>8
<1>10. QED
  BY <1>1, <1>3, <1>4, <1>5, <1>9, SemStep

\* The parts of a subquery have its solutions
LEMMA DivideSem ==
    ASSUME Base, Sem, NEW w \in Workers, Divide(w)
    PROVE  Sem'
<1>1. /\ pc[w] = "judge" /\ Goto(w, "push") /\ result[w] = "TIMEOUT"
      /\ UNCHANGED <<solutions, queue, dropped, shouldQuit, job, result>>
  BY DEF Divide, work, engine
<1>2. /\ parts' = [parts EXCEPT ![w] = parts'[w]]
      /\ Covered(parts'[w]) = job[w].region
  BY DivideFacts DEF Base
<1>3. /\ pc'[w] = "push"
      /\ \A v \in Workers : v # w => pc'[v] = pc[v] /\ parts'[v] = parts[v]
  BY <1>1, <1>2 DEF Base, TypeInv, Goto
<1>4. parts[w] = {}
  BY <1>1 DEF Base, Places
<1>5. Mine(w) = {job[w]} /\ Mine(w)' = parts'[w]
  BY <1>1, <1>3, <1>4 DEF Mine, Carrying
<1>6. \A x \in job[w].region : \E p \in parts'[w] : x \in p.region
  BY <1>2 DEF Covered
<1>7. \A q \in Known(w) : \A x \in q.region \cap solutions : \E p \in Known(w)' : x \in p.region
  BY <1>1, <1>5, <1>6 DEF Known
<1>8. QED
  BY <1>1, <1>3, <1>7, SemStep

\* A subquery that is popped is carried by the worker that popped it
LEMMA PopSem ==
    ASSUME Base, Sem, NEW w \in Workers, Pop(w)
    PROVE  Sem'
<1>1. PICK q \in queue : queue' = queue \ {q} /\ job' = [job EXCEPT ![w] = q]
  BY DEF Pop
<1>2. /\ pc[w] = "pop" /\ Goto(w, "solve") /\ result' = [result EXCEPT ![w] = "NOT_DONE"]
      /\ UNCHANGED <<solutions, dropped, shouldQuit, parts>>
  BY DEF Pop
<1>3. /\ pc'[w] = "solve" /\ job'[w] = q /\ result'[w] = "NOT_DONE"
      /\ \A v \in Workers : v # w => pc'[v] = pc[v] /\ job'[v] = job[v] /\ result'[v] = result[v]
  BY <1>1, <1>2 DEF Base, TypeInv, Goto
<1>4. result[w] # "SAT"
  BY <1>2 DEF Sem, SatKept
<1>5. Mine(w) = parts[w] /\ Mine(w)' = parts[w] \cup {q}
  BY <1>2, <1>3 DEF Mine, Carrying
<1>6. Known(w) \subseteq Known(w)'
  BY <1>1, <1>2, <1>5 DEF Known
<1>7. QED
  BY <1>2, <1>3, <1>4, <1>6, SemStep

\* The steps of a worker that only move it, or its subquery
LEMMA MoveSteps ==
    ASSUME Base, Sem, NEW w \in Workers,
           \/ Loop(w) \/ PopEmpty(w) \/ Refuted(w) \/ Check(w) \/ Push(w) \/ Count(w)
           \/ Divided(w) \/ Abandon(w) \/ Stop(w)
           \/ Stopped(w) /\ result[w] # "SAT"
    PROVE  Sem'
<1>1. /\ \A v \in Workers : \A l : Goto(v, l) => pc'[v] = l
      /\ result[w] = "SAT" =>
            pc[w] = "judge" \/ (shouldQuit /\ pc[w] \in {"stop", "loop", "gone"})
      /\ pc[w] \notin {"push", "count"} => parts[w] = {}
      /\ {"loop", "pop", "gone", "check", "push", "count", "stop"} \subseteq Labels
  BY DEF Base, TypeInv, Places, Goto, Sem, SatKept, Labels
<1>2. CASE Loop(w)
  <2>1. PICK l \in {"gone", "pop"} : Goto(w, l) /\ (shouldQuit => l = "gone")
    BY <1>2 DEF Loop
  <2>2. pc[w] = "loop" /\ UNCHANGED <<solutions, queue, dropped, shouldQuit, result, job, parts>>
    BY <1>2 DEF Loop, work, engine
  <2>3. Known(w)' = Known(w)
    BY <1>1, <2>1, <2>2 DEF Known, Mine, Carrying
  <2>4. QED
    BY <1>1, <2>1, <2>2, <2>3, MoveStep
<1>3. CASE PopEmpty(w)
  <2>1. /\ pc[w] = "pop" /\ Goto(w, "loop")
        /\ UNCHANGED <<solutions, queue, dropped, shouldQuit, result, job, parts>>
    BY <1>3 DEF PopEmpty, work, engine
  <2>2. Known(w)' = Known(w)
    BY <1>1, <2>1 DEF Known, Mine, Carrying
  <2>3. QED
    BY <1>1, <2>1, <2>2, MoveStep
<1>4. CASE Refuted(w)
  <2>1. /\ pc[w] = "judge" /\ Goto(w, "check") /\ result[w] = "UNSAT"
        /\ UNCHANGED <<solutions, queue, dropped, shouldQuit, result, job, parts>>
    BY <1>4 DEF Refuted, engine
  <2>2. Known(w)' = Known(w)
    BY <1>1, <2>1 DEF Known, Mine, Carrying
  <2>3. QED
    BY <1>1, <2>1, <2>2, MoveStep
<1>5. CASE Check(w)
  <2>1. /\ pc[w] = "check" /\ Goto(w, "loop") /\ job' = [job EXCEPT ![w] = None]
        /\ shouldQuit => shouldQuit'
        /\ UNCHANGED <<solutions, queue, dropped, result, parts>>
    BY <1>5 DEF Check, Delete, engine
  <2>2. Known(w)' = Known(w)
    BY <1>1, <2>1 DEF Known, Mine, Carrying
  <2>3. QED
    BY <1>1, <2>1, <2>2, MoveStep
<1>6. CASE Push(w)
  <2>1. PICK q \in parts[w] : /\ queue' = queue \cup {q}
                              /\ parts' = [parts EXCEPT ![w] = @ \ {q}]
    BY <1>6 DEF Push
  <2>2. /\ pc[w] = "push" /\ Goto(w, "count")
        /\ UNCHANGED <<solutions, dropped, shouldQuit, result, job>>
    BY <1>6 DEF Push, engine
  <2>3. /\ parts'[w] = parts[w] \ {q}
        /\ \A v \in Workers : v # w => parts'[v] = parts[v]
    BY <2>1 DEF Base, TypeInv
  <2>4. Known(w) \subseteq Known(w)'
    BY <1>1, <2>1, <2>2, <2>3 DEF Known, Mine, Carrying
  <2>5. QED
    BY <1>1, <2>2, <2>3, <2>4, MoveStep
<1>7. CASE Count(w)
  <2>1. /\ pc[w] = "count" /\ Goto(w, "push")
        /\ UNCHANGED <<solutions, queue, dropped, shouldQuit, result, job, parts>>
    BY <1>7 DEF Count, engine
  <2>2. Known(w)' = Known(w)
    BY <1>1, <2>1 DEF Known, Mine, Carrying
  <2>3. QED
    BY <1>1, <2>1, <2>2, MoveStep
<1>8. CASE Divided(w)
  <2>1. /\ pc[w] = "push" /\ Goto(w, "loop") /\ job' = [job EXCEPT ![w] = None]
        /\ UNCHANGED <<solutions, queue, dropped, shouldQuit, result, parts>>
    BY <1>8 DEF Divided, Delete, engine
  <2>2. Known(w)' = Known(w)
    BY <1>1, <2>1 DEF Known, Mine, Carrying
  <2>3. QED
    BY <1>1, <2>1, <2>2, MoveStep
<1>9. CASE Abandon(w) \/ (Stopped(w) /\ result[w] # "SAT")
  <2>1. /\ pc[w] \in {"judge", "stop"} /\ Goto(w, "loop") /\ job' = [job EXCEPT ![w] = None]
        /\ dropped' = dropped \cup {job[w]} /\ result[w] # "SAT"
        /\ UNCHANGED <<solutions, queue, shouldQuit, result, parts>>
    BY <1>9 DEF Abandon, Stopped, Delete, work, engine
  <2>2. Known(w) \subseteq Known(w)'
    BY <1>1, <2>1 DEF Known, Mine, Carrying
  <2>3. QED
    BY <1>1, <2>1, <2>2, MoveStep
<1>10. CASE Stop(w)
  <2>1. /\ pc[w] = "judge" /\ Goto(w, "stop") /\ result[w] # "UNSAT" /\ shouldQuit'
        /\ UNCHANGED <<solutions, queue, dropped, result, job, parts>>
    BY <1>10 DEF Stop, engine
  <2>2. Known(w)' = Known(w)
    BY <1>1, <2>1 DEF Known, Mine, Carrying
  <2>3. QED
    BY <1>1, <2>1, <2>2, MoveStep
<1>11. QED
  BY <1>2, <1>3, <1>4, <1>5, <1>6, <1>7, <1>8, <1>9, <1>10

\* A solution that was found is enough
LEMMA StoppedSem ==
    ASSUME Base, Sem, NEW w \in Workers, Stopped(w), result[w] = "SAT"
    PROVE  Sem'
<1>1. /\ pc[w] = "stop" /\ Goto(w, "loop") /\ job' = [job EXCEPT ![w] = None]
      /\ UNCHANGED <<solutions, queue, dropped, shouldQuit, result, parts>>
  BY DEF Stopped, Delete, engine
<1>2. /\ pc'[w] = "loop"
      /\ \A v \in Workers : v # w => pc'[v] = pc[v] /\ job'[v] = job[v]
  BY <1>1 DEF Base, TypeInv, Goto
<1>3. solutions # {} /\ shouldQuit
  BY <1>1 DEF Sem, SatKept
<1>4. QED
  BY <1>1, <1>2, <1>3, SemStep

\* The manager and a signal change nothing the solutions depend on
LEMMA OthersSem ==
    ASSUME Base, Sem, Manager \/ Signal
    PROVE  Sem'
<1>1. /\ UNCHANGED <<solutions, queue, dropped, pc, job, parts, result>>
      /\ shouldQuit => shouldQuit'
  BY DEF Manager, Signal, TimeUp, AskToQuit, Finish, work, engine, local
<1>2. Open' = Open
  BY <1>1 DEF Open, Mine, Carrying
<1>3. SatKept' /\ UnsatRight'
  BY <1>1 DEF Sem, SatKept, UnsatRight
<1>4. SolutionsCovered'
  BY <1>1, <1>2 DEF Sem, SolutionsCovered
<1>5. QED
  BY <1>3, <1>4 DEF Sem
-----------------------------------------------------------------------------
(***************************************************************************)
(* The answer, and the theorems.                                           *)
(***************************************************************************)
\* When all threads are gone and the counter is not positive, nothing is open
LEMMA NothingOpen ==
    ASSUME Base, \A w \in Workers : pc[w] = "gone", unsolved <= 0
    PROVE  Open = {}
<1>1. Holding = {} /\ Counting = {}
  BY DEF Holding, Counting
<1>2. /\ Cardinality(queue) \in Nat /\ Cardinality(dropped) \in Nat
      /\ IsFiniteSet(queue) /\ IsFiniteSet(dropped)
  BY Counters DEF Base, TypeInv
<1>3. Cardinality({}) = 0
  BY FS_EmptySet
<1>4. unsolved = Cardinality(queue) + Cardinality(dropped)
  BY <1>1, <1>2, <1>3 DEF Base, CounterExact
<1>5. Cardinality(queue) = 0 /\ Cardinality(dropped) = 0
  BY <1>2, <1>4
<1>6. queue = {} /\ dropped = {}
  BY <1>2, <1>5, FS_EmptySet
<1>7. \A w \in Workers : Mine(w) = {}
  BY DEF Base, Places, Mine, Carrying
<1>8. QED
  BY <1>6, <1>7 DEF Open

\* The answer is given once, and it is the right one
LEMMA AnswerStep ==
    ASSUME Inv, [Next]_vars
    PROVE  AnswerSound'
<1> USE DEF Inv
<1>1. CASE Finish
  <2>1. /\ \A w \in Workers : pc[w] = "gone"
        /\ answer' = ExitCode /\ solutions' = solutions
    BY <1>1 DEF Finish
  <2>2. ASSUME ExitCode = "SAT"
        PROVE  solutions # {}
    <3>1. PICK w \in Workers : result[w] = "SAT"
      BY <2>2 DEF ExitCode
    <3>2. QED
      BY <3>1 DEF Sem, SatKept
  <2>3. ASSUME ExitCode = "UNSAT"
        PROVE  solutions = {}
    <3>1. unsolved <= 0 /\ ~(\E w \in Workers : result[w] = "SAT")
      BY <2>3 DEF ExitCode
    <3>2. Open = {}
      BY <2>1, <3>1, NothingOpen
    <3>3. solutions \subseteq Covered({})
      BY <3>1, <3>2 DEF Sem, SolutionsCovered
    <3>4. QED
      BY <3>3 DEF Covered
  <2>4. QED
    BY <2>1, <2>2, <2>3 DEF AnswerSound
<1>2. CASE ~Finish
  <2>1. UNCHANGED <<solutions, answer>>
    <3>1. CASE TimeUp \/ Signal \/ \E w \in Workers : AskToQuit(w)
      BY <3>1 DEF TimeUp, Signal, AskToQuit, managerState
    <3>2. CASE \E w \in Workers : Worker(w)
      BY <3>2 DEF Worker, Loop, PopEmpty, Pop, Solve, Refuted, Check, Divide, Push, Count,
                  Divided, Abandon, Stop, Stopped, managerState
    <3>3. CASE UNCHANGED vars
      BY <3>3 DEF vars, managerState
    <3>4. QED
      BY <1>2, <3>1, <3>2, <3>3 DEF Next, Manager
  <2>2. QED
    BY <2>1 DEF AnswerSound
<1>3. QED
  BY <1>1, <1>2

\* Every step keeps every solution in a subquery
LEMMA SemNext ==
    ASSUME Base, Sem, [Next]_vars
    PROVE  Sem'
<1>1. CASE Manager \/ Signal
  BY <1>1, OthersSem
<1>2. ASSUME NEW w \in Workers, Worker(w)
      PROVE  Sem'
  <2>1. CASE \/ Loop(w) \/ PopEmpty(w) \/ Refuted(w) \/ Check(w) \/ Push(w) \/ Count(w)
             \/ Divided(w) \/ Abandon(w) \/ Stop(w)
             \/ Stopped(w) /\ result[w] # "SAT"
    BY <2>1, MoveSteps
  <2>2. CASE Stopped(w) /\ result[w] = "SAT"
    BY <2>2, StoppedSem
  <2>3. CASE Solve(w)
    BY <2>3, SolveSem
  <2>4. CASE Divide(w)
    BY <2>4, DivideSem
  <2>5. CASE Pop(w)
    BY <2>5, PopSem
  <2>6. QED
    BY <1>2, <2>1, <2>2, <2>3, <2>4, <2>5 DEF Worker
<1>3. CASE UNCHANGED vars
  <2>1. UNCHANGED <<solutions, queue, dropped, shouldQuit, pc, result, job, parts>>
    BY <1>3 DEF vars, work, engine, local
  <2>2. Open' = Open
    BY <2>1 DEF Open, Mine, Carrying
  <2>3. SatKept' /\ UnsatRight'
    BY <2>1 DEF Sem, SatKept, UnsatRight
  <2>4. SolutionsCovered'
    BY <2>1, <2>2 DEF Sem, SolutionsCovered
  <2>5. QED
    BY <2>3, <2>4 DEF Sem
<1>4. QED
  BY <1>1, <1>2, <1>3 DEF Next

\* ... from the initial division on, which covers the input
LEMMA SemInit ==
    ASSUME Init
    PROVE  Sem /\ AnswerSound
<1>1. SatKept /\ UnsatRight /\ AnswerSound
  BY DEF Init, SatKept, UnsatRight, AnswerSound
<1>2. Covered(queue) = Points /\ solutions \subseteq Points
  BY InitFacts DEF Init
<1>3. queue \subseteq Open
  BY DEF Open
<1>4. SolutionsCovered
  BY <1>2, <1>3 DEF SolutionsCovered, Covered
<1>5. QED
  BY <1>1, <1>4 DEF Sem

\* In every run, whatever the threads, the division and the failures, each
\* subquery is in one place, the counter counts them, and no solution is lost.
THEOREM Invariance == Spec => []Inv
<1>1. Init => Inv
  BY BaseInit, SemInit DEF Inv
<1>2. Inv /\ [Next]_vars => Inv'
  BY BaseStep, SemNext, AnswerStep DEF Inv
<1>3. QED
  BY <1>1, <1>2, PTL DEF Spec

\* The variables keep their types; in particular the counter, decremented by
\* several threads in any order, never goes below zero.
THEOREM TypeCorrect == Spec => []TypeOK
<1>1. Inv => TypeOK
  <2> SUFFICES ASSUME Inv
               PROVE  TypeOK
    OBVIOUS
  <2>1. unsolved \in Nat
    BY Counters DEF Inv, Base, CounterExact
  <2>2. QED
    BY <2>1 DEF Inv, Base, TypeInv, TypeOK
<1>2. QED
  BY <1>1, Invariance, PTL

\* The counter of unsolved subqueries is the number of those queued, held or
\* given up, less those pushed and not counted yet.
THEOREM CounterIsExact == Spec => []CounterExact
<1>1. Inv => CounterExact
  BY DEF Inv, Base
<1>2. QED
  BY <1>1, Invariance, PTL

\* A solution nobody has found is in a subquery somebody still has.
THEOREM NoSolutionIsLost == Spec => []SolutionsCovered
<1>1. Inv => SolutionsCovered
  BY DEF Inv, Sem
<1>2. QED
  BY <1>1, Invariance, PTL

\* The manager answers SAT and UNSAT only if that is what the query is.
THEOREM AnswerIsSound == Spec => []AnswerSound
<1>1. Inv => AnswerSound
  BY DEF Inv
<1>2. QED
  BY <1>1, Invariance, PTL
-----------------------------------------------------------------------------
(***************************************************************************)
(* Nobody waits for nothing.                                               *)
(***************************************************************************)
\* A division has at least one part, and all are of the same depth
LEMMA DivisionShape ==
    ASSUME NEW region, NEW n \in Nat, NEW k, NEW depth, NEW limited, NEW d \in Divisions(region, n, k, depth, limited)
    PROVE  /\ d # {}
           /\ \A q \in d : q.depth = depth
<1>1. PICK m \in 1 .. n :
        \E r \in [1 .. m -> SUBSET region] :
            d = {[id |-> k + i, region |-> r[i], depth |-> depth, limited |-> limited] : i \in 1 .. m}
  BY DEF Divisions
<1>2. PICK r \in [1 .. m -> SUBSET region] :
        d = {[id |-> k + i, region |-> r[i], depth |-> depth, limited |-> limited] : i \in 1 .. m}
  BY <1>1
<1>3. d # {}
  <2>1. 1 \in 1 .. m
    OBVIOUS
  <2>2. [id |-> k + 1, region |-> r[1], depth |-> depth, limited |-> limited] \in d
    BY <1>2, <2>1
  <2>3. QED
    BY <2>2
<1>4. ASSUME NEW q \in d PROVE q.depth = depth
  <2>1. PICK i \in 1 .. m : q = [id |-> k + i, region |-> r[i], depth |-> depth, limited |-> limited]
    BY <1>2
  <2>2. QED
    BY <2>1
<1>5. QED
  BY <1>3, <1>4

\* A step of a worker leaves the others where they are, and nobody takes back that all are to stop
LEMMA WorkerFrame ==
    ASSUME TypeInv, NEW w \in Workers, Worker(w)
    PROVE  /\ \A v \in Workers \ {w} : pc'[v] = pc[v] /\ result'[v] = result[v] /\ job'[v] = job[v] /\ parts'[v] = parts[v]
           /\ shouldQuit => shouldQuit'
           /\ UNCHANGED <<quit, managerState>>
<1>1. /\ pc \in [Workers -> Labels] /\ result \in [Workers -> Codes] /\ job \in [Workers -> SubQuery \cup {None}]
      /\ parts \in [Workers -> SUBSET SubQuery]
  BY DEF TypeInv
<1>2. UNCHANGED <<quit, managerState>> /\ (shouldQuit => shouldQuit')
  <2>1. CASE \/ Loop(w) \/ PopEmpty(w) \/ Pop(w) \/ Solve(w) \/ Refuted(w) \/ Divide(w) \/ Push(w) \/ Count(w)
             \/ Divided(w) \/ Abandon(w) \/ Stopped(w)
    BY <2>1 DEF Loop, PopEmpty, Pop, Solve, Refuted, Divide, Push, Count, Divided, Abandon, Stopped, work, engine
  <2>2. CASE Check(w) \/ Stop(w)
    BY <2>2, Zenon DEF Check, Stop, engine
  <2>3. QED
    BY <2>1, <2>2 DEF Worker
<1>3. \A v \in Workers \ {w} : pc'[v] = pc[v]
  BY <1>1 DEF Worker, Loop, PopEmpty, Pop, Solve, Refuted, Check, Divide, Push, Count, Divided, Abandon, Stop,
         Stopped, Delete, Goto
<1>4. \A v \in Workers \ {w} : result'[v] = result[v]
  BY <1>1 DEF Worker, Loop, PopEmpty, Pop, Solve, Refuted, Check, Divide, Push, Count, Divided, Abandon, Stop,
         Stopped, engine
<1>5. \A v \in Workers \ {w} : job'[v] = job[v]
  BY <1>1 DEF Worker, Loop, PopEmpty, Pop, Solve, Refuted, Check, Divide, Push, Count, Divided, Abandon, Stop,
         Stopped, Delete
<1>6. \A v \in Workers \ {w} : parts'[v] = parts[v]
  BY <1>1 DEF Worker, Loop, PopEmpty, Pop, Solve, Refuted, Check, Divide, Push, Count, Divided, Abandon, Stop,
         Stopped
<1>7. QED
  BY <1>2, <1>3, <1>4, <1>5, <1>6

\* A worker that pushes parts has timed out, and whoever stops has told the others
Paths ==
    /\ \A w \in Workers : pc[w] \in {"push", "count"} => result[w] = "TIMEOUT"
    /\ \A w \in Workers : pc[w] = "stop" => shouldQuit

\* A counter at zero is seen by somebody, unless who brought it there had divided its subquery
Looks(w) == pc[w] = "check" \/ (pc[w] \in {"loop", "pop"} /\ result[w] = "TIMEOUT")
ZeroSeen == unsolved = 0 /\ ~shouldQuit => \E w \in Workers : Looks(w)

\* At zero the queue is empty
LEMMA ZeroMeansEmpty ==
    ASSUME Base
    PROVE  unsolved \in Nat /\ (unsolved = 0 => queue = {} /\ dropped = {})
<1>1. /\ Cardinality(queue) \in Nat /\ Cardinality(dropped) \in Nat
      /\ Cardinality(Holding) \in Nat /\ Cardinality(Counting) \in Nat
      /\ Cardinality(Counting) <= Cardinality(Holding)
      /\ IsFiniteSet(queue) /\ IsFiniteSet(dropped)
  BY Counters DEF Base, TypeInv
<1>2. unsolved = Cardinality(queue) + Cardinality(Holding) + Cardinality(dropped) - Cardinality(Counting)
  BY DEF Base, CounterExact
<1>3. unsolved \in Nat
  BY <1>1, <1>2
<1>4. unsolved = 0 => Cardinality(queue) = 0 /\ Cardinality(dropped) = 0
  BY <1>1, <1>2
<1>5. QED
  BY <1>1, <1>3, <1>4, FS_EmptySet

\* Every step keeps a worker on its path
LEMMA PathsStep ==
    ASSUME Base, Paths, [Next]_vars
    PROVE  Paths'
<1>1. /\ pc \in [Workers -> Labels] /\ result \in [Workers -> Codes] /\ TypeInv
  BY DEF Base, TypeInv
<1>2. CASE Manager \/ Signal \/ UNCHANGED vars
  <2>1. UNCHANGED <<pc, result>> /\ (shouldQuit => shouldQuit')
    BY <1>2 DEF Manager, Signal, TimeUp, AskToQuit, Finish, work, engine, local, vars
  <2>2. QED
    BY <2>1 DEF Paths
<1>3. ASSUME NEW w \in Workers, Worker(w)
      PROVE  Paths'
  <2>1. /\ \A v \in Workers \ {w} : pc'[v] = pc[v] /\ result'[v] = result[v]
        /\ shouldQuit => shouldQuit'
    BY <1>1, <1>3, WorkerFrame
  <2>2. (pc'[w] \in {"push", "count"} => result'[w] = "TIMEOUT") /\ (pc'[w] = "stop" => shouldQuit')
    <3>1. CASE Divide(w)
      BY <1>1, <3>1 DEF Divide, Goto, engine
    <3>2. CASE Push(w) \/ Count(w)
      BY <1>1, <3>2 DEF Push, Count, Goto, engine, Paths
    <3>3. CASE Stop(w)
      BY <1>1, <3>3 DEF Stop, Goto
    <3>4. CASE \/ Loop(w) \/ PopEmpty(w) \/ Pop(w) \/ Solve(w) \/ Refuted(w) \/ Check(w) \/ Divided(w)
               \/ Abandon(w) \/ Stopped(w)
      <4>1. pc'[w] \in {"loop", "gone", "pop", "solve", "judge", "check"}
        BY <1>1, <3>4 DEF Loop, PopEmpty, Pop, Solve, Refuted, Check, Divided, Abandon, Stopped, Delete, Goto
      <4>2. QED
        BY <4>1
    <3>5. QED
      BY <1>3, <3>1, <3>2, <3>3, <3>4 DEF Worker
  <2>3. QED
    BY <2>1, <2>2 DEF Paths
<1>4. QED
  BY <1>2, <1>3 DEF Next

\* A counter that reaches zero is seen, or has been brought there by a division
LEMMA ZeroSeenStep ==
    ASSUME Base, SatKept, Paths, ZeroSeen, [Next]_vars
    PROVE  ZeroSeen'
<1>1. /\ pc \in [Workers -> Labels] /\ result \in [Workers -> Codes] /\ TypeInv /\ unsolved \in Nat
      /\ unsolved = 0 => queue = {}
  BY ZeroMeansEmpty DEF Base, TypeInv
<1>2. CASE Manager \/ Signal \/ UNCHANGED vars
  <2>1. UNCHANGED <<pc, result, unsolved>> /\ (shouldQuit => shouldQuit')
    BY <1>2 DEF Manager, Signal, TimeUp, AskToQuit, Finish, work, engine, local, vars
  <2>2. QED
    BY <2>1 DEF ZeroSeen, Looks
<1>3. ASSUME NEW w \in Workers, Worker(w), unsolved' = 0, ~shouldQuit'
      PROVE  \E v \in Workers : Looks(v)'
  <2>1. /\ \A v \in Workers \ {w} : pc'[v] = pc[v] /\ result'[v] = result[v]
        /\ shouldQuit => shouldQuit'
    BY <1>1, <1>3, WorkerFrame
  <2>2. unsolved = 0 => \E v \in Workers : Looks(v)
    BY <1>3, <2>1 DEF ZeroSeen
  <2>3. CASE Refuted(w)
    <3>1. pc'[w] = "check"
      BY <1>1, <2>3 DEF Refuted, Goto
    <3>2. QED
      BY <3>1 DEF Looks
  <2>4. CASE Divided(w)
    <3>1. pc'[w] = "loop" /\ result'[w] = "TIMEOUT"
      BY <1>1, <2>4 DEF Divided, Delete, Goto, engine, Paths
    <3>2. QED
      BY <3>1 DEF Looks
  <2>5. CASE Check(w) \/ Stop(w) \/ Stopped(w) \/ Count(w) \/ Pop(w)
    <3>1. ~Stop(w)
      BY <1>3 DEF Stop
    <3>2. ~Stopped(w)
      BY <1>3, <2>1 DEF Stopped, Paths
    <3>3. ~Check(w)
      BY <1>3 DEF Check
    <3>4. ~Count(w)
      BY <1>1, <1>3 DEF Count
    <3>5. ~Pop(w)
      BY <1>1, <1>3 DEF Pop
    <3>6. QED
      BY <2>5, <3>1, <3>2, <3>3, <3>4, <3>5
  <2>6. CASE Loop(w) \/ PopEmpty(w) \/ Solve(w) \/ Divide(w) \/ Push(w) \/ Abandon(w)
    <3>1. unsolved = 0
      BY <1>3, <2>6 DEF Loop, PopEmpty, Solve, Divide, Push, Abandon, work
    <3>2. PICK v \in Workers : Looks(v)
      BY <2>2, <3>1
    <3>3. CASE v # w
      BY <2>1, <3>2, <3>3 DEF Looks
    <3>4. CASE v = w
      <4>1. pc[w] \in {"check", "loop", "pop"} /\ (pc[w] # "check" => result[w] = "TIMEOUT")
        BY <3>2, <3>4 DEF Looks
      <4>2. Loop(w) \/ PopEmpty(w)
        BY <2>6, <4>1 DEF Solve, Divide, Push, Abandon
      <4>3. pc'[w] \in {"loop", "pop"} /\ result'[w] = "TIMEOUT"
        BY <1>1, <1>3, <2>1, <4>1, <4>2 DEF Loop, PopEmpty, Goto, engine
      <4>4. QED
        BY <4>3 DEF Looks
    <3>5. QED
      BY <3>3, <3>4
  <2>7. QED
    BY <1>3, <2>3, <2>4, <2>5, <2>6 DEF Worker
<1>4. QED
  BY <1>2, <1>3 DEF Next, ZeroSeen

\* The initial division is not empty
LEMMA PathsInit ==
    ASSUME Init
    PROVE  Paths /\ ZeroSeen
<1>1. queue # {} /\ IsFiniteSet(queue) /\ unsolved = Cardinality(queue)
  <2>1. InitialParts \in Nat
    BY PartsArePositive
  <2>2. queue \in Divisions(Points, InitialParts, 0, 1, TRUE)
    BY DEF Init
  <2>3. \A region, k, depth, limited : \A d \in Divisions(region, InitialParts, k, depth, limited) : d # {}
    BY <2>1, DivisionShape
  <2>4. queue # {}
    BY <2>2, <2>3, Zenon
  <2>5. QED
    BY <2>4, InitFacts DEF Init
<1>2. unsolved # 0
  BY <1>1, FS_EmptySet
<1>3. QED
  BY <1>2 DEF Init, Paths, ZeroSeen

\* Nobody can do more than look for a subquery, and there is none
Idle == queue = {} /\ ~shouldQuit /\ \A w \in Workers : pc[w] \in {"loop", "pop"}

\* It comes to that only in the two ways in which it must: the last decrement was that of a
\* division, after which nobody looks at the counter, or an engine asked to quit by a signal
\* dropped its subquery (DnCWorker.cpp:100-230).
IdleExcused ==
    Idle => \/ unsolved = 0 /\ \E w \in Workers : result[w] = "TIMEOUT"
            \/ dropped # {}

THEOREM NobodyWaitsForNothing == Spec => []IdleExcused
<1>1. Init => Paths /\ ZeroSeen
  BY PathsInit
<1>2. Inv /\ Paths /\ ZeroSeen /\ [Next]_vars => Paths' /\ ZeroSeen'
  BY PathsStep, ZeroSeenStep DEF Inv, Sem
<1>3. Inv /\ Paths /\ ZeroSeen => IdleExcused
  <2> SUFFICES ASSUME Inv, ZeroSeen, Idle, dropped = {}
               PROVE  unsolved = 0 /\ \E w \in Workers : result[w] = "TIMEOUT"
    BY DEF IdleExcused
  <2>1. Holding = {} /\ Counting = {}
    BY DEF Idle, Holding, Counting
  <2>2. unsolved = 0
    <3>1. Cardinality({}) = 0
      BY FS_EmptySet
    <3>2. unsolved = Cardinality({}) + Cardinality({}) + Cardinality({}) - Cardinality({})
      BY <2>1 DEF Inv, Base, CounterExact, Idle
    <3>3. QED
      BY <3>1, <3>2
  <2>3. QED
    BY <2>2 DEF Idle, ZeroSeen, Looks
<1>4. QED
  BY <1>1, <1>2, <1>3, Invariance, PTL DEF Spec
-----------------------------------------------------------------------------
(***************************************************************************)
(* The threads move forward.                                               *)
(***************************************************************************)
\* The deepest a subquery with a time limit may be
MaxDepth == IF DepthThreshold > 1 THEN DepthThreshold - 1 ELSE 1

\* The depth of a subquery is bounded as long as it may be divided again
Deep(q) == 1 <= q.depth /\ (q.limited => q.depth <= MaxDepth)

\* All subqueries are, only one with a limit times out, and a timeout stops everybody
Timely ==
    /\ timedOut => shouldQuit
    /\ \A q \in queue : Deep(q)
    /\ \A w \in Workers : \A q \in parts[w] : Deep(q)
    /\ \A w \in Live : Deep(job[w])
    /\ \A w \in Workers : pc[w] = "judge" /\ result[w] = "TIMEOUT" => job[w].limited
    /\ \A w \in Workers : IsFiniteSet(parts[w])

\* The parts of a division without a time limit have none
LEMMA DivisionUnlimited ==
    ASSUME NEW region, NEW n \in Nat, NEW k, NEW depth, NEW d \in Divisions(region, n, k, depth, FALSE), NEW q \in d
    PROVE  ~q.limited
<1>1. PICK m \in 1 .. n :
        \E r \in [1 .. m -> SUBSET region] :
            d = {[id |-> k + i, region |-> r[i], depth |-> depth, limited |-> FALSE] : i \in 1 .. m}
  BY DEF Divisions
<1>2. PICK r \in [1 .. m -> SUBSET region], i \in 1 .. m :
        q = [id |-> k + i, region |-> r[i], depth |-> depth, limited |-> FALSE]
  BY <1>1
<1>3. QED
  BY <1>2

\* The parts of a division are deeper than what is divided, and finitely many
LEMMA DivideDepth ==
    ASSUME Base, Timely, NEW w \in Workers, Divide(w)
    PROVE  /\ \A q \in parts'[w] : q.depth = job[w].depth + 1 /\ Deep(q)
           /\ IsFiniteSet(parts'[w])
           /\ parts' = [parts EXCEPT ![w] = parts'[w]]
<1>1. pc[w] \in LiveLabels /\ w \in Live
  BY DEF Divide, LiveLabels, Live
<1>2. /\ job[w].region \in SUBSET Points /\ job[w].depth \in Nat /\ job[w].depth + 1 \in Nat
      /\ (job[w].depth < DepthThreshold - 1) \in BOOLEAN /\ Deep(job[w])
  BY <1>1, LiveTypes DEF Base, Timely
<1>3. allocated \in Nat /\ OnlineParts \in Nat /\ DepthThreshold \in Nat
  BY PartsArePositive, DepthThresholdIsANumber DEF Base, TypeInv
<1> DEFINE lim == job[w].depth < DepthThreshold - 1
           deep == job[w].depth + 1
<1>4. PICK d \in Divisions(job[w].region, OnlineParts, allocated, deep, lim) :
          parts' = [parts EXCEPT ![w] = d]
  BY DEF Divide
<1>5. parts'[w] = d
  BY <1>4 DEF Base, TypeInv
<1>6. IsFiniteSet(d) /\ \A q \in d : q.depth = deep /\ (q.limited => lim)
  <2>0. deep \in Nat /\ lim \in BOOLEAN
    BY <1>2
  <2> HIDE DEF deep, lim
  <2>1. \A region \in SUBSET Points, depth \in Nat, limited \in BOOLEAN :
          \A e \in Divisions(region, OnlineParts, allocated, depth, limited) : IsFiniteSet(e)
    BY <1>3, DivisionFacts
  <2>2. IsFiniteSet(d)
    BY <1>2, <1>4, <2>0, <2>1, Zenon
  <2>3. \A region, depth, limited : \A e \in Divisions(region, OnlineParts, allocated, depth, limited) :
          \A q \in e : q.depth = depth
    BY <1>3, DivisionShape
  <2>4. \A q \in d : q.depth = deep
    BY <1>4, <2>3, Zenon
  <2>5. \A region, depth : \A e \in Divisions(region, OnlineParts, allocated, depth, FALSE) :
          \A q \in e : ~q.limited
    BY <1>3, DivisionUnlimited
  <2>6. ~lim => \A q \in d : ~q.limited
    <3>1. ~lim => d \in Divisions(job[w].region, OnlineParts, allocated, deep, FALSE)
      BY <1>4, <2>0
    <3>2. QED
      BY <2>5, <3>1, Zenon
  <2>7. QED
    BY <2>0, <2>2, <2>4, <2>6
<1>7. \A q \in d : Deep(q)
  BY <1>2, <1>3, <1>6 DEF Deep, MaxDepth
<1>8. QED
  BY <1>4, <1>5, <1>6, <1>7

\* Every step keeps the depth of the subqueries bounded
LEMMA TimelyStep ==
    ASSUME Base, Timely, [Next]_vars
    PROVE  Timely'
<1>1. /\ pc \in [Workers -> Labels] /\ result \in [Workers -> Codes] /\ job \in [Workers -> SubQuery \cup {None}]
      /\ parts \in [Workers -> SUBSET SubQuery] /\ TypeInv
  BY DEF Base, TypeInv
<1>2. CASE Manager \/ Signal \/ UNCHANGED vars
  <2>1. UNCHANGED <<queue, pc, job, parts, result>>
    BY <1>2 DEF Manager, Signal, TimeUp, AskToQuit, Finish, work, engine, local, vars
  <2>2. timedOut' => shouldQuit'
    BY <1>2 DEF Manager, Signal, TimeUp, AskToQuit, Finish, work, managerState, vars, Timely
  <2>3. QED
    BY <2>1, <2>2 DEF Timely, Live, Deep
<1>3. ASSUME NEW w \in Workers, Worker(w)
      PROVE  Timely'
  <2>1. /\ \A v \in Workers \ {w} : pc'[v] = pc[v] /\ result'[v] = result[v] /\ job'[v] = job[v] /\ parts'[v] = parts[v]
        /\ shouldQuit => shouldQuit'
        /\ timedOut' = timedOut
    BY <1>1, <1>3, WorkerFrame DEF managerState
  <2>2. /\ \A q \in queue' : Deep(q)
        /\ \A q \in parts'[w] : Deep(q)
        /\ IsFiniteSet(parts'[w])
    <3>1. CASE Divide(w)
      BY <3>1, DivideDepth DEF Divide, work, Timely
    <3>2. CASE Push(w)
      <4>1. PICK q \in parts[w] : queue' = queue \cup {q} /\ parts' = [parts EXCEPT ![w] = @ \ {q}]
        BY <3>2 DEF Push
      <4>2. parts'[w] = parts[w] \ {q} /\ IsFiniteSet(parts[w] \ {q})
        BY <1>1, <4>1, FS_RemoveElement DEF Timely
      <4>3. QED
        BY <4>1, <4>2 DEF Timely
    <3>3. CASE ~Divide(w) /\ ~Push(w)
      <4>1. queue' \subseteq queue /\ parts' = parts
        BY <1>3, <3>3 DEF Worker, Loop, PopEmpty, Pop, Solve, Refuted, Check, Count, Divided, Abandon, Stop, Stopped, work
      <4>2. QED
        BY <4>1 DEF Timely
    <3>4. QED
      BY <3>1, <3>2, <3>3
  <2>3. pc'[w] \in LiveLabels => Deep(job'[w])
    <3>1. CASE Pop(w)
      <4>1. PICK q \in queue : job' = [job EXCEPT ![w] = q]
        BY <3>1 DEF Pop
      <4>2. QED
        BY <1>1, <4>1 DEF Timely
    <3>2. CASE Solve(w) \/ Refuted(w) \/ Divide(w) \/ Push(w) \/ Count(w) \/ Stop(w)
      <4>1. pc[w] \in LiveLabels /\ job' = job
        BY <3>2 DEF Solve, Refuted, Divide, Push, Count, Stop, LiveLabels
      <4>2. QED
        BY <4>1 DEF Timely, Live
    <3>3. CASE Loop(w) \/ PopEmpty(w) \/ Check(w) \/ Divided(w) \/ Abandon(w) \/ Stopped(w)
      <4>1. pc'[w] \in {"loop", "gone", "pop"}
        BY <1>1, <3>3 DEF Loop, PopEmpty, Check, Divided, Abandon, Stopped, Delete, Goto
      <4>2. QED
        BY <4>1 DEF LiveLabels
    <3>4. QED
      BY <1>3, <3>1, <3>2, <3>3 DEF Worker
  <2>4. pc'[w] = "judge" /\ result'[w] = "TIMEOUT" => job'[w].limited
    <3>1. CASE Solve(w)
      <4>1. PICK code \in Answers(w) : result' = [result EXCEPT ![w] = code]
        BY <3>1 DEF Solve
      <4>2. code = "TIMEOUT" => job[w].limited
        BY FailuresOfEngine DEF Answers
      <4>3. QED
        BY <1>1, <3>1, <4>1, <4>2 DEF Solve
    <3>2. CASE ~Solve(w)
      <4>1. pc'[w] # "judge"
        BY <1>1, <1>3, <3>2 DEF Worker, Loop, PopEmpty, Pop, Refuted, Check, Divide, Push, Count, Divided,
               Abandon, Stop, Stopped, Delete, Goto
      <4>2. QED
        BY <4>1
    <3>3. QED
      BY <3>1, <3>2
  <2>5. QED
    <3>1. /\ \A v \in Workers : \A q \in parts'[v] : Deep(q)
          /\ \A v \in Workers : IsFiniteSet(parts'[v])
      BY <2>1, <2>2 DEF Timely
    <3>2. \A v \in Workers : pc'[v] \in LiveLabels => Deep(job'[v])
      BY <2>1, <2>3 DEF Timely, Live
    <3>3. \A v \in Workers : pc'[v] = "judge" /\ result'[v] = "TIMEOUT" => job'[v].limited
      BY <2>1, <2>4 DEF Timely
    <3>4. timedOut' => shouldQuit'
      BY <2>1 DEF Timely
    <3>5. QED
      BY <2>2, <3>1, <3>2, <3>3, <3>4 DEF Timely, Live, Deep
<1>4. QED
  BY <1>2, <1>3 DEF Next

\* The initial division is of depth 1
LEMMA TimelyInit ==
    ASSUME Init
    PROVE  Timely
<1>1. InitialParts \in Nat /\ queue \in Divisions(Points, InitialParts, 0, 1, TRUE)
  BY PartsArePositive DEF Init
<1>2. \A region, k, depth, limited : \A d \in Divisions(region, InitialParts, k, depth, limited) :
        \A q \in d : q.depth = depth
  BY <1>1, DivisionShape
<1>3. \A q \in queue : q.depth = 1
  BY <1>1, <1>2, Zenon
<1>4. 1 <= MaxDepth
  BY DepthThresholdIsANumber DEF MaxDepth
<1>5. \A q \in queue : Deep(q)
  BY <1>3, <1>4 DEF Deep
<1>6. Live = {}
  BY DEF Init, Live, LiveLabels
<1>7. IsFiniteSet({})
  BY FS_EmptySet
<1>8. QED
  BY <1>5, <1>6, <1>7 DEF Init, Timely

\* The workers at a label
At(l) == {w \in Workers : pc[w] = l}

\* The parts still to be pushed
Unpushed == UNION {parts[w] : w \in Workers}

\* The subqueries no engine has answered for, or whose answer nobody has acted on
Undecided == queue \cup Unpushed \cup {job[w] : w \in At("solve") \cup At("judge")}

\* Those of a depth that may be divided again
Splittable(d) == {q \in Undecided : q.limited /\ q.depth = d}

Going == {w \in Workers : pc[w] # "gone"}
Unasked == {w \in Workers : ~quit[w]}

\* What the manager has not noticed yet
Waiting == (IF timedOut THEN {} ELSE {"time"}) \cup (IF manager = "wait" THEN {"threads"} ELSE {})

\* Where subqueries and workers are, in the order in which they get there
Later == <<Unpushed, queue, At("solve"), At("judge"), At("count"), At("push"), At("check"),
           At("stop"), Going, Unasked, Waiting>>

\* What is left to be done: depth by depth, then place by place
Remaining == [k \in 1 .. MaxDepth + 11 |-> IF k <= MaxDepth THEN Splittable(k) ELSE Later[k - MaxDepth]]

\* Sequences of sets, ordered by the first in which they differ
Below(v, w) ==
    \E i \in DOMAIN w :
        /\ v[i] \subseteq w[i] /\ v[i] # w[i]
        /\ \A j \in 1 .. i - 1 : v[j] = w[j]

\* The first m sets have only lost elements, the m-th some
Lost(v, w, m) == (\A i \in 1 .. m : v[i] \subseteq w[i]) /\ v[m] # w[m]

LEMMA LostBelow ==
    ASSUME NEW n \in Nat, NEW v, NEW w, DOMAIN w = 1 .. n, NEW m \in 1 .. n, Lost(v, w, m)
    PROVE  Below(v, w)
<1> DEFINE D == {i \in 1 .. m : v[i] # w[i]}
<1>1. D \in SUBSET Nat /\ D # {}
  BY DEF Lost
<1>2. PICK i \in D : \A j \in D : ~(j < i)
  <2> DEFINE R == {x \in Nat \X Nat : x[1] < x[2]}
  <2>1. IsWellFoundedOn(R, Nat)
    BY NatLessThanWellFounded DEF OpToRel
  <2>2. PICK i \in D : \A j \in D : ~(<<j, i>> \in R)
    <3> HIDE DEF R, D
    <3>1. QED
      BY <1>1, <2>1, WFMin
  <2>3. QED
    BY <1>1, <2>2
<1>3. i \in DOMAIN w /\ v[i] \subseteq w[i] /\ v[i] # w[i]
  BY <1>2 DEF Lost
<1>4. \A j \in 1 .. i - 1 : v[j] = w[j]
  BY <1>2
<1>5. QED
  BY <1>3, <1>4 DEF Below

LEMMA MaxDepthType == MaxDepth \in Nat \ {0}
BY DepthThresholdIsANumber DEF MaxDepth

\* A division at some depth brings the end nearer, if the depths above only lose subqueries
LEMMA DepthBelow ==
    ASSUME NEW d \in 1 .. MaxDepth, \A i \in 1 .. d : Splittable(i)' \subseteq Splittable(i),
           Splittable(d)' # Splittable(d)
    PROVE  Below(Remaining', Remaining)
<1> DEFINE n == MaxDepth + 11
<1>1. MaxDepth \in Nat /\ n \in Nat /\ DOMAIN Remaining = 1 .. n /\ d \in 1 .. n
  BY MaxDepthType DEF Remaining
<1>2. \A i \in 1 .. d : Remaining[i] = Splittable(i) /\ Remaining'[i] = Splittable(i)'
  BY <1>1 DEF Remaining
<1>3. Lost(Remaining', Remaining, d)
  BY <1>1, <1>2 DEF Lost
<1>4. QED
  BY <1>1, <1>3, LostBelow

\* So does a move from a place, if the places before it, and the depths, only lose something
LEMMA PlaceBelow ==
    ASSUME \A i \in 1 .. MaxDepth : Splittable(i)' \subseteq Splittable(i),
           NEW p \in 1 .. 11, \A i \in 1 .. p : Later'[i] \subseteq Later[i], Later'[p] # Later[p]
    PROVE  Below(Remaining', Remaining)
<1> DEFINE n == MaxDepth + 11
           d == MaxDepth + p
<1>1. MaxDepth \in Nat /\ n \in Nat /\ DOMAIN Remaining = 1 .. n /\ d \in 1 .. n
  BY MaxDepthType DEF Remaining
<1>2. /\ \A i \in 1 .. n : Remaining[i] = IF i <= MaxDepth THEN Splittable(i) ELSE Later[i - MaxDepth]
      /\ \A i \in 1 .. n : Remaining'[i] = IF i <= MaxDepth THEN Splittable(i)' ELSE Later'[i - MaxDepth]
  <2> HIDE DEF n, d
  <2>1. MaxDepth' = MaxDepth
    BY DEF MaxDepth
  <2>2. QED
    BY <1>1, <2>1 DEF Remaining, n
<1>3. ASSUME NEW i \in 1 .. d
      PROVE  Remaining'[i] \subseteq Remaining[i]
  <2>1. i \in 1 .. n /\ (i <= MaxDepth => i \in 1 .. MaxDepth) /\ (~(i <= MaxDepth) => i - MaxDepth \in 1 .. p)
    BY <1>1
  <2> HIDE DEF n, d
  <2>2. CASE i <= MaxDepth
    <3>1. Remaining[i] = Splittable(i) /\ Remaining'[i] = Splittable(i)'
      BY <1>2, <2>1, <2>2
    <3>2. Splittable(i)' \subseteq Splittable(i)
      BY <2>1, <2>2
    <3>3. QED
      BY <3>1, <3>2
  <2>3. CASE ~(i <= MaxDepth)
    <3>1. Remaining[i] = Later[i - MaxDepth] /\ Remaining'[i] = Later'[i - MaxDepth]
      BY <1>2, <2>1, <2>3
    <3>2. Later'[i - MaxDepth] \subseteq Later[i - MaxDepth]
      BY <2>1, <2>3
    <3>3. QED
      BY <3>1, <3>2
  <2>4. QED
    BY <2>2, <2>3
<1>4. Remaining'[d] # Remaining[d]
  <2>1. ~(d <= MaxDepth) /\ d - MaxDepth = p
    BY <1>1
  <2> HIDE DEF n, d
  <2>2. Remaining[d] = Later[p] /\ Remaining'[d] = Later'[p]
    BY <1>1, <1>2, <2>1
  <2>3. QED
    BY <2>2
<1>5. Lost(Remaining', Remaining, d)
  BY <1>3, <1>4 DEF Lost
<1>6. QED
  BY <1>1, <1>5, LostBelow

\* Where a label is in Later
Order(l) ==
    CASE l = "solve" -> 3 [] l = "judge" -> 4 [] l = "count" -> 5 [] l = "push" -> 6
      [] l = "check" -> 7 [] l = "stop" -> 8 [] OTHER -> 12

InOrder ==
    /\ Later[1] = Unpushed /\ Later[2] = queue
    /\ \A i \in 3 .. 8 : Later[i] = {w \in Workers : Order(pc[w]) = i}
    /\ Later[9] = Going /\ Later[10] = Unasked /\ Later[11] = Waiting

LEMMA LaterInOrder == InOrder
<1>1. /\ Later[1] = Unpushed /\ Later[2] = queue /\ Later[9] = Going /\ Later[10] = Unasked /\ Later[11] = Waiting
      /\ Later[3] = At("solve") /\ Later[4] = At("judge") /\ Later[5] = At("count") /\ Later[6] = At("push")
      /\ Later[7] = At("check") /\ Later[8] = At("stop")
  BY DEF Later
<1>2. \A l : /\ Order(l) = 3 <=> l = "solve"
             /\ Order(l) = 4 <=> l = "judge"
             /\ Order(l) = 5 <=> l = "count"
             /\ Order(l) = 6 <=> l = "push"
             /\ Order(l) = 7 <=> l = "check"
             /\ Order(l) = 8 <=> l = "stop"
  BY DEF Order
<1>3. ASSUME NEW i \in 3 .. 8
      PROVE  Later[i] = {w \in Workers : Order(pc[w]) = i}
  <2>1. i \in {3, 4, 5, 6, 7, 8}
    BY <1>3
  <2>2. QED
    BY <1>1, <1>2, <2>1 DEF At
<1>4. QED
  BY <1>1, <1>3 DEF InOrder

\* A worker that moves on, with the queue and the parts as they were
LEMMA WorkerBelow ==
    ASSUME TypeInv, NEW w \in Workers, NEW l \in Labels, Goto(w, l), UNCHANGED <<queue, parts>>,
           \A i \in 1 .. MaxDepth : Splittable(i)' \subseteq Splittable(i),
           Order(pc[w]) \in 3 .. 8, Order(l) > Order(pc[w])
    PROVE  Below(Remaining', Remaining)
<1> DEFINE p == Order(pc[w])
<1>1. \A v \in Workers : pc'[v] = IF v = w THEN l ELSE pc[v]
  BY DEF TypeInv, Goto
<1>2. InOrder /\ InOrder'
  BY LaterInOrder, PTL
<1>3. /\ Later[1] = Unpushed /\ Later[2] = queue
      /\ Later'[1] = Unpushed' /\ Later'[2] = queue'
      /\ \A i \in 3 .. 8 : /\ Later[i] = {v \in Workers : Order(pc[v]) = i}
                           /\ Later'[i] = {v \in Workers : Order(pc'[v]) = i}
  BY <1>2 DEF InOrder
<1>4. Unpushed' = Unpushed
  BY DEF Unpushed
<1>5. ASSUME NEW i \in 1 .. p
      PROVE  Later'[i] \subseteq Later[i]
  <2>1. CASE i \in 3 .. 8
    <3>1. \A v \in Workers : Order(pc'[v]) = i => Order(pc[v]) = i
      BY <1>1, <2>1
    <3>2. QED
      BY <1>3, <2>1, <3>1
  <2>2. CASE i \in {1, 2}
    BY <1>3, <1>4, <2>2
  <2>3. QED
    BY <2>1, <2>2
<1>6. Later'[p] # Later[p]
  <2>1. w \in Later[p] /\ w \notin Later'[p]
    BY <1>1, <1>3
  <2>2. QED
    BY <2>1
<1>7. p \in 1 .. 11
  OBVIOUS
<1> HIDE DEF p
<1>8. QED
  BY <1>5, <1>6, <1>7, PlaceBelow

\* Only a division gives rise to subqueries to be decided
LEMMA UndecidedKept ==
    ASSUME TypeInv, [Next]_vars, \A w \in Workers : ~Divide(w)
    PROVE  \A i \in 1 .. MaxDepth : Splittable(i)' \subseteq Splittable(i)
<1>1. SUFFICES Undecided' \subseteq Undecided
  BY DEF Splittable
<1>2. CASE Manager \/ Signal \/ UNCHANGED vars
  <2>1. UNCHANGED <<queue, pc, job, parts>>
    BY <1>2 DEF Manager, Signal, TimeUp, AskToQuit, Finish, work, engine, local, vars
  <2>2. QED
    BY <2>1 DEF Undecided, Unpushed, At
<1>3. ASSUME NEW w \in Workers, Worker(w)
      PROVE  Undecided' \subseteq Undecided
  <2>1. /\ pc \in [Workers -> Labels] /\ job \in [Workers -> SubQuery \cup {None}]
        /\ parts \in [Workers -> SUBSET SubQuery]
    BY DEF TypeInv
  <2>2. \A v \in Workers \ {w} : pc'[v] = pc[v] /\ job'[v] = job[v] /\ parts'[v] = parts[v]
    BY <1>3, WorkerFrame
  <2>3. queue' \subseteq queue \cup parts[w] /\ parts'[w] \subseteq parts[w]
    <3>1. CASE Push(w)
      BY <2>1, <3>1 DEF Push
    <3>2. CASE ~Push(w)
      BY <1>3, <3>2 DEF Worker, Loop, PopEmpty, Pop, Solve, Refuted, Check, Count, Divided, Abandon, Stop, Stopped, work
    <3>3. QED
      BY <3>1, <3>2
  <2>4. pc'[w] \in {"solve", "judge"} => job'[w] \in queue \/ (job'[w] = job[w] /\ pc[w] \in {"solve", "judge"})
    <3>1. CASE Pop(w)
      BY <2>1, <3>1 DEF Pop
    <3>2. CASE Solve(w)
      BY <3>2 DEF Solve
    <3>3. CASE ~Pop(w) /\ ~Solve(w)
      <4>1. pc'[w] \notin {"solve", "judge"}
        BY <1>3, <2>1, <3>3 DEF Worker, Loop, PopEmpty, Refuted, Check, Push, Count, Divided, Abandon, Stop, Stopped,
               Delete, Goto
      <4>2. QED
        BY <4>1
    <3>4. QED
      BY <3>1, <3>2, <3>3
  <2>5. Unpushed' \subseteq Unpushed /\ queue' \subseteq queue \cup Unpushed
    BY <2>2, <2>3 DEF Unpushed
  <2>6. ASSUME NEW v \in Workers, pc'[v] \in {"solve", "judge"}
        PROVE  job'[v] \in Undecided
    BY <2>2, <2>4, <2>6 DEF Undecided, At
  <2>7. QED
    BY <2>5, <2>6 DEF Undecided, At
<1>4. QED
  BY <1>2, <1>3 DEF Next

\* A division loses a subquery of its depth, and gains none that is not deeper
LEMMA DivideBelow ==
    ASSUME Base, Timely, NEW w \in Workers, Divide(w)
    PROVE  Below(Remaining', Remaining)
<1>0. PICK q, d : q = job[w] /\ d = q.depth
  OBVIOUS
<1>1. /\ pc \in [Workers -> Labels] /\ parts \in [Workers -> SUBSET SubQuery]
      /\ pc[w] = "judge" /\ Goto(w, "push") /\ queue' = queue /\ job' = job
  BY DEF Base, TypeInv, Divide, work
<1>2. q \in SubQuery /\ q.limited /\ d \in Nat /\ 1 <= d /\ d <= MaxDepth /\ w \in Live
  <2>1. w \in Live /\ q \in SubQuery /\ d \in Nat
    BY <1>0, <1>1, LiveTypes DEF Base, LiveLabels
  <2>2. q.limited
    BY <1>0, <1>1 DEF Timely, Divide
  <2>3. QED
    BY <1>0, <2>1, <2>2 DEF Timely, Deep
<1>3. d \in 1 .. MaxDepth
  BY <1>2, MaxDepthType
<1>4. /\ \A v \in Workers : pc'[v] = IF v = w THEN "push" ELSE pc[v]
      /\ \A v \in Workers \ {w} : parts'[v] = parts[v]
      /\ \A x \in parts'[w] : x.depth = d + 1
  <2>1. /\ parts' = [parts EXCEPT ![w] = parts'[w]]
        /\ \A x \in parts'[w] : x.depth = d + 1
    BY <1>0, DivideDepth
  <2>2. \A v \in Workers \ {w} : parts'[v] = parts[v]
    BY <1>1, <2>1
  <2>3. QED
    BY <1>1, <2>1, <2>2 DEF Goto
<1>5. ASSUME NEW x \in Undecided', x \notin parts'[w]
      PROVE  x \in Undecided /\ x # q
  <2>1. CASE x \in queue
    BY <1>0, <1>2, <2>1 DEF Undecided, Base, Places
  <2>2. CASE x \in Unpushed'
    <3>1. PICK v \in Workers \ {w} : x \in parts[v]
      BY <1>4, <1>5, <2>2 DEF Unpushed
    <3>2. QED
      BY <1>0, <1>2, <3>1 DEF Undecided, Unpushed, Base, Places
  <2>3. ASSUME NEW v \in Workers, pc'[v] \in {"solve", "judge"}, x = job'[v]
        PROVE  x \in Undecided /\ x # q
    <3>1. v # w /\ pc[v] \in {"solve", "judge"} /\ x = job[v]
      BY <1>1, <1>4, <2>3
    <3>2. v \in Live
      BY <3>1 DEF Live, LiveLabels
    <3>3. QED
      BY <1>0, <1>2, <3>1, <3>2 DEF Undecided, At, Base, Places
  <2>4. QED
    BY <1>1, <1>5, <2>1, <2>2, <2>3 DEF Undecided, At
<1>6. \A i \in 1 .. d : Splittable(i)' \subseteq Splittable(i) /\ q \notin Splittable(i)'
  <2>1. ASSUME NEW i \in 1 .. d, NEW x \in Splittable(i)'
        PROVE  x \in Splittable(i) /\ x # q
    <3>1. x \in Undecided' /\ x.limited /\ x.depth = i
      BY <2>1 DEF Splittable
    <3>2. x \notin parts'[w]
      BY <1>2, <1>4, <2>1, <3>1
    <3>3. QED
      BY <1>5, <3>1, <3>2 DEF Splittable
  <2>2. QED
    BY <2>1
<1>7. q \in Splittable(d)
  BY <1>0, <1>1, <1>2 DEF Splittable, Undecided, At
<1>8. Splittable(d)' # Splittable(d)
  <2>1. d \in 1 .. d
    BY <1>2
  <2>2. QED
    BY <1>6, <1>7, <2>1
<1>9. \A i \in 1 .. d : Splittable(i)' \subseteq Splittable(i)
  BY <1>6
<1>10. QED
  BY <1>3, <1>8, <1>9, DepthBelow

\* A part that is pushed is no longer to be pushed
LEMMA PushBelow ==
    ASSUME Base, NEW w \in Workers, Push(w), \A i \in 1 .. MaxDepth : Splittable(i)' \subseteq Splittable(i)
    PROVE  Below(Remaining', Remaining)
<1>1. PICK q \in parts[w] : parts' = [parts EXCEPT ![w] = @ \ {q}]
  BY DEF Push
<1>2. /\ parts \in [Workers -> SUBSET SubQuery]
      /\ \A v \in Workers : parts'[v] = IF v = w THEN parts[w] \ {q} ELSE parts[v]
  BY <1>1 DEF Base, TypeInv
<1>3. Unpushed' \subseteq Unpushed
  BY <1>2 DEF Unpushed
<1>4. q \in Unpushed /\ q \notin Unpushed'
  <2>1. \A v \in Workers : v # w => q \notin parts[v]
    BY <1>1 DEF Base, Places
  <2>2. QED
    BY <1>1, <1>2, <2>1 DEF Unpushed
<1>5. Later[1] = Unpushed /\ Later'[1] = Unpushed'
  BY DEF Later
<1>6. \A i \in 1 .. 1 : Later'[i] \subseteq Later[i]
  BY <1>3, <1>5
<1>7. QED
  BY <1>4, <1>5, <1>6, PlaceBelow

\* A subquery that is popped is no longer queued
LEMMA PopBelow ==
    ASSUME Base, NEW w \in Workers, Pop(w), \A i \in 1 .. MaxDepth : Splittable(i)' \subseteq Splittable(i)
    PROVE  Below(Remaining', Remaining)
<1>1. queue' \subseteq queue /\ queue' # queue /\ Unpushed' = Unpushed
  BY DEF Pop, Unpushed
<1>2. Later[1] = Unpushed /\ Later'[1] = Unpushed' /\ Later[2] = queue /\ Later'[2] = queue'
  BY DEF Later
<1>3. \A i \in 1 .. 2 : Later'[i] \subseteq Later[i]
  BY <1>1, <1>2
<1>4. 2 \in 1 .. 11
  OBVIOUS
<1>5. QED
  BY <1>1, <1>2, <1>3, <1>4, PlaceBelow

\* A thread that ends is not going any more
LEMMA GoneBelow ==
    ASSUME Base, NEW w \in Workers, Loop(w), shouldQuit, \A i \in 1 .. MaxDepth : Splittable(i)' \subseteq Splittable(i)
    PROVE  Below(Remaining', Remaining)
<1>1. pc[w] = "loop" /\ UNCHANGED <<queue, parts>> /\ \A v \in Workers : pc'[v] = IF v = w THEN "gone" ELSE pc[v]
  BY DEF Base, TypeInv, Loop, Goto, work
<1>2. InOrder /\ InOrder'
  BY LaterInOrder, PTL
<1>3. Order("loop") = 12 /\ Order("gone") = 12
  BY DEF Order
<1>4. /\ Later[1] = Unpushed /\ Later[2] = queue /\ Later[9] = Going
      /\ Later'[1] = Unpushed' /\ Later'[2] = queue' /\ Later'[9] = Going'
      /\ \A i \in 3 .. 8 : /\ Later[i] = {v \in Workers : Order(pc[v]) = i}
                           /\ Later'[i] = {v \in Workers : Order(pc'[v]) = i}
  BY <1>2 DEF InOrder
<1>5. Going' \subseteq Going /\ Going' # Going /\ Unpushed' = Unpushed
  BY <1>1 DEF Going, Unpushed
<1>6. ASSUME NEW i \in 1 .. 9
      PROVE  Later'[i] \subseteq Later[i]
  <2>1. CASE i \in 3 .. 8
    <3>1. \A v \in Workers : Order(pc'[v]) = i => Order(pc[v]) = i
      BY <1>1, <1>3, <2>1
    <3>2. QED
      BY <1>4, <2>1, <3>1
  <2>2. CASE i \in {1, 2, 9}
    BY <1>1, <1>4, <1>5, <2>2
  <2>3. QED
    BY <2>1, <2>2
<1>7. 9 \in 1 .. 11
  OBVIOUS
<1>8. QED
  BY <1>4, <1>5, <1>6, <1>7, PlaceBelow

\* A worker that is not told to stop looks for a subquery, or finds that there is none
Polls(w) == (Loop(w) /\ ~shouldQuit) \/ PopEmpty(w)

\* Every other step of a worker brings the end nearer
LEMMA WorkerFalls ==
    ASSUME Base, Timely, NEW w \in Workers, Worker(w), ~Polls(w)
    PROVE  Below(Remaining', Remaining)
<1>1. CASE Divide(w)
  BY <1>1, DivideBelow
<1>2. CASE ~Divide(w)
  <2>1. TypeInv /\ pc \in [Workers -> Labels]
    BY DEF Base, TypeInv
  <2>2. \A v \in Workers : ~Divide(v)
    <3>1. ASSUME NEW v \in Workers, Divide(v), v # w
          PROVE  FALSE
      <4>1. pc'[v] = "push" /\ pc[v] = "judge"
        BY <2>1, <3>1 DEF Divide, Goto
      <4>2. pc'[v] = pc[v]
        BY <2>1, <3>1, WorkerFrame
      <4>3. QED
        BY <4>1, <4>2
    <3>2. QED
      BY <1>2, <3>1
  <2>3. \A i \in 1 .. MaxDepth : Splittable(i)' \subseteq Splittable(i)
    BY <2>1, <2>2, UndecidedKept DEF Next
  <2>4. CASE Push(w)
    BY <2>3, <2>4, PushBelow
  <2>5. CASE Pop(w)
    BY <2>3, <2>5, PopBelow
  <2>6. CASE Loop(w) \/ PopEmpty(w)
    BY <2>3, <2>6, GoneBelow DEF Polls
  <2>7. ASSUME NEW l \in Labels, Goto(w, l), UNCHANGED <<queue, parts>>,
               Order(pc[w]) \in 3 .. 8, Order(l) > Order(pc[w])
        PROVE  Below(Remaining', Remaining)
    BY <2>1, <2>3, <2>7, WorkerBelow
  <2>8. /\ Order("solve") = 3 /\ Order("judge") = 4 /\ Order("count") = 5 /\ Order("push") = 6
        /\ Order("check") = 7 /\ Order("stop") = 8 /\ Order("loop") = 12
        /\ {"judge", "push", "check", "stop", "loop"} \subseteq Labels
    BY DEF Order, Labels
  <2>9. CASE Solve(w)
    <3>1. Goto(w, "judge") /\ UNCHANGED <<queue, parts>> /\ pc[w] = "solve"
      BY <2>9 DEF Solve, work
    <3>2. QED
      BY <2>7, <2>8, <3>1
  <2>10. CASE Refuted(w)
    <3>1. Goto(w, "check") /\ UNCHANGED <<queue, parts>> /\ pc[w] = "judge"
      BY <2>10 DEF Refuted
    <3>2. QED
      BY <2>7, <2>8, <3>1
  <2>11. CASE Count(w)
    <3>1. Goto(w, "push") /\ UNCHANGED <<queue, parts>> /\ pc[w] = "count"
      BY <2>11 DEF Count
    <3>2. QED
      BY <2>7, <2>8, <3>1
  <2>12. CASE Stop(w)
    <3>1. Goto(w, "stop") /\ UNCHANGED <<queue, parts>> /\ pc[w] = "judge"
      BY <2>12 DEF Stop
    <3>2. QED
      BY <2>7, <2>8, <3>1
  <2>13. CASE Check(w) \/ Divided(w) \/ Abandon(w) \/ Stopped(w)
    <3>1. Goto(w, "loop") /\ UNCHANGED <<queue, parts>> /\ pc[w] \in {"check", "push", "judge", "stop"}
      BY <2>13 DEF Check, Divided, Abandon, Stopped, Delete, work
    <3>2. QED
      BY <2>7, <2>8, <3>1
  <2>14. QED
    BY <1>2, <2>4, <2>5, <2>6, <2>9, <2>10, <2>11, <2>12, <2>13 DEF Worker
<1>3. QED
  BY <1>1, <1>2

\* So does every step of the manager, and a signal that an engine had not yet received
LEMMA ManagerFalls ==
    ASSUME Base, Timely, Manager \/ Signal, vars' # vars
    PROVE  Below(Remaining', Remaining)
<1>1. UNCHANGED <<queue, pc, job, parts>>
  BY DEF Manager, Signal, TimeUp, AskToQuit, Finish, work, engine, local
<1>2. \A i \in 1 .. MaxDepth : Splittable(i)' \subseteq Splittable(i)
  BY <1>1 DEF Splittable, Undecided, Unpushed, At
<1>3. InOrder /\ InOrder'
  BY LaterInOrder, PTL
<1>4. /\ \A i \in 1 .. 9 : Later'[i] \subseteq Later[i]
      /\ Later[10] = Unasked /\ Later'[10] = Unasked' /\ Later[11] = Waiting /\ Later'[11] = Waiting'
  <2>1. /\ Later[1] = Unpushed /\ Later[2] = queue /\ Later[9] = Going
        /\ Later'[1] = Unpushed' /\ Later'[2] = queue' /\ Later'[9] = Going'
        /\ \A i \in 3 .. 8 : /\ Later[i] = {v \in Workers : Order(pc[v]) = i}
                             /\ Later'[i] = {v \in Workers : Order(pc'[v]) = i}
        /\ Later[10] = Unasked /\ Later'[10] = Unasked' /\ Later[11] = Waiting /\ Later'[11] = Waiting'
    BY <1>3 DEF InOrder
  <2>2. Unpushed' = Unpushed /\ Going' = Going
    BY <1>1 DEF Unpushed, Going
  <2>3. ASSUME NEW i \in 1 .. 9
        PROVE  Later'[i] = Later[i]
    <3>1. CASE i \in 3 .. 8
      BY <1>1, <2>1, <3>1
    <3>2. CASE i \in {1, 2, 9}
      BY <1>1, <2>1, <2>2, <3>2
    <3>3. QED
      BY <3>1, <3>2
  <2>4. QED
    BY <2>1, <2>3
<1>5. ASSUME Unasked' \subseteq Unasked, Unasked' # Unasked
      PROVE  Below(Remaining', Remaining)
  <2>1. 10 \in 1 .. 11 /\ (\A i \in 1 .. 10 : Later'[i] \subseteq Later[i]) /\ Later'[10] # Later[10]
    BY <1>4, <1>5
  <2>2. QED
    BY <1>2, <2>1, PlaceBelow
<1>6. ASSUME Unasked' = Unasked, Waiting' \subseteq Waiting, Waiting' # Waiting
      PROVE  Below(Remaining', Remaining)
  <2>1. 11 \in 1 .. 11 /\ (\A i \in 1 .. 11 : Later'[i] \subseteq Later[i]) /\ Later'[11] # Later[11]
    BY <1>4, <1>6
  <2>2. QED
    BY <1>2, <2>1, PlaceBelow
<1>7. quit \in [Workers -> BOOLEAN] /\ timedOut \in BOOLEAN /\ shouldQuit \in BOOLEAN
  BY DEF Base, TypeInv
<1>8. CASE TimeUp
  <2>1. ~timedOut
    <3>1. timedOut /\ shouldQuit => vars' = vars
      BY <1>7, <1>8 DEF TimeUp, vars, work, engine, local, managerState
    <3>2. QED
      BY <3>1 DEF Timely
  <2>2. Unasked' = Unasked /\ timedOut' /\ manager' = manager
    BY <1>8 DEF TimeUp, Unasked, engine
  <2>3. Waiting' \subseteq Waiting /\ "time" \in Waiting /\ "time" \notin Waiting'
    BY <2>1, <2>2 DEF Waiting
  <2>4. QED
    BY <1>6, <2>2, <2>3
<1>9. CASE Finish
  <2>1. Unasked' = Unasked /\ timedOut' = timedOut /\ manager = "wait" /\ manager' = "done"
    BY <1>9 DEF Finish, Unasked, engine
  <2>2. Waiting' \subseteq Waiting /\ "threads" \in Waiting /\ "threads" \notin Waiting'
    BY <2>1 DEF Waiting
  <2>3. QED
    BY <1>6, <2>1, <2>2
<1>10. ASSUME NEW w \in Workers, AskToQuit(w)
       PROVE  Below(Remaining', Remaining)
  <2>1. w \in Unasked /\ w \notin Unasked' /\ Unasked' \subseteq Unasked
    BY <1>7, <1>10 DEF AskToQuit, Unasked
  <2>2. QED
    BY <1>5, <2>1
<1>11. CASE Signal
  <2>1. Unasked' \subseteq Unasked
    BY <1>11 DEF Signal, Unasked
  <2>2. quit' \in [Workers -> BOOLEAN]
    BY <1>7, <1>11 DEF Signal
  <2>3. Unasked' = Unasked => quit' = quit
    BY <1>7, <2>2 DEF Unasked
  <2>4. quit' # quit
    BY <1>11 DEF Signal, vars, work, engine, local, managerState
  <2>5. QED
    BY <1>5, <2>1, <2>3, <2>4
<1>12. QED
  BY <1>8, <1>9, <1>10, <1>11 DEF Manager

\* A worker that polls leaves as much to be done as there was
LEMMA PollStays ==
    ASSUME Base, NEW w \in Workers, Polls(w)
    PROVE  Remaining' = Remaining
<1>1. /\ UNCHANGED <<queue, job, parts, quit, managerState>>
      /\ \A v \in Workers : pc'[v] = pc[v] \/ (pc[v] \in {"loop", "pop"} /\ pc'[v] \in {"loop", "pop"})
  BY DEF Base, TypeInv, Polls, Loop, PopEmpty, Goto, work, engine
<1>2. \A l \in LiveLabels : At(l)' = At(l)
  BY <1>1 DEF At, LiveLabels
<1>3. Unpushed' = Unpushed /\ Going' = Going /\ Unasked' = Unasked /\ Waiting' = Waiting
  BY <1>1 DEF Unpushed, Going, Unasked, Waiting, managerState
<1>4. Undecided' = Undecided
  BY <1>1, <1>2, <1>3 DEF Undecided, LiveLabels
<1>5. Later' = Later
  BY <1>1, <1>2, <1>3 DEF Later, LiveLabels
<1>6. \A d : Splittable(d)' = Splittable(d)
  BY <1>4 DEF Splittable
<1>7. QED
  BY <1>5, <1>6 DEF Remaining, MaxDepth

\* No thread keeps the others from getting done: every step brings the end nearer, except
\* that of a worker that finds nothing to do, and that one takes nobody back. Whatever the
\* order of the threads, there is no cycle of subqueries popped, divided, pushed and counted
\* (DnCManager.cpp:171-320, DnCWorker.cpp:60-230).
StepsForward ==
    [][\/ Below(Remaining', Remaining)
       \/ (\E w \in Workers : Polls(w)) /\ Remaining' = Remaining]_vars

THEOREM ThreadsMoveForward == Spec => StepsForward
<1>1. Init => Timely
  BY TimelyInit
<1>2. Inv /\ Timely /\ [Next]_vars => Timely'
  BY TimelyStep DEF Inv
<1>3. Inv /\ Timely /\ [Next]_vars =>
        [\/ Below(Remaining', Remaining)
         \/ (\E w \in Workers : Polls(w)) /\ Remaining' = Remaining]_vars
  <2> SUFFICES ASSUME Inv, Timely, Next, vars' # vars
               PROVE  \/ Below(Remaining', Remaining)
                      \/ (\E w \in Workers : Polls(w)) /\ Remaining' = Remaining
    OBVIOUS
  <2>1. CASE Manager \/ Signal
    BY <2>1, ManagerFalls DEF Inv
  <2>2. ASSUME NEW w \in Workers, Worker(w)
        PROVE  Below(Remaining', Remaining) \/ (Polls(w) /\ Remaining' = Remaining)
    BY <2>2, WorkerFalls, PollStays DEF Inv
  <2>3. QED
    BY <2>1, <2>2 DEF Next
<1>4. QED
  BY <1>1, <1>2, <1>3, Invariance, PTL DEF Spec, StepsForward

\* What can be left to be done
Things == SubQuery \cup Workers \cup {"time", "threads"}

Measures == [1 .. MaxDepth + 11 -> FiniteSubsetsOf(Things)]

Falling == {pair \in Measures \X Measures : Below(pair[1], pair[2])}

\* Sequences of finite sets of one length are well-founded, first difference first
LEMMA FallingEnds == IsWellFoundedOn(Falling, Measures)
<1> DEFINE n == MaxDepth + 11
           order == LexProductOrdering(StrictSubsetOrdering(Things), FiniteSubsetsOf(Things), n)
<1>1. n \in Nat
  BY MaxDepthType
<1> HIDE DEF n
<1>2. Measures = [1 .. n -> FiniteSubsetsOf(Things)]
  BY DEF Measures, n
<1>3. IsWellFoundedOn(order, Measures)
  BY <1>1, <1>2, FS_StrictSubsetOrderingWellFounded, WFLexProductOrdering
<1>4. Falling \cap (Measures \X Measures) \subseteq order
  <2>1. SUFFICES ASSUME NEW v \in Measures, NEW w \in Measures, Below(v, w)
                 PROVE  <<v, w>> \in order
    BY DEF Falling
  <2>2. DOMAIN w = 1 .. n
    BY <1>2
  <2>3. PICK i \in 1 .. n : /\ v[i] \subseteq w[i] /\ v[i] # w[i]
                            /\ \A j \in 1 .. i - 1 : v[j] = w[j]
    BY <2>1, <2>2 DEF Below
  <2>4. v[i] \in SUBSET Things /\ w[i] \in SUBSET Things
    BY <1>2 DEF FiniteSubsetsOf
  <2>5. <<v[i], w[i]>> \in StrictSubsetOrdering(Things)
    BY <2>3, <2>4 DEF StrictSubsetOrdering
  <2>6. QED
    BY <1>2, <2>3, <2>5 DEF LexProductOrdering
<1>5. QED
  BY <1>3, <1>4, IsWellFoundedOnSubrelation

\* The values of a function on a finite set are finitely many
LEMMA FiniteImage ==
    ASSUME NEW A, IsFiniteSet(A), NEW f
    PROVE  IsFiniteSet({f[x] : x \in A})
<1> DEFINE T == {f[x] : x \in A}
           g == [x \in A |-> f[x]]
<1>1. g \in Surjection(A, T)
  BY DEF Surjection
<1> HIDE DEF T, g
<1>2. IsFiniteSet(T)
  BY <1>1, FS_Surjection
<1>3. QED
  BY <1>2 DEF T

\* What is left to be done is such a sequence
LEMMA RemainingTyped ==
    ASSUME Base, Timely
    PROVE  Remaining \in Measures
<1> DEFINE S == FiniteSubsetsOf(Things)
<1>1. ASSUME NEW A, A \subseteq Workers
      PROVE  A \in S
  BY <1>1, WorkersAreFinite, FS_Subset DEF FiniteSubsetsOf, Things
<1>2. queue \subseteq SubQuery /\ IsFiniteSet(queue)
  BY DEF Base, TypeInv
<1>3. Unpushed \subseteq SubQuery /\ IsFiniteSet(Unpushed)
  <2> DEFINE P == {parts[w] : w \in Workers}
  <2>1. IsFiniteSet(P)
    BY WorkersAreFinite, FiniteImage
  <2>2. \A A \in P : IsFiniteSet(A) /\ A \subseteq SubQuery
    BY DEF Timely, Base, TypeInv
  <2>3. IsFiniteSet(UNION P)
    <3> HIDE DEF P
    <3>1. QED
      BY <2>1, <2>2, FS_UNION
  <2>4. QED
    BY <2>2, <2>3 DEF Unpushed
<1>4. Undecided \subseteq SubQuery /\ IsFiniteSet(Undecided)
  <2> DEFINE W == At("solve") \cup At("judge")
             J == {job[w] : w \in W}
  <2>1. W \subseteq Live /\ IsFiniteSet(W)
    BY WorkersAreFinite, FS_Subset DEF At, Live, LiveLabels
  <2>2. J \subseteq SubQuery
    BY <2>1 DEF Base, TypeInv
  <2>3. IsFiniteSet(J)
    <3> HIDE DEF W
    <3>1. QED
      BY <2>1, FiniteImage
  <2>4. Undecided = (queue \cup Unpushed) \cup J
    BY DEF Undecided
  <2>5. IsFiniteSet((queue \cup Unpushed) \cup J)
    <3> HIDE DEF J
    <3>1. QED
      BY <1>2, <1>3, <2>3, FS_Union
  <2>6. QED
    BY <1>2, <1>3, <2>2, <2>4, <2>5
<1>5. \A d : Splittable(d) \in S
  <2>1. ASSUME NEW d
        PROVE  Splittable(d) \subseteq Undecided
    BY DEF Splittable
  <2>2. QED
    BY <1>4, <2>1, FS_Subset DEF FiniteSubsetsOf, Things
<1>6. queue \in S /\ Unpushed \in S
  BY <1>2, <1>3 DEF FiniteSubsetsOf, Things
<1>7. Waiting \in S
  <2>1. Waiting \subseteq {"time", "threads"}
    BY DEF Waiting
  <2>2. IsFiniteSet({"time", "threads"})
    <3>1. IsFiniteSet({} \cup {"time"})
      BY FS_EmptySet, FS_AddElement
    <3>2. IsFiniteSet(({} \cup {"time"}) \cup {"threads"})
      BY <3>1, FS_AddElement
    <3>3. ({} \cup {"time"}) \cup {"threads"} = {"time", "threads"}
      OBVIOUS
    <3>4. QED
      BY <3>2, <3>3
  <2>3. QED
    BY <2>1, <2>2, FS_Subset DEF FiniteSubsetsOf, Things
<1>8. (\A l : At(l) \in S) /\ Going \in S /\ Unasked \in S
  <2>1. (\A l : At(l) \subseteq Workers) /\ Going \subseteq Workers /\ Unasked \subseteq Workers
    BY DEF At, Going, Unasked
  <2>2. QED
    BY <1>1, <2>1
<1> HIDE DEF S
<1>9. ASSUME NEW i \in 1 .. 11
      PROVE  Later[i] \in S
  BY <1>6, <1>7, <1>8 DEF Later
<1>10. ASSUME NEW k \in 1 .. MaxDepth + 11
       PROVE  (IF k <= MaxDepth THEN Splittable(k) ELSE Later[k - MaxDepth]) \in S
  <2>1. k > MaxDepth => k - MaxDepth \in 1 .. 11
    BY MaxDepthType
  <2>2. QED
    BY <1>5, <1>9, <2>1, MaxDepthType
<1>11. QED
  BY <1>10 DEF Remaining, Measures, S

\* The threads cannot move forward for ever: what is left to be done is always a sequence of
\* finite sets of one length, and none of these is the first of an endless descent.
THEOREM NoEndlessWork ==
    (Spec => [](Remaining \in Measures)) /\ IsWellFoundedOn(Falling, Measures)
<1>1. Init => Timely
  BY TimelyInit
<1>2. Inv /\ Timely /\ [Next]_vars => Timely'
  BY TimelyStep DEF Inv
<1>3. Inv /\ Timely => Remaining \in Measures
  BY RemainingTyped DEF Inv
<1>4. Spec => [](Remaining \in Measures)
  BY <1>1, <1>2, <1>3, Invariance, PTL DEF Spec
<1>5. QED
  BY <1>4, FallingEnds
=============================================================================
