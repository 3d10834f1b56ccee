--------------------------- MODULE MCPreprocessor ---------------------------
(****************************************************************************)
(* Queries with an input X, a hidden B, a constraint from B (and W) to F    *)
(* and an output Y; their numbering, the equations, the bounds and the kind *)
(* of the constraint vary.  Clip constraints and chains of expressions.     *)
(****************************************************************************)
EXTENDS MCNetwork    \* for its variable
LOCAL INSTANCE Preprocessor
LOCAL INSTANCE TLC
LOCAL INSTANCE Sequences
LOCAL INSTANCE FiniteSets

\* 1000 in the code; these queries are saturated after 7.
LOCAL Rounds == 12

LOCAL Kinds == {"relu", "abs", "sign", "round", "max", "disj"}

\* The numbers of X, B, F, Y and W: as they are computed, and with F before B.
LOCAL Numberings == {<<0, 1, 2, 3, 4>>, <<0, 3, 2, 4, 1>>}

LOCAL ConstraintOf(kind, b, f, w) ==
  CASE kind = "relu" -> [kind |-> kind, obsolete |-> FALSE, b |-> b, f |-> f, aux |-> None, state |-> <<>>]
    [] kind = "abs" -> [kind |-> kind, obsolete |-> FALSE, b |-> b, f |-> f, posAux |-> None, negAux |-> None, state |-> <<>>]
    [] kind = "sign" -> [kind |-> kind, obsolete |-> FALSE, b |-> b, f |-> f, state |-> <<>>]
    [] kind = "round" -> [kind |-> kind, obsolete |-> FALSE, b |-> b, f |-> f, whole |-> 2, state |-> <<>>]
    [] kind = "max" -> [kind |-> kind, obsolete |-> FALSE, f |-> f, elements |-> {b, w}, aux |-> <<>>, maxValueOfEliminated |-> -Inf,
                        state |-> [active |-> TRUE, elements |-> {b, w}, maxLowerBound |-> -Inf, haveEliminated |-> FALSE]]
    [] kind = "disj" -> LET D == {{Most(b, -1), Most(f, 0)}, {Least(b, 0), Most(b, 1)}, {Least(b, 2), Least(f, 1)}}
                        IN  [kind |-> kind, obsolete |-> FALSE, disjuncts |-> D, state |-> [active |-> TRUE, feasible |-> D]]

LOCAL Eq(type, addends, scalar) == [type |-> type, addends |-> addends, scalar |-> scalar]

\* What W is to B, and the inequality, if there is one.
LOCAL LinksOf(kind) == {"same", IF kind = "max" THEN "twice" ELSE "unused"}
LOCAL Inequalities(v) == {<<>>, <<Eq("GE", <<<<1, v[4]>>>>, 3)>>, <<Eq("LE", <<<<2, v[1]>>, <<1, v[3]>>>>, 1)>>}
LOCAL FBounds == {<<-Inf, Inf>>, <<2, 2>>, <<0, 0>>, <<-3, 1>>}

LOCAL QueryOf(kind, v, link, ineq, slope, offset, x, f) ==
  LET wEq == CASE link = "same" -> <<Eq("EQ", <<<<1, v[5]>>, <<-1, v[2]>>>>, 0)>>
               [] link = "twice" -> <<Eq("EQ", <<<<1, v[5]>>, <<-2, v[1]>>>>, -1)>>
               [] link = "unused" -> <<>>
      named(n) == CHOOSE k \in 1..5 : v[k] = n
      bounds == <<x, <<-Inf, Inf>>, f, <<-8, 8>>, <<-Inf, Inf>>>>
      read == IF link = "same" /\ kind /= "max" THEN v[5] ELSE v[2]
  IN  [n |-> 5, inputs |-> <<v[1]>>, outputs |-> <<v[4]>>,
       eqs |-> wEq \o <<Eq("EQ", <<<<1, v[2]>>, <<-slope, v[1]>>>>, offset), Eq("EQ", <<<<1, v[3]>>, <<1, v[1]>>, <<-1, v[4]>>>>, 1)>> \o ineq,
       cons |-> <<ConstraintOf(kind, read, v[3], v[5])>>,
       box |-> [k \in (0..4) \X {"LB", "UB"} |-> bounds[named(k[1])][IF k[2] = "LB" THEN 1 ELSE 2]]]

\* A = B and C = D, which a third equation says again; B and D are read by the last.
LOCAL Repeated(x) ==
  LET eqs == <<<<<<1, 1>>, <<-1, 2>>>>, <<<<1, 3>>, <<-1, 4>>>>, <<<<1, 1>>, <<-1, 2>>, <<x, 3>>, <<-x, 4>>>>, <<<<1, 2>>, <<1, 4>>, <<-1, 5>>>>>>
  IN  [n |-> 6, inputs |-> <<0>>, outputs |-> <<5>>, cons |-> <<>>, eqs |-> [i \in 1..4 |-> Eq("EQ", eqs[i], 0)],
       box |-> [k \in (0..5) \X {"LB", "UB"} |-> CASE k[2] = "LB" -> 0 [] k[1] = 5 -> 2 [] OTHER -> 1]]

\* The points that satisfy the equations, and those next to them.
LOCAL PointsOf(v, link, slope, offset) ==
  {<<>> @@ [k \in 0..4 |-> LET n == CHOOSE m \in 1..5 : v[m] = k
                   IN  CASE n = 1 -> x [] n = 2 -> slope * x + offset + d [] n = 3 -> f [] n = 4 -> x + f - 1 + e
                         [] n = 5 -> CASE link = "same" -> slope * x + offset + d [] link = "twice" -> 2 * x - 1 + e [] link = "unused" -> 5]
     : x \in -2..2, f \in -2..4, d \in {0, 1}, e \in {-1, 0}}

LOCAL InBox(p, box) == \A k \in DOMAIN box : IF k[2] = "LB" THEN box[k] <= p[k[1]] ELSE p[k[1]] <= box[k]
LOCAL Solves(q, p) ==
  /\ InBox(p, q.box)
  /\ \A i \in DOMAIN q.eqs : EqHolds(q.eqs[i], p)
  /\ \A i \in DOMAIN q.cons : ConHolds(q.cons[i], p)

\* The auxiliary variables have the values their equations give them: [own, rest, scalar].
LOCAL Definitions(whole, n) ==
  [v \in n .. whole.n - 1 |->
     LET eq == whole.eqs[CHOOSE j \in DOMAIN whole.eqs : v \in EqVariables(whole.eqs[j])]
     IN  [own |-> SelectSeq(eq.addends, LAMBDA a : a[2] = v)[1][1], scalar |-> eq.scalar,
          rest |-> [addends |-> SelectSeq(eq.addends, LAMBDA a : a[2] /= v)]]] @@ <<>>
LOCAL Extended(def, p) == [v \in DOMAIN def |-> def[v].own * (def[v].scalar - SumAt(def[v].rest, p))] @@ p

\* The points that survive, their unused variables as chosen, in the preprocessed query, and
\* what the solution found there is mapped back to.
LOCAL Survivors(pp, q, points) ==
  LET def == Definitions(pp.whole, q.n)
      old == [k \in 0 .. pp.query.n - 1 |-> CHOOSE v \in DOMAIN pp.new : pp.new[v] = k] @@ <<>>
      chosen == [v \in pp.unused |-> pp.fixed[v]] @@ <<>>
      survives(e) == /\ \A v \in DOMAIN pp.fixed : e[v] = pp.fixed[v]
                     /\ \A v \in DOMAIN pp.merged : e[v] = e[pp.merged[v]]
      image(p) == LET e == chosen @@ Extended(def, p)
                  IN  IF survives(e) THEN [k \in DOMAIN old |-> e[old[k]]] @@ <<>> ELSE <<>>
      back(i) == [v \in 0 .. q.n - 1 |-> ExtractSolution(pp, i, v)] @@ <<>>
      images == {[p |-> p, i |-> image(p)] : p \in points}
  IN  {[p |-> r.p, back |-> back(r.i)] : r \in {s \in images : s.i /= <<>> /\ Solves(pp.query, s.i)}}

LOCAL Expression(c, seq) == [addends |-> seq, constant |-> c]
LOCAL Chains ==
  {4 :> Expression(1, <<<<2, a>>, <<-1, 0>>>>) @@ 5 :> Expression(c, <<<<1, b>>, <<3, 1>>>>) @@ 3 :> Expression(0, <<<<-1, d>>>>)
     : a \in {1, 3, 5}, b \in {0, 3, 4}, c \in {0, 2}, d \in {1, 4, 5, 7}}

PreprocessorStarts == {[kind |-> "preprocess", con |-> k, v |-> v] : k \in Kinds, v \in Numberings} \cup {[kind |-> k] : k \in {"reconstruct", "clip", "identical"}}

LOCAL Inputs ==
  IF job.kind = "identical"
    THEN {[kind |-> "identified", q |-> Repeated(x), points |-> [0..5 -> 0..2]] : x \in {1, 2}}
    ELSE {[kind |-> "preprocessed", q |-> QueryOf(job.con, job.v, link, ineq, slope, offset, x, f),
           points |-> PointsOf(job.v, link, slope, offset)]
            : link \in LinksOf(job.con), ineq \in Inequalities(job.v), slope \in {-1, 2}, offset \in {0, 1},
              x \in {<<-2, 2>>, <<1, 2>>}, f \in FBounds}

PreprocessorJob ==
  \/ /\ job.kind \in {"preprocess", "identical"}
     /\ \E i \in Inputs, attempt \in BOOLEAN :
        \E pp \in {Preprocess(i.q, attempt, Rounds)} :
          job' = [kind |-> i.kind, q |-> i.q, pp |-> pp, sols |-> {p \in i.points : Solves(i.q, p)},
                  left |-> IF pp.infeasible \/ i.kind = "identified" THEN {} ELSE Survivors(pp, i.q, i.points)]
  \/ /\ job.kind = "reconstruct"
     /\ \E chain \in Chains, removed \in SUBSET {3, 4, 5} :
          LET at == [v \in removed |-> chain[v]]
              known == [v \in 0..5 \ removed |-> v * v - 3]
          IN  job' = [kind |-> "reconstructed", at |-> at, known |-> known, p |-> SetSolutionValues(at, known)]
  \/ /\ job.kind = "clip"
     /\ \E floor \in -2..1, ceiling \in -1..3 :
          job' = [kind |-> "clipped", floor |-> floor, ceiling |-> ceiling,
                  q |-> AddClipConstraint([n |-> 2, eqs |-> <<>>, cons |-> <<>>, box |-> <<>>, inputs |-> <<0>>, outputs |-> <<1>>],
                                          0, 1, floor, ceiling)]

----------------------------------------------------------------------------
\* The preprocessor loses no solution: each survives the tightening, the merging, the
\* elimination and the renumbering, and a query called infeasible has none
\* (Preprocessor::preprocess, :61-180).  Excepted are the queries of ConstraintsRenumbered.
SolutionsSurvive ==
  job.kind = "preprocessed" =>
    /\ job.pp.infeasible => job.sols = {}
    /\ ~job.pp.infeasible /\ ~job.pp.collides => job.sols \subseteq {r.p : r \in job.left}

\* A constraint is discarded because F is fixed, while its inputs are open: only for relu
\* and sign do the bounds of the inputs say what the constraint said.
LOCAL DiscardedOpen ==
  \E i \in DOMAIN job.q.cons :
    /\ job.q.cons[i].kind \in {"abs", "round", "max"}
    /\ job.q.cons[i].f \in DOMAIN job.pp.fixed

\* The preprocessor gains no solution: one of the preprocessed query, mapped back, solves
\* the original query (Engine::extractSolution, :1706-1754).  The
\* sign constraint is taken up to its border.  See DiscardedOpen for the exception.
LOCAL Border(c, p) == c.kind = "sign" /\ p[c.b] = 0 /\ p[c.f] = -1
NothingGained ==
  job.kind = "preprocessed" /\ ~job.pp.infeasible /\ ~(job.pp.collides \/ DiscardedOpen) =>
      \A r \in job.left :
        Solves(job.q, r.back) \/ \E i \in DOMAIN job.q.cons : Border(job.q.cons[i], r.back)

\* The renumbering leaves every constraint on the variables it was on: the precondition
\* asserted by updateVariableIndex (ReluConstraint.cpp:720-722).
ConstraintsRenumbered ==
  job.kind = "preprocessed" /\ ~job.pp.infeasible => ~job.pp.collides

\* Only variables that are equal in every solution are merged: "If two variables are known
\* to be identical, merge them" (Query.h:98; Preprocessor::processIdenticalVariables).
IdenticalMerged ==
  job.kind = "identified" => \A p \in job.sols, v \in DOMAIN job.pp.merged : p[v] = p[job.pp.merged[v]]

\* The removed neurons get the values of their expressions, whatever their order, and one
\* is left without only if expressions read each other in a cycle or read no variable.
ReconstructionComplete ==
  job.kind = "reconstructed" =>
    LET reads(v) == {job.at[v].addends[i][2] : i \in DOMAIN job.at[v].addends}
        missing == DOMAIN job.at \ DOMAIN job.p
    IN  /\ \A v \in DOMAIN job.at \ missing : job.p[v] = job.at[v].constant + SumAt(job.at[v], job.p)
        /\ \A v \in missing : reads(v) \cap missing /= {} \/ ~(reads(v) \subseteq 0..5)

\* Query::addClipConstraint (:220-266): the auxiliary variables can be chosen in one way,
\* and then f is b clipped, if floor <= ceiling.
ClipClips ==
  job.kind = "clipped" =>
    \A b \in -4..4, f \in -3..4 :
      LET r1 == IF b > job.floor THEN b - job.floor ELSE 0
          a3 == job.ceiling - job.floor - r1
          p == (0 :> b) @@ (1 :> f) @@ (2 :> b - job.floor) @@ (3 :> r1) @@ (4 :> a3) @@ (5 :> IF a3 > 0 THEN a3 ELSE 0)
          low == IF b < job.floor THEN job.floor ELSE b
      IN  Solves(job.q, p) <=> f = IF low > job.ceiling THEN job.ceiling ELSE low
\* The preprocessed query has a solution for every solution of the query, and every
\* solution of it comes back as one of the query (Preprocessor.cpp:60-160, 1017-1142).
PreprocessingExact ==
  /\ SolutionsSurvive
  /\ NothingGained
  /\ ReconstructionComplete
  /\ ClipClips
=============================================================================
