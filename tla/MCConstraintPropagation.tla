---------------------- MODULE MCConstraintPropagation ----------------------
(***************************************************************************)
(* TLC instances of ConstraintPropagation: one query per kind of           *)
(* constraint, four of them with constraints that share variables; in the  *)
(* last the maximum raises the lower bound of its output while it is told  *)
(* of it, and then gives up the element the new bound came from.          *)
(***************************************************************************)
EXTENDS ConstraintPropagation, TLC

MCBounds == -2 .. 4

\* The box with the bounds given for each variable in turn
BoxOf(lower, upper) ==
    [k \in (0 .. Len(lower) - 1) \X {"LB", "UB"} |->
        IF k[2] = "LB" THEN lower[k[1] + 1] ELSE upper[k[1] + 1]]

TheRelu == [kind |-> "relu", b |-> 0, f |-> 1, aux |-> 2]
TheLeaky == [kind |-> "leaky", k |-> 2, b |-> 0, f |-> 1, activeAux |-> 2, inactiveAux |-> 3]
TheSign == [kind |-> "sign", b |-> 0, f |-> 3]
LeakySign == [kind |-> "sign", b |-> 1, f |-> 4]
TheAbs == [kind |-> "abs", b |-> 0, f |-> 1, posAux |-> 2, negAux |-> 3]
TheMax == [kind |-> "max", f |-> 0, elements |-> {1, 2}, aux |-> (1 :> 3) @@ (2 :> 4),
           maxValueOfEliminated |-> 0]
ThePool == [kind |-> "max", f |-> 3, elements |-> {1}, aux |-> (1 :> 4),
            maxValueOfEliminated |-> 0]
TheChoice == [kind |-> "max", f |-> 3, elements |-> {0, 5}, aux |-> (0 :> 4) @@ (5 :> 6),
              maxValueOfEliminated |-> -2]
TheDisj == [kind |-> "disj", disjuncts |->
    {{Most(0, -1)}, {Least(0, 0), Most(1, 1)}, {Least(1, 1)}}]

\* The points on the grid that satisfy the equations of the constraints
Grid == -2 .. 2
At(values) == [v \in 0 .. Len(values) - 1 |-> values[v + 1]]
ReluPoints == {At(<<b, f, f - b>>) : b \in Grid, f \in Grid}
SignPoints == {At(<<b, f, f - b, s>>) : b \in Grid, f \in Grid, s \in -1 .. 1}
LeakyPoints ==
    {At(<<b, f, f - b, f - b \div 2, s>>) : b \in {-2, 0, 2}, f \in Grid, s \in {-1, 1}}
AbsPoints == {At(<<b, f, f - b, f + b>>) : b \in Grid, f \in Grid}
MaxPoints == {At(<<f, d, e, f - d, f - e>>) : f \in -1 .. 1, d \in -1 .. 1, e \in -1 .. 1}
PoolPoints == {At(<<b, f, f - b, m, m - f>>) : b \in Grid, f \in 0 .. 2, m \in 0 .. 2}

MCQueries == {
    [n |-> 4, constraints |-> <<TheRelu, TheSign>>, points |-> SignPoints,
     boxes |-> {BoxOf(<<-2, l, 0, -1>>, <<2, 2, 2, 1>>) : l \in {-2, 0}}],
    [n |-> 5, constraints |-> <<TheLeaky, LeakySign>>, points |-> LeakyPoints,
     boxes |-> {BoxOf(<<-2, -1, 0, 0, -1>>, <<2, 2, 2, 2, 1>>)}],
    [n |-> 4, constraints |-> <<TheAbs>>, points |-> AbsPoints,
     boxes |-> {BoxOf(<<-2, l, 0, 0>>, <<u, 2, 4, 4>>) : l \in {0, 1}, u \in {1, 2}}],
    [n |-> 5, constraints |-> <<TheMax>>, points |-> MaxPoints,
     boxes |-> {BoxOf(<<l, -1, -1, 0, 0>>, <<1, 1, 1, 2, 2>>) : l \in {-1, 0}}],
    [n |-> 3, constraints |-> <<TheDisj, TheRelu>>, points |-> ReluPoints,
     boxes |-> {BoxOf(<<-2, 0, 0>>, <<2, 2, 2>>)}],
    [n |-> 5, constraints |-> <<TheRelu, ThePool>>, points |-> PoolPoints,
     boxes |-> {BoxOf(<<-2, 0, 0, 0, 0>>, <<2, 2, 2, 2, 2>>)}],
    [n |-> 7, constraints |-> <<TheRelu, TheChoice>>, points |-> {At(<<0, 0, 0, 1, 1, 1, 0>>)},
     boxes |-> {BoxOf(<<-2, 0, 0, -1, 0, -1, 0>>, <<1, 1, 2, 1, 3, 1, 2>>)}]}
=============================================================================
