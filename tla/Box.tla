-------------------------------- MODULE Box --------------------------------
(***************************************************************************)
(* The bounds of the variables and the tightenings of them, as the         *)
(* piecewise-linear constraints read and make them.  A box maps the key    *)
(* <<v, "LB">> or <<v, "UB">> to the bound of variable v; a tightening is  *)
(* a bound proposed for a key, and a case split is a set of tightenings.   *)
(***************************************************************************)
EXTENDS Integers

Least(v, x) == [key |-> <<v, "LB">>, value |-> x]
Most(v, x) == [key |-> <<v, "UB">>, value |-> x]

\* The test of setLowerBound and of setUpperBound
Tighter(k, x, y) == IF k[2] = "LB" THEN x > y ELSE x < y

\* The tightenings of T that take effect on the bound at k
Effective(box, T, k) ==
    {t \in T : t.key = k
            /\ Tighter(k, t.value, box[k])
            /\ \A u \in T : u.key = k => ~Tighter(k, u.value, t.value)}

\* tightenLowerBound and tightenUpperBound, for each of T
Tightened(box, T) ==
    [k \in DOMAIN box |->
        IF Effective(box, T, k) = {} THEN box[k]
        ELSE (CHOOSE t \in Effective(box, T, k) : TRUE).value]

\* Point p respects a tightening, each of a set, and each bound of a box
Respects(p, t) ==
    IF t.key[2] = "LB" THEN p[t.key[1]] >= t.value ELSE p[t.key[1]] <= t.value
Meets(p, T) == \A t \in T : Respects(p, t)
Inside(p, box) == \A k \in DOMAIN box : Respects(p, [key |-> k, value |-> box[k]])
=============================================================================
