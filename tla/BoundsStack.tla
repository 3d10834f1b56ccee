----------------------------- MODULE BoundsStack -----------------------------
(***************************************************************************)
(* What the engine expects of its bounds while it searches: a current box  *)
(* (a lower and an upper bound per variable), and one saved box per open   *)
(* scope.  Within a scope the box only narrows; going back to a scope      *)
(* brings back exactly the box that was current when it was opened.        *)
(***************************************************************************)
EXTENDS Integers, Sequences

CONSTANTS
    Keys,       \* the bounds: pairs <<variable, "LB">> and <<variable, "UB">>
    Bounds      \* their values

VARIABLES
    box,        \* the current bounds
    boxes       \* the bounds at the opening of each scope, outermost first

vars == <<box, boxes>>

\* x is at least as tight as y, as a bound of key k
AtLeast(k, x, y) == IF k[2] = "LB" THEN x >= y ELSE x <= y

Narrower(b, c) == \A k \in Keys : AtLeast(k, b[k], c[k])
-----------------------------------------------------------------------------
Init ==
    /\ box \in [Keys -> Bounds]
    /\ boxes = <<>>

Narrow ==
    /\ box' \in [Keys -> Bounds]
    /\ Narrower(box', box)
    /\ UNCHANGED boxes

Enter ==
    /\ boxes' = Append(boxes, box)
    /\ UNCHANGED box

\* Try another alternative in scope s: leave it, and enter it again
Backtrack(s) ==
    /\ box' = boxes[s]
    /\ boxes' = SubSeq(boxes, 1, s)

\* Close scope s and every scope opened in it
Leave(s) ==
    /\ box' = boxes[s]
    /\ boxes' = SubSeq(boxes, 1, s - 1)

Next ==
    \/ Narrow
    \/ Enter
    \/ \E s \in DOMAIN boxes : Backtrack(s) \/ Leave(s)

Spec == Init /\ [][Next]_vars
=============================================================================
