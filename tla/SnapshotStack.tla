---------------------------- MODULE SnapshotStack ----------------------------
(***************************************************************************)
(* What the context library promises its clients (SmtCore, BoundManager,   *)
(* the piecewise-linear constraints, the input query): a Push remembers    *)
(* the value of every context-dependent object, a Pop brings all of them   *)
(* back.  An object may be created while the context is already pushed;    *)
(* below the level of its creation it has the default value of its type.   *)
(* The library never copies all objects; module Context is the lazy        *)
(* implementation it really uses.                                          *)
(***************************************************************************)
EXTENDS Naturals, Sequences

CONSTANTS
    Cells,      \* the objects of type CDO<T>
    Lists,      \* the objects of type CDList<T>
    Values,     \* what a cell, or one entry of a list, may hold
    Default,    \* T(), the value of a cell before its first assignment
    Absent      \* stands for an object that is not alive

Objects == Cells \cup Lists

\* What a constructor leaves in the object
Fresh(o) == IF o \in Cells THEN Default ELSE <<>>

Contents(o) == IF o \in Cells THEN Values ELSE Seq(Values)

VARIABLES
    cur,    \* the value every object has now
    snaps   \* one snapshot of all objects per open scope, oldest first

vars == <<cur, snaps>>

Live == {o \in Objects : cur[o] # Absent}

\* Replace the value of o in every snapshot
Overwrite(o, v) == [i \in DOMAIN snaps |-> [snaps[i] EXCEPT ![o] = v]]
-----------------------------------------------------------------------------
Init ==
    /\ cur = [o \in Objects |-> Absent]
    /\ snaps = <<>>

\* The object o, and no other, takes some new value
Assigned(o) ==
    /\ cur'[o] \in Contents(o)
    /\ cur' = [cur EXCEPT ![o] = cur'[o]]

Create(o) ==
    /\ o \notin Live
    /\ Assigned(o)
    /\ snaps' = Overwrite(o, Fresh(o))

Write(o) ==
    /\ o \in Live
    /\ Assigned(o)
    /\ UNCHANGED snaps

Destroy(o) ==
    /\ o \in Live
    /\ cur' = [cur EXCEPT ![o] = Absent]
    /\ snaps' = Overwrite(o, Absent)

Push ==
    /\ snaps' = Append(snaps, cur)
    /\ UNCHANGED cur

Pop ==
    /\ snaps # <<>>
    /\ cur' = snaps[Len(snaps)]
    /\ snaps' = SubSeq(snaps, 1, Len(snaps) - 1)

Next ==
    \/ \E o \in Objects : Create(o) \/ Write(o) \/ Destroy(o)
    \/ Push
    \/ Pop

Spec == Init /\ [][Next]_vars
=============================================================================
