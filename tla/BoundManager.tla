---------------------------- MODULE BoundManager ----------------------------
(***************************************************************************)
(* The bounds of the variables (engine/BoundManager) as the engine uses    *)
(* them during a search.  The local arrays are plain memory; what is       *)
(* backtracked by the context is a copy of them, written by                *)
(* storeLocalBounds just before a push and read back by restoreLocalBounds *)
(* just after a pop, and the flag _consistentBounds.  Nothing but the      *)
(* order of the engine's calls keeps the three in step.                    *)
(*                                                                         *)
(* The two arrays are one function on keys <<variable, type>>.  The        *)
(* tightened flags are the subject of module BoundPropagation.             *)
(***************************************************************************)
EXTENDS Integers, Sequences

CONSTANTS
    Variables,  \* the registered variables
    Bounds,     \* what a bound may be; the extremes stand for the infinities
    Tolerance,  \* FloatUtils: how far a lower bound may exceed an upper one
    SnC,        \* Engine::_sncMode: every search starts from a DnC subquery
    MaxLevel    \* bound: open scopes

ASSUME BoundsAreNumbers == Bounds \subseteq Int
ASSUME ToleranceIsANumber == Tolerance \in Int
ASSUME SnCIsBoolean == SnC \in BOOLEAN
ASSUME MaxLevelIsPositive == MaxLevel \in Nat \ {0}

Types == {"LB", "UB"}
Keys == Variables \X Types
Boxes == [Keys -> Bounds]

NoKey == <<>>   \* _firstInconsistentTightening before any conflict

VARIABLES
    bound,      \* _lowerBounds and _upperBounds
    stored,     \* _storedLowerBounds and _storedUpperBounds
    consistent, \* _consistentBounds
    first,      \* the key of _firstInconsistentTightening
    saved,      \* what the context brings back, one record per open scope
    synced      \* the local arrays belong to the current scope

vars == <<bound, stored, consistent, first, saved, synced>>

Level == Len(saved)

\* The level the search itself never pops: that of the SnC split
BaseLevel == IF SnC THEN 1 ELSE 0

Tighter(k, x, y) == IF k[2] = "LB" THEN x > y ELSE x < y

\* consistentBounds(variable), with the tolerance of FloatUtils::gte
ConsistentIn(b, v) == b[<<v, "UB">>] + Tolerance >= b[<<v, "LB">>]
ConsistentBox(b) == \A v \in Variables : ConsistentIn(b, v)

Snapshot == [stored |-> stored, consistent |-> consistent]
-----------------------------------------------------------------------------
\* The bounds of the query are set on fresh arrays, then stored at level 0
Init ==
    /\ bound \in Boxes
    /\ stored = bound
    /\ consistent = ConsistentBox(bound)
    /\ first \in IF consistent THEN {NoKey}
                 ELSE {<<v, "UB">> : v \in {w \in Variables : ~ConsistentIn(bound, w)}}
    /\ saved = <<>>
    /\ synced = TRUE

\* Mutant of Record: a later conflict replaces the first one
RecordLast(k, ok) ==
    /\ consistent' = (consistent /\ ok)
    /\ first' = IF ~ok THEN k ELSE first

\* Mutant of Record: the flag is lowered, the tightening not remembered
RecordFlagOnly(k, ok) ==
    /\ consistent' = (consistent /\ ok)
    /\ UNCHANGED first

\* recordInconsistentBound, when the bound just set is in conflict
Record(k, ok) ==
    /\ consistent' = (consistent /\ ok)
    /\ first' = IF consistent /\ ~ok THEN k ELSE first

\* Mutant of SetBound: upper bounds are not checked against the lower ones
SetBoundUnchecked(k, x) ==
    /\ Tighter(k, x, bound[k])
    /\ bound' = [bound EXCEPT ![k] = x]
    /\ Record(k, k[2] = "UB" \/ ConsistentIn(bound', k[1]))

\* Mutant of SetBound: the new value is not compared with the old one
SetBoundAlways(k, x) ==
    /\ bound' = [bound EXCEPT ![k] = x]
    /\ Record(k, ConsistentIn(bound', k[1]))

\* setLowerBound and setUpperBound; a value no tighter changes nothing
SetBound(k, x) ==
    /\ Tighter(k, x, bound[k])
    /\ bound' = [bound EXCEPT ![k] = x]
    /\ Record(k, ConsistentIn(bound', k[1]))

\* A deduction, or a case split, tightens a bound
Tighten ==
    /\ synced
    /\ Level >= BaseLevel
    /\ \E k \in Keys, x \in Bounds : SetBound(k, x)
    /\ UNCHANGED <<stored, saved, synced>>

\* preContextPushHook, then the push of the context
Push ==
    /\ stored' = bound
    /\ saved' = Append(saved, [stored |-> bound, consistent |-> consistent])
    /\ UNCHANGED <<bound, consistent, first, synced>>

PerformSplit ==
    /\ synced
    /\ Level \in BaseLevel .. MaxLevel - 1
    /\ Push

\* Pop every scope from s on: the context-dependent values, not the arrays
PopScopes(s) ==
    /\ stored' = saved[s].stored
    /\ consistent' = saved[s].consistent

\* Mutant of PopSplit: the pop is not followed by the hook
PopSplitWithoutHook(s) ==
    /\ synced
    /\ s > BaseLevel
    /\ PopScopes(s)
    /\ saved' = SubSeq(saved, 1, s)
    /\ UNCHANGED <<bound, first, synced>>

\* One round of SmtCore::popSplit that finds an alternative in scope s: pops,
\* postContextPopHook, preContextPushHook and the push of the alternative
PopSplit(s) ==
    /\ synced
    /\ s > BaseLevel
    /\ PopScopes(s)
    /\ bound' = stored'
    /\ saved' = SubSeq(saved, 1, s)
    /\ UNCHANGED <<first, synced>>

\* popSplit finds no alternative: every split is popped, and no hook runs
PopSplitFails ==
    /\ synced
    /\ Level > BaseLevel
    /\ PopScopes(BaseLevel + 1)
    /\ saved' = SubSeq(saved, 1, BaseLevel)
    /\ synced' = FALSE
    /\ UNCHANGED <<bound, first>>

\* DnCWorker: Engine::reset pops to level 0 and runs the hook, applySnCSplit
\* stores and pushes; the engine may have been left in any state
StartSubQuery ==
    /\ SnC
    /\ LET root == IF saved = <<>> THEN Snapshot ELSE saved[1] IN
        /\ stored' = root.stored
        /\ bound' = root.stored
        /\ consistent' = root.consistent
        /\ saved' = <<root>>
    /\ synced' = TRUE
    /\ UNCHANGED first

\* Mutant of Retighten: the upper bounds are not brought back
RetightenLower(b, c) == [k \in Keys |-> IF k[2] = "LB" /\ Tighter(k, b[k], c[k]) THEN b[k] ELSE c[k]]

\* tightenUpperBoundNaively and tightenLowerBoundNaively of every variable
Retighten(b, c) == [k \in Keys |-> IF Tighter(k, b[k], c[k]) THEN b[k] ELSE c[k]]

\* PrecisionRestorer::restorePrecision: back up the bounds, run the pop hook
\* although nothing was popped, tighten to the backup
RestorePrecision ==
    /\ synced
    /\ Level >= BaseLevel
    /\ bound' = Retighten(bound, stored)
    /\ consistent' = (consistent /\ ConsistentBox(bound'))
    /\ IF consistent /\ ~consistent'
       THEN first' \in {k \in Keys : ~ConsistentIn(bound', k[1])}
       ELSE first' = first
    /\ UNCHANGED <<stored, saved, synced>>

Next ==
    \/ Tighten
    \/ PerformSplit
    \/ \E s \in DOMAIN saved : PopSplit(s)
    \/ PopSplitFails
    \/ StartSubQuery
    \/ RestorePrecision

Spec == Init /\ [][Next]_vars
-----------------------------------------------------------------------------
TypeOK ==
    /\ bound \in Boxes
    /\ stored \in Boxes
    /\ consistent \in BOOLEAN
    /\ first \in Keys \cup {NoKey}
    /\ consistent \/ first # NoKey
    /\ saved \in Seq([stored : Boxes, consistent : BOOLEAN])
    /\ Level <= MaxLevel
    /\ synced \in BOOLEAN

\* The flag that popSplit and the main loop read instead of the bounds says
\* whether the bounds of some variable cross, in every scope, whatever was
\* pushed, popped or restored before: a conflict is neither missed nor
\* remembered from a branch that was left.
FlagExact ==
    /\ consistent <=> ConsistentBox(IF synced THEN bound ELSE stored)
    /\ \A i \in DOMAIN saved : saved[i].consistent <=> ConsistentBox(saved[i].stored)

\* The variable that getInconsistentVariable blames, the start of every
\* explanation of a conflict, really has crossing bounds; the variable is not
\* backtracked, the flag and the bounds are.
BlamedVariableCrosses ==
    synced /\ ~consistent => first # NoKey /\ ~ConsistentIn(bound, first[1])

\* What the scopes hold is nested: the local bounds are at least as tight as
\* the stored ones, and those as the ones stored in every scope below.
ScopesNested ==
    LET Narrower(b, c) == \A k \in Keys : ~Tighter(k, c[k], b[k]) IN
    /\ Narrower(bound, stored)
    /\ \A i \in DOMAIN saved : Narrower(stored, saved[i].stored)
    /\ \A i, j \in DOMAIN saved : i <= j => Narrower(saved[j].stored, saved[i].stored)

\* A restoration of the basis, which overwrites the bounds with those of the
\* scope's opening on its way, ends with the bounds it found, no tighter and
\* no looser, and with the same verdict on them.
RestorationKeepsBounds ==
    [][RestorePrecision => UNCHANGED <<bound, consistent>>]_vars

\* The bounds behave like a stack of boxes: a scope only narrows them, and
\* backtracking brings back the box of the scope's opening.
Stack == INSTANCE BoundsStack
    WITH box <- IF synced THEN bound ELSE stored,
         boxes <- [i \in DOMAIN saved |-> saved[i].stored]

ImplementsBoundsStack == Stack!Spec
=============================================================================
