------------------------------- MODULE Context -------------------------------
(***************************************************************************)
(* The context library (deps/CVC4/context): a stack of scopes and objects  *)
(* whose value is saved lazily, on the first write in a scope, and         *)
(* restored when that scope is popped.  The scopes' intrusive lists are    *)
(* modelled by the set of objects that have a node (themselves, or one of  *)
(* their saved copies) linked in each scope.                               *)
(***************************************************************************)
EXTENDS Naturals, Sequences

CONSTANTS
    Cells,      \* the objects of type CDO<T>
    Lists,      \* the objects of type CDList<T>
    Values,     \* what a cell, or one entry of a list, may hold
    Default,    \* T()
    Absent,     \* stands for an object that is not alive
    MaxLevel,   \* bound: scopes pushed at a time
    MaxLen      \* bound: entries of a list

ASSUME BoundsAreNaturals == MaxLevel \in Nat /\ MaxLen \in Nat
ASSUME CellsAndListsDiffer == Cells \cap Lists = {}
ASSUME DefaultIsAValue == Default \in Values
ASSUME AbsentIsNoValue == Absent \notin Values /\ Absent \notin Seq(Values)

Objects == Cells \cup Lists

VARIABLES
    level,      \* getLevel(): the index of the top scope
    alive,      \* the objects constructed and not destroyed
    data,       \* d_data of a cell, the entries of a list
    scope,      \* d_pScope
    restore,    \* the chain of d_pContextObjRestore, oldest saved copy first
    chain       \* chain[l]: objects with a node in scope l's list

vars == <<level, alive, data, scope, restore, chain>>

Fresh(o) == IF o \in Cells THEN Default ELSE <<>>

\* What save() copies: the value of a cell, only the size of a list
SavedOf(o, d) == IF o \in Cells THEN d ELSE Len(d)

\* Mutant of RestoredFrom: a list is emptied, not truncated to the saved size
RestoredEmpty(o, d, s) == IF o \in Cells THEN s ELSE <<>>

\* What restore() leaves in the object: a list is truncated
RestoredFrom(o, d, s) == IF o \in Cells THEN s ELSE SubSeq(d, 1, s)

Last(s) == s[Len(s)]
Front(s) == SubSeq(s, 1, Len(s) - 1)
-----------------------------------------------------------------------------
Init ==
    /\ level = 0
    /\ alive = {}
    /\ data = [o \in Objects |-> Fresh(o)]
    /\ scope = [o \in Objects |-> 0]
    /\ restore = [o \in Objects |-> <<>>]
    /\ chain = [l \in 0 .. MaxLevel |-> {}]

\* Mutant of Write: update() forgets to move the object to the top scope
WriteWithoutMove(o, s, r, old, new) ==
    /\ data' = [data EXCEPT ![o] = new]
    /\ scope' = [scope EXCEPT ![o] = s]
    /\ restore' = [restore EXCEPT ![o] =
            IF s = level THEN r
            ELSE Append(r, [scope |-> s, saved |-> SavedOf(o, old)])]

\* Mutant of Write: the value is assigned before the object is saved
WriteThenSave(o, s, r, old, new) ==
    /\ data' = [data EXCEPT ![o] = new]
    /\ scope' = [scope EXCEPT ![o] = level]
    /\ restore' = [restore EXCEPT ![o] =
            IF s = level THEN r
            ELSE Append(r, [scope |-> s, saved |-> SavedOf(o, new)])]

\* makeCurrent() and then the assignment: an object not yet written in the
\* top scope first leaves a saved copy where it was, and moves to the top.
\* s and r are the object's scope and saved copies before the write, old its
\* value, new the value written.
Write(o, s, r, old, new) ==
    /\ data' = [data EXCEPT ![o] = new]
    /\ scope' = [scope EXCEPT ![o] = level]
    /\ restore' = [restore EXCEPT ![o] =
            IF s = level THEN r
            ELSE Append(r, [scope |-> s, saved |-> SavedOf(o, old)])]

\* CDO( context ) and CDList( context ): linked in the bottom scope
Create(o) ==
    /\ o \notin alive
    /\ alive' = alive \cup {o}
    /\ data' = [data EXCEPT ![o] = Fresh(o)]
    /\ scope' = [scope EXCEPT ![o] = 0]
    /\ restore' = [restore EXCEPT ![o] = <<>>]
    /\ chain' = [chain EXCEPT ![0] = @ \cup {o}]
    /\ UNCHANGED level

\* CDO( context, data ): the same, then makeCurrent() and the assignment
CreateWith(c, v) ==
    /\ c \notin alive
    /\ alive' = alive \cup {c}
    /\ Write(c, 0, <<>>, Default, v)
    /\ chain' = [l \in 0 .. MaxLevel |->
            IF l \in {0, level} THEN chain[l] \cup {c} ELSE chain[l]]
    /\ UNCHANGED level

\* CDO::set
Set(c, v) ==
    /\ c \in alive
    /\ Write(c, scope[c], restore[c], data[c], v)
    /\ chain' = [chain EXCEPT ![level] = @ \cup {c}]
    /\ UNCHANGED <<level, alive>>

\* CDList::push_back
PushBack(l, v) ==
    /\ l \in alive
    /\ Len(data[l]) < MaxLen
    /\ Write(l, scope[l], restore[l], data[l], Append(data[l], v))
    /\ chain' = [chain EXCEPT ![level] = @ \cup {l}]
    /\ UNCHANGED <<level, alive>>

Push ==
    /\ level < MaxLevel
    /\ level' = level + 1
    /\ UNCHANGED <<alive, data, scope, restore, chain>>

\* Delete the top Scope: its destructor calls restoreAndContinue() on
\* everything linked in it
DeleteTopScope ==
    /\ LET back == {o \in chain[level] : restore[o] # <<>>}
       IN  /\ data' = [o \in Objects |->
                  IF o \in back
                  THEN RestoredFrom(o, data[o], Last(restore[o]).saved)
                  ELSE data[o]]
           /\ scope' = [o \in Objects |->
                  IF o \in back THEN Last(restore[o]).scope ELSE scope[o]]
           /\ restore' = [o \in Objects |->
                  IF o \in back THEN Front(restore[o]) ELSE restore[o]]
    /\ chain' = [chain EXCEPT ![level] = {}]
    /\ level' = level - 1
    /\ UNCHANGED alive

\* Mutant of Pop: the bottom scope is popped too
PopAnyScope == DeleteTopScope

\* Context::pop, with its "Cannot pop below level 0"
Pop == level > 0 /\ DeleteTopScope

\* ContextObj::destroy: unlink the object, go back to its saved copy, and
\* again, until nothing of it is linked anywhere
Destroy(o) ==
    /\ o \in alive
    /\ alive' = alive \ {o}
    /\ chain' = [l \in 0 .. MaxLevel |->
            IF l = scope[o] \/ \E i \in DOMAIN restore[o] : restore[o][i].scope = l
            THEN chain[l] \ {o} ELSE chain[l]]
    /\ data' = [data EXCEPT ![o] = Fresh(o)]
    /\ scope' = [scope EXCEPT ![o] = 0]
    /\ restore' = [restore EXCEPT ![o] = <<>>]
    /\ UNCHANGED level

Next ==
    \/ \E o \in Objects : Create(o) \/ Destroy(o)
    \/ \E c \in Cells, v \in Values : CreateWith(c, v) \/ Set(c, v)
    \/ \E l \in Lists, v \in Values : PushBack(l, v)
    \/ Push
    \/ Pop

Spec == Init /\ [][Next]_vars
-----------------------------------------------------------------------------
(***************************************************************************)
(* Correctness.                                                            *)
(***************************************************************************)

\* Every variable has its type; a list never outgrows its bound.
TypeOK ==
    /\ level \in 0 .. MaxLevel
    /\ alive \subseteq Objects
    /\ data \in [Objects -> Values \cup Seq(Values)]
    /\ \A c \in Cells : data[c] \in Values
    /\ \A l \in Lists : data[l] \in Seq(Values) /\ Len(data[l]) <= MaxLen
    /\ scope \in [Objects -> 0 .. MaxLevel]
    /\ restore \in [Objects -> Seq([scope : 0 .. MaxLevel, saved : Values \cup Nat])]
    /\ \A c \in Cells : \A i \in DOMAIN restore[c] : restore[c][i].saved \in Values
    /\ \A l \in Lists : \A i \in DOMAIN restore[l] : restore[l][i].saved \in Nat
    /\ chain \in [0 .. MaxLevel -> SUBSET Objects]

\* The object and its saved copies, oldest first, as nodes of scopes
Nodes(o) == Append(restore[o], [scope |-> scope[o], saved |-> SavedOf(o, data[o])])

\* An object keeps at most one copy per scope, ordered by scope, the oldest
\* one in the bottom scope, none above the top scope; and the scopes' lists
\* hold exactly the live objects' nodes, so that popping a scope meets every
\* object written in it (update(), addToChain() and destroy() relink them).
\* destroy() leaves no saved copy behind.
ChainsWellFormed ==
    \A o \in Objects :
        /\ \A i, j \in DOMAIN Nodes(o) :
               i < j => Nodes(o)[i].scope < Nodes(o)[j].scope
        /\ Nodes(o)[1].scope = 0
        /\ scope[o] <= level
        /\ o \notin alive => scope[o] = 0 /\ restore[o] = <<>>
        /\ \A l \in 0 .. MaxLevel :
               (o \in chain[l]) <=>
                   (o \in alive /\ \E i \in DOMAIN Nodes(o) : Nodes(o)[i].scope = l)

\* The sizes a list saved are no larger than the sizes saved, and the size
\* reached, after it: truncateList()'s "Assert(size <= d_size)".
SavedSizesOrdered ==
    \A l \in Lists : \A i, j \in DOMAIN Nodes(l) :
        i < j => Nodes(l)[i].saved <= Nodes(l)[j].saved

Inv == TypeOK /\ ChainsWellFormed /\ SavedSizesOrdered
-----------------------------------------------------------------------------
(***************************************************************************)
(* The library implements the snapshot stack: the snapshot of level l is   *)
(* what each object's newest node of a scope not above l holds.            *)
(***************************************************************************)
IndexAt(o, l) ==
    CHOOSE i \in DOMAIN Nodes(o) :
        /\ Nodes(o)[i].scope <= l
        /\ \A j \in DOMAIN Nodes(o) : Nodes(o)[j].scope <= l => j <= i

ValueAt(o, l) ==
    IF o \in alive THEN RestoredFrom(o, data[o], Nodes(o)[IndexAt(o, l)].saved)
    ELSE Absent

Cur == [o \in Objects |-> IF o \in alive THEN data[o] ELSE Absent]

Snaps == [i \in 1 .. level |-> [o \in Objects |-> ValueAt(o, i - 1)]]

Snapshots == INSTANCE SnapshotStack WITH cur <- Cur, snaps <- Snaps

\* Whatever the interleaving of constructions, writes, pushes, pops and
\* destructions, what a client reads after a pop is what it read before the
\* matching push (CVC4 Context::pop, ContextObj::update).
ImplementsSnapshots == Snapshots!Spec
=============================================================================
