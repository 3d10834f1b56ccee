---------------------------- MODULE ContextProofs ----------------------------
(***************************************************************************)
(* Proofs about Context: its invariant, and that lazy saving implements    *)
(* the snapshot stack, for any set of objects, any values and any depth.   *)
(***************************************************************************)
EXTENDS Context, TLAPS, WellFoundedInduction

Node == [scope : 0 .. MaxLevel, saved : Values \cup Nat]

\* What TypeOK says of one object, as an operator of its fields, so that it
\* can be used of the fields before and after a step
ObjectType(o, d, s, r) ==
    /\ s \in 0 .. MaxLevel
    /\ r \in Seq(Node)
    /\ IF o \in Cells
       THEN d \in Values /\ \A i \in DOMAIN r : r[i].saved \in Values
       ELSE /\ d \in Seq(Values) /\ Len(d) <= MaxLen
            /\ \A i \in DOMAIN r : r[i].saved \in Nat

\* TypeOK, read object by object
LEMMA TypeByObject ==
    TypeOK <=> /\ level \in 0 .. MaxLevel
               /\ alive \subseteq Objects
               /\ data \in [Objects -> Values \cup Seq(Values)]
               /\ scope \in [Objects -> 0 .. MaxLevel]
               /\ restore \in [Objects -> Seq(Node)]
               /\ chain \in [0 .. MaxLevel -> SUBSET Objects]
               /\ \A o \in Objects : ObjectType(o, data[o], scope[o], restore[o])
  BY CellsAndListsDiffer DEF TypeOK, ObjectType, Objects, Node

\* A fresh object has its type
LEMMA FreshType ==
    \A o \in Objects : ObjectType(o, Fresh(o), 0, <<>>)
  BY BoundsAreNaturals, DefaultIsAValue, CellsAndListsDiffer
  DEF ObjectType, Fresh, Objects, Node

\* The saved copy that update() makes has its type
LEMMA SaveType ==
    ASSUME NEW o \in Objects, NEW d, NEW s, NEW r, ObjectType(o, d, s, r)
    PROVE  /\ [scope |-> s, saved |-> SavedOf(o, d)] \in Node
           /\ ObjectType(o, d, s, Append(r, [scope |-> s, saved |-> SavedOf(o, d)]))
<1> DEFINE n == [scope |-> s, saved |-> SavedOf(o, d)]
<1>1. n \in Node
  BY DEF ObjectType, SavedOf, Node, Objects
<1>2. /\ Append(r, n) \in Seq(Node)
      /\ \A i \in DOMAIN Append(r, n) :
             Append(r, n)[i] = IF i \in DOMAIN r THEN r[i] ELSE n
  BY <1>1 DEF ObjectType
<1>3. QED
  BY <1>1, <1>2 DEF ObjectType, SavedOf, Objects

\* and so has what restoreAndContinue() leaves in the object
LEMMA RestoreType ==
    ASSUME NEW o \in Objects, NEW d, NEW s, NEW r, ObjectType(o, d, s, r), r # <<>>,
           Last(r).saved \in Nat /\ o \in Lists => Last(r).saved <= Len(d)
    PROVE  ObjectType(o, RestoredFrom(o, d, Last(r).saved), Last(r).scope, Front(r))
<1>1. /\ r \in Seq(Node) /\ Len(r) \in Nat \ {0}
      /\ Last(r) \in Node /\ Last(r) = r[Len(r)] /\ Len(r) \in DOMAIN r
  BY DEF ObjectType, Last
<1>2. /\ Front(r) \in Seq(Node)
      /\ \A i \in DOMAIN Front(r) : i \in DOMAIN r /\ Front(r)[i] = r[i]
  BY <1>1 DEF Front
<1>3. CASE o \in Cells
  BY <1>1, <1>2, <1>3 DEF ObjectType, RestoredFrom, Node
<1>4. CASE o \notin Cells
  <2>1. o \in Lists /\ d \in Seq(Values) /\ Last(r).saved \in Nat
    BY <1>1, <1>4 DEF ObjectType, Objects
  <2>2. /\ SubSeq(d, 1, Last(r).saved) \in Seq(Values)
        /\ Len(SubSeq(d, 1, Last(r).saved)) <= Len(d)
    BY <2>1
  <2>3. QED
    BY <1>1, <1>2, <1>4, <2>1, <2>2, BoundsAreNaturals, SMTT(30) DEF ObjectType, RestoredFrom, Node
<1>5. QED
  BY <1>3, <1>4
-----------------------------------------------------------------------------
(***************************************************************************)
(* The node chain of one object.                                           *)
(***************************************************************************)
NodesOf(o, d, s, r) == Append(r, [scope |-> s, saved |-> SavedOf(o, d)])

WellFormed(o, ns) ==
    /\ \A i, j \in DOMAIN ns : i < j => ns[i].scope < ns[j].scope
    /\ o \in Lists => \A i, j \in DOMAIN ns : i < j => ns[i].saved <= ns[j].saved
    /\ ns[1].scope = 0

HasNodeIn(ns, l) == \E i \in DOMAIN ns : ns[i].scope = l

\* The invariant of an object: its type, its nodes, and where they are linked
ObjectInv(o, d, s, r, top, in, linked) ==
    /\ ObjectType(o, d, s, r)
    /\ WellFormed(o, NodesOf(o, d, s, r))
    /\ s <= top
    /\ o \notin in => s = 0 /\ r = <<>>
    /\ \A l \in 0 .. MaxLevel :
           (o \in linked[l]) <=> (o \in in /\ HasNodeIn(NodesOf(o, d, s, r), l))

GlobalType ==
    /\ level \in 0 .. MaxLevel
    /\ alive \subseteq Objects
    /\ data \in [Objects -> Values \cup Seq(Values)]
    /\ scope \in [Objects -> 0 .. MaxLevel]
    /\ restore \in [Objects -> Seq(Node)]
    /\ chain \in [0 .. MaxLevel -> SUBSET Objects]

ObjectsInv ==
    \A o \in Objects : ObjectInv(o, data[o], scope[o], restore[o], level, alive, chain)

\* The invariant, read object by object: each object's type, nodes and links
LEMMA InvByObject == Inv <=> GlobalType /\ ObjectsInv
<1>1. \A o \in Objects : Nodes(o) = NodesOf(o, data[o], scope[o], restore[o])
  BY DEF Nodes, NodesOf
<1>2. ChainsWellFormed /\ SavedSizesOrdered <=>
        \A o \in Objects :
            /\ WellFormed(o, NodesOf(o, data[o], scope[o], restore[o]))
            /\ scope[o] <= level
            /\ o \notin alive => scope[o] = 0 /\ restore[o] = <<>>
            /\ \A l \in 0 .. MaxLevel :
                   (o \in chain[l]) <=> (o \in alive /\ HasNodeIn(Nodes(o), l))
  BY <1>1 DEF ChainsWellFormed, SavedSizesOrdered, WellFormed, HasNodeIn, Objects
<1>3. QED
  BY <1>1, <1>2, TypeByObject DEF Inv, GlobalType, ObjectsInv, ObjectInv

\* A freshly constructed object has one node, in the bottom scope
LEMMA FreshNodes ==
    ASSUME NEW o \in Objects
    PROVE  /\ WellFormed(o, NodesOf(o, Fresh(o), 0, <<>>))
           /\ \A l : HasNodeIn(NodesOf(o, Fresh(o), 0, <<>>), l) <=> l = 0
<1> DEFINE n == [scope |-> 0, saved |-> SavedOf(o, Fresh(o))]
<1>1. NodesOf(o, Fresh(o), 0, <<>>) = <<n>>
  BY DEF NodesOf
<1>2. DOMAIN <<n>> = {1} /\ <<n>>[1] = n
  OBVIOUS
<1>3. QED
  BY <1>1, <1>2 DEF WellFormed, HasNodeIn

\* Saving adds a node above all others
LEMMA SaveNodes ==
    ASSUME NEW o \in Objects, NEW d, NEW s, NEW r, NEW new, NEW top \in 0 .. MaxLevel,
           ObjectType(o, d, s, r), ObjectType(o, new, top, r),
           WellFormed(o, NodesOf(o, d, s, r)), s < top,
           o \in Lists => Len(d) <= Len(new)
    PROVE  /\ WellFormed(o, NodesOf(o, new, top, NodesOf(o, d, s, r)))
           /\ \A l : HasNodeIn(NodesOf(o, new, top, NodesOf(o, d, s, r)), l)
                        <=> HasNodeIn(NodesOf(o, d, s, r), l) \/ l = top
<1> DEFINE ns == NodesOf(o, d, s, r)
           n  == [scope |-> top, saved |-> SavedOf(o, new)]
<1>1. /\ ns \in Seq(Node) /\ Len(ns) = Len(r) + 1 /\ Len(r) \in Nat
      /\ ns[Len(ns)] = [scope |-> s, saved |-> SavedOf(o, d)]
      /\ n \in Node
  BY SaveType DEF NodesOf, ObjectType, SavedOf, Node, Objects
<1>2. /\ DOMAIN Append(ns, n) = 1 .. (Len(ns) + 1)
      /\ \A i \in 1 .. Len(ns) : Append(ns, n)[i] = ns[i]
      /\ Append(ns, n)[Len(ns) + 1] = n
      /\ DOMAIN ns = 1 .. Len(ns)
  BY <1>1
<1>3. \A i \in DOMAIN ns : ns[i].scope \in Nat /\ ns[i].scope <= s
  <2>1. s \in Nat /\ \A i \in DOMAIN ns : ns[i] \in Node
    BY <1>1, <1>2 DEF ObjectType
  <2>2. \A i \in DOMAIN ns : ns[i].scope \in Nat
    BY <2>1 DEF Node
  <2>3. Len(ns) \in DOMAIN ns /\ \A i \in DOMAIN ns : i = Len(ns) \/ i < Len(ns)
    BY <1>1, <1>2
  <2>4. ns[Len(ns)].scope = s
    BY <1>1
  <2>5. QED
    BY <2>1, <2>2, <2>3, <2>4 DEF WellFormed
<1>4. ASSUME o \in Lists
      PROVE  \A i \in DOMAIN ns : ns[i].saved <= Len(new)
  <2>1. /\ d \in Seq(Values) /\ new \in Seq(Values) /\ SavedOf(o, d) = Len(d)
        /\ \A i \in DOMAIN r : r[i].saved \in Nat
    BY <1>4, CellsAndListsDiffer DEF ObjectType, SavedOf, Objects
  <2>2. ns[Len(ns)].saved <= Len(new)
    BY <1>1, <1>4, <2>1
  <2>3. \A i \in 1 .. Len(r) : ns[i] = r[i]
    BY <1>1, <2>1 DEF NodesOf, ObjectType
  <2>4. /\ Len(ns) \in DOMAIN ns /\ ns[Len(ns)].saved \in Nat
        /\ \A i \in DOMAIN ns : i = Len(ns) \/ (i \in DOMAIN r /\ i < Len(ns))
        /\ Len(new) \in Nat
    <3>1. DOMAIN r = 1 .. Len(r)
      BY DEF ObjectType
    <3>2. QED
      BY <1>1, <1>2, <2>1, <3>1
  <2>5. \A i \in DOMAIN ns : i # Len(ns) =>
            ns[i].saved \in Nat /\ ns[i].saved <= ns[Len(ns)].saved
    <3>1. DOMAIN r = 1 .. Len(r)
      BY DEF ObjectType
    <3>2. \A i \in DOMAIN r : ns[i].saved \in Nat
      BY <2>1, <2>3, <3>1
    <3>3. QED
      BY <1>4, <2>4, <3>2 DEF WellFormed
  <2>6. SUFFICES ASSUME NEW i \in DOMAIN ns
                 PROVE  ns[i].saved <= Len(new)
    OBVIOUS
  <2>7. CASE i = Len(ns)
    BY <2>2, <2>7
  <2>8. CASE i # Len(ns)
    BY <2>2, <2>4, <2>5, <2>8
  <2>9. QED
    BY <2>7, <2>8
<1>5. SavedOf(o, new) = Len(new) \/ o \notin Lists
  BY CellsAndListsDiffer DEF SavedOf
<1>6. NodesOf(o, new, top, ns) = Append(ns, n)
  BY DEF NodesOf
<1>7. WellFormed(o, Append(ns, n))
  <2>1. \A i, j \in DOMAIN Append(ns, n) :
            i < j => i \in DOMAIN ns /\ (j \in DOMAIN ns \/ j = Len(ns) + 1)
    BY <1>1, <1>2
  <2>2. QED
    BY <1>1, <1>2, <1>3, <1>4, <1>5, <2>1 DEF WellFormed
<1>8. \A l : HasNodeIn(Append(ns, n), l) <=> HasNodeIn(ns, l) \/ l = top
  BY <1>1, <1>2 DEF HasNodeIn
<1>9. QED
  BY <1>6, <1>7, <1>8

\* Writing again in the scope of the last write changes no scope
LEMMA RewriteNodes ==
    ASSUME NEW o \in Objects, NEW d, NEW s, NEW r, NEW new,
           ObjectType(o, d, s, r), ObjectType(o, new, s, r),
           WellFormed(o, NodesOf(o, d, s, r)),
           o \in Lists => Len(d) <= Len(new)
    PROVE  /\ WellFormed(o, NodesOf(o, new, s, r))
           /\ \A l : HasNodeIn(NodesOf(o, new, s, r), l)
                        <=> HasNodeIn(NodesOf(o, d, s, r), l)
<1> DEFINE ns == NodesOf(o, d, s, r)
           ms == NodesOf(o, new, s, r)
           k  == Len(r) + 1
<1>1. /\ ns \in Seq(Node) /\ ms \in Seq(Node)
      /\ DOMAIN ns = 1 .. k /\ DOMAIN ms = 1 .. k /\ Len(r) \in Nat /\ DOMAIN r = 1 .. Len(r)
      /\ \A i \in 1 .. Len(r) : ms[i] = r[i] /\ ns[i] = r[i]
      /\ ns[k] = [scope |-> s, saved |-> SavedOf(o, d)]
      /\ ms[k] = [scope |-> s, saved |-> SavedOf(o, new)]
  <2>1. /\ [scope |-> s, saved |-> SavedOf(o, d)] \in Node
        /\ [scope |-> s, saved |-> SavedOf(o, new)] \in Node
        /\ r \in Seq(Node)
    BY SaveType DEF ObjectType
  <2>2. QED
    BY <2>1 DEF NodesOf
<1>2. \A i \in 1 .. k : ms[i].scope = ns[i].scope
  BY <1>1
<1>3. ASSUME o \in Lists
      PROVE  \A i, j \in DOMAIN ms : i < j => ms[i].saved <= ms[j].saved
  <2>1. /\ SavedOf(o, d) = Len(d) /\ SavedOf(o, new) = Len(new)
        /\ Len(d) \in Nat /\ Len(new) \in Nat
        /\ \A i \in DOMAIN r : r[i].saved \in Nat
    BY <1>3, CellsAndListsDiffer DEF ObjectType, SavedOf, Objects
  <2>2. \A i \in 1 .. Len(r) : r[i].saved <= Len(d)
    BY <1>1, <1>3, <2>1, SMTT(30) DEF WellFormed
  <2>3. SUFFICES ASSUME NEW i \in DOMAIN ms, NEW j \in DOMAIN ms, i < j
                 PROVE  ms[i].saved <= ms[j].saved
    OBVIOUS
  <2>4. i \in 1 .. Len(r)
    BY <1>1, <2>3
  <2>5. CASE j = k
    BY <1>1, <1>3, <2>1, <2>2, <2>4, <2>5
  <2>6. CASE j # k
    BY <1>1, <1>3, <2>3, <2>4, <2>6, SMTT(30) DEF WellFormed
  <2>7. QED
    BY <2>5, <2>6
<1>4. WellFormed(o, ms)
  <2>1. 1 \in 1 .. k
    BY <1>1
  <2>2. QED
    BY <1>1, <1>2, <1>3, <2>1 DEF WellFormed
<1>5. \A l : HasNodeIn(ms, l) <=> HasNodeIn(ns, l)
  BY <1>1, <1>2 DEF HasNodeIn
<1>6. QED
  BY <1>4, <1>5

\* Popping takes the newest node away and makes the one below it the object
LEMMA RestoreNodes ==
    ASSUME NEW o \in Objects, NEW d, NEW s, NEW r, ObjectType(o, d, s, r), r # <<>>,
           WellFormed(o, NodesOf(o, d, s, r))
    PROVE  /\ o \in Lists => Last(r).saved \in Nat /\ Last(r).saved <= Len(d)
           /\ NodesOf(o, RestoredFrom(o, d, Last(r).saved), Last(r).scope, Front(r)) = r
           /\ WellFormed(o, r)
           /\ Last(r).scope \in 0 .. MaxLevel /\ Last(r).scope < s
           /\ \A l : HasNodeIn(r, l) <=> HasNodeIn(NodesOf(o, d, s, r), l) /\ l # s
<1> DEFINE ns == NodesOf(o, d, s, r)
           k  == Len(r) + 1
<1>1. /\ r \in Seq(Node) /\ Len(r) \in Nat \ {0} /\ DOMAIN r = 1 .. Len(r)
      /\ DOMAIN ns = 1 .. k
      /\ \A i \in 1 .. Len(r) : ns[i] = r[i]
      /\ ns[k] = [scope |-> s, saved |-> SavedOf(o, d)]
      /\ Last(r) = r[Len(r)]
  BY SaveType DEF NodesOf, ObjectType, Last
<1>2. r[Len(r)] \in Node
  BY <1>1
<1>3. \A i \in 1 .. Len(r) : r[i].scope < s
  BY <1>1 DEF WellFormed
<1>4. ASSUME o \in Lists
      PROVE  Last(r).saved \in Nat /\ Last(r).saved <= Len(d)
  BY <1>1, <1>4, CellsAndListsDiffer, SMTT(30) DEF ObjectType, SavedOf, Objects, WellFormed
<1>5. NodesOf(o, RestoredFrom(o, d, Last(r).saved), Last(r).scope, Front(r)) = r
  <2>1. SavedOf(o, RestoredFrom(o, d, Last(r).saved)) = Last(r).saved
    <3>1. CASE o \in Cells
      BY <3>1 DEF SavedOf, RestoredFrom
    <3>2. CASE o \notin Cells
      <4>1. o \in Lists /\ d \in Seq(Values)
        BY <3>2 DEF Objects, ObjectType
      <4>2. Len(SubSeq(d, 1, Last(r).saved)) = Last(r).saved
        BY <1>4, <4>1
      <4>3. QED
        BY <3>2, <4>2 DEF SavedOf, RestoredFrom
    <3>3. QED
      BY <3>1, <3>2
  <2>2. Last(r) = [scope |-> Last(r).scope, saved |-> Last(r).saved]
    BY <1>1, <1>2 DEF Node
  <2>3. Append(Front(r), Last(r)) = r
    BY <1>1 DEF Front
  <2>4. QED
    BY <2>1, <2>2, <2>3 DEF NodesOf
<1>6. WellFormed(o, r)
  BY <1>1 DEF WellFormed
<1>7. Last(r).scope \in 0 .. MaxLevel /\ Last(r).scope < s
  BY <1>1, <1>2, <1>3 DEF Node
<1>8. \A l : HasNodeIn(r, l) <=> HasNodeIn(ns, l) /\ l # s
  <2>1. s \in Nat /\ \A i \in 1 .. Len(r) : r[i].scope # s
    BY <1>1, <1>3 DEF ObjectType, Node
  <2>2. QED
    BY <1>1, <2>1 DEF HasNodeIn
<1>9. QED
  BY <1>4, <1>5, <1>6, <1>7, <1>8
-----------------------------------------------------------------------------
(***************************************************************************)
(* The invariant.                                                          *)
(***************************************************************************)

\* The step changes no object but o, and links or unlinks only o
OnlyChanges(o) ==
    /\ \A p \in Objects : p # o =>
           data'[p] = data[p] /\ scope'[p] = scope[p] /\ restore'[p] = restore[p]
    /\ \A p \in Objects : p # o =>
           \A l \in 0 .. MaxLevel : p \in chain'[l] <=> p \in chain[l]
    /\ \A p \in Objects : p # o => (p \in alive' <=> p \in alive)

\* A step that touches one object keeps the invariant of all the others
LEMMA OthersKeepTheirInvariant ==
    ASSUME ObjectsInv, NEW o \in Objects, OnlyChanges(o), level' = level,
           ObjectInv(o, data'[o], scope'[o], restore'[o], level', alive', chain')
    PROVE  ObjectsInv'
<1>1. ASSUME NEW p \in Objects, p # o
      PROVE  ObjectInv(p, data'[p], scope'[p], restore'[p], level', alive', chain')
  <2>1. ObjectInv(p, data[p], scope[p], restore[p], level, alive, chain)
    BY DEF ObjectsInv
  <2>2. QED
    BY <1>1, <2>1 DEF OnlyChanges, ObjectInv
<1>2. QED
  BY <1>1 DEF ObjectsInv

\* A write into an object with the given scope and copies gives it the
\* invariant, once it is alive and linked in the top scope as well
LEMMA WriteEstablishes ==
    ASSUME GlobalType, NEW o \in Objects, NEW d, NEW s, NEW r, NEW new,
           ObjectType(o, d, s, r), WellFormed(o, NodesOf(o, d, s, r)), s <= level,
           ObjectType(o, new, s, r), o \in Lists => Len(d) <= Len(new),
           new \in Values \cup Seq(Values),
           Write(o, s, r, d, new), o \in alive',
           \A l \in 0 .. MaxLevel : (o \in chain'[l]) <=>
                  (HasNodeIn(NodesOf(o, d, s, r), l) \/ l = level)
    PROVE  /\ ObjectInv(o, data'[o], scope'[o], restore'[o], level, alive', chain')
           /\ data' \in [Objects -> Values \cup Seq(Values)]
           /\ scope' \in [Objects -> 0 .. MaxLevel]
           /\ restore' \in [Objects -> Seq(Node)]
<1> DEFINE n == [scope |-> s, saved |-> SavedOf(o, d)]
<1>1. /\ data'[o] = new /\ scope'[o] = level
      /\ restore'[o] = IF s = level THEN r ELSE NodesOf(o, d, s, r)
  BY DEF GlobalType, Write, NodesOf
<1>2. r \in Seq(Node) /\ Append(r, n) \in Seq(Node) /\ level \in 0 .. MaxLevel
  BY SaveType DEF ObjectType, GlobalType
<1>3. /\ data' \in [Objects -> Values \cup Seq(Values)]
      /\ scope' \in [Objects -> 0 .. MaxLevel]
      /\ restore' \in [Objects -> Seq(Node)]
  BY <1>2 DEF GlobalType, Write
<1>4. CASE s = level
  <2>1. /\ WellFormed(o, NodesOf(o, new, s, r))
        /\ \A l : HasNodeIn(NodesOf(o, new, s, r), l) <=> HasNodeIn(NodesOf(o, d, s, r), l)
    BY RewriteNodes
  <2>2. HasNodeIn(NodesOf(o, d, s, r), s)
    <3>1. /\ Len(r) + 1 \in DOMAIN NodesOf(o, d, s, r)
          /\ NodesOf(o, d, s, r)[Len(r) + 1].scope = s
      BY <1>2, SaveType DEF NodesOf
    <3>2. QED
      BY <3>1 DEF HasNodeIn
  <2>3. \A l \in 0 .. MaxLevel : (o \in chain'[l]) <=>
            (o \in alive' /\ HasNodeIn(NodesOf(o, new, s, r), l))
    BY <1>4, <2>1, <2>2
  <2>4. data'[o] = new /\ scope'[o] = s /\ restore'[o] = r
    BY <1>1, <1>4
  <2>5. QED
    BY <1>3, <2>1, <2>3, <2>4 DEF ObjectInv
<1>5. CASE s # level
  <2>1. s < level /\ ObjectType(o, new, level, r)
    BY <1>2, <1>5 DEF ObjectType
  <2>2. /\ WellFormed(o, NodesOf(o, new, level, NodesOf(o, d, s, r)))
        /\ \A l : HasNodeIn(NodesOf(o, new, level, NodesOf(o, d, s, r)), l)
                     <=> HasNodeIn(NodesOf(o, d, s, r), l) \/ l = level
    BY <1>2, <2>1, SaveNodes
  <2>3. ObjectType(o, d, s, NodesOf(o, d, s, r))
    BY SaveType DEF NodesOf
  <2>4. ObjectType(o, new, level, NodesOf(o, d, s, r))
    BY <2>1, <2>3 DEF ObjectType
  <2>5. data'[o] = new /\ scope'[o] = level /\ restore'[o] = NodesOf(o, d, s, r)
    BY <1>1, <1>5
  <2>6. level <= level
    BY <1>2
  <2>7. QED
    BY <1>3, <2>2, <2>4, <2>5, <2>6 DEF ObjectInv
<1>6. QED
  BY <1>4, <1>5

\* A new context has no object and meets the invariant
LEMMA InitInv == Init => GlobalType /\ ObjectsInv
<1> SUFFICES ASSUME Init PROVE GlobalType /\ ObjectsInv
  OBVIOUS
<1>1. GlobalType
  BY BoundsAreNaturals, DefaultIsAValue DEF Init, GlobalType, Fresh
<1>2. ASSUME NEW o \in Objects
      PROVE  ObjectInv(o, data[o], scope[o], restore[o], level, alive, chain)
  <2>1. data[o] = Fresh(o) /\ scope[o] = 0 /\ restore[o] = <<>>
    BY DEF Init
  <2>2. QED
    BY <2>1, FreshType, FreshNodes DEF Init, ObjectInv
<1>3. QED
  BY <1>1, <1>2 DEF ObjectsInv

\* A default construction keeps the invariant
LEMMA CreateInv ==
    ASSUME GlobalType, ObjectsInv, NEW o \in Objects, Create(o)
    PROVE  GlobalType' /\ ObjectsInv'
<1>1. Fresh(o) \in Values \cup Seq(Values) /\ level' \in 0 .. MaxLevel
  BY DefaultIsAValue DEF Fresh, Create, GlobalType
<1>2. GlobalType'
  BY <1>1, BoundsAreNaturals DEF GlobalType, Create
<1>3. data'[o] = Fresh(o) /\ scope'[o] = 0 /\ restore'[o] = <<>>
  BY DEF GlobalType, Create
<1>4. /\ 0 \in 0 .. MaxLevel /\ 0 <= level'
      /\ \A l \in 0 .. MaxLevel : o \in chain'[l] <=> (l = 0 \/ o \in chain[l])
  BY <1>1, BoundsAreNaturals DEF GlobalType, Create
<1>5. \A l \in 0 .. MaxLevel : o \notin chain[l]
  BY DEF ObjectsInv, ObjectInv, Create
<1>6. ObjectInv(o, data'[o], scope'[o], restore'[o], level', alive', chain')
  BY <1>3, <1>4, <1>5, FreshType, FreshNodes DEF ObjectInv, Create
<1>7. OnlyChanges(o)
  BY DEF OnlyChanges, Create, GlobalType
<1>8. QED
  BY <1>2, <1>6, <1>7, OthersKeepTheirInvariant DEF Create

\* A construction with a value keeps the invariant: in a pushed context it
\* leaves a saved default in the bottom scope
LEMMA CreateWithInv ==
    ASSUME GlobalType, ObjectsInv, NEW c \in Cells, NEW v \in Values, CreateWith(c, v)
    PROVE  GlobalType' /\ ObjectsInv'
<1>1. /\ c \in Objects /\ Fresh(c) = Default
      /\ c \notin Lists
  BY CellsAndListsDiffer DEF Objects, Fresh
<1>2. /\ ObjectType(c, Default, 0, <<>>)
      /\ WellFormed(c, NodesOf(c, Default, 0, <<>>))
      /\ \A l : HasNodeIn(NodesOf(c, Default, 0, <<>>), l) <=> l = 0
      /\ level \in 0 .. MaxLevel /\ 0 <= level
  BY <1>1, FreshType, FreshNodes DEF GlobalType
<1>3. ObjectType(c, v, 0, <<>>)
  BY <1>2 DEF ObjectType
<1>4. \A l \in 0 .. MaxLevel : c \notin chain[l]
  BY <1>1 DEF ObjectsInv, ObjectInv, CreateWith
<1>5. \A l \in 0 .. MaxLevel : (c \in chain'[l]) <=>
          (HasNodeIn(NodesOf(c, Default, 0, <<>>), l) \/ l = level)
  BY <1>2, <1>4 DEF CreateWith
<1>6. Write(c, 0, <<>>, Default, v) /\ c \in alive' /\ level' = level
  BY DEF CreateWith
<1>7. /\ ObjectInv(c, data'[c], scope'[c], restore'[c], level, alive', chain')
      /\ data' \in [Objects -> Values \cup Seq(Values)]
      /\ scope' \in [Objects -> 0 .. MaxLevel]
      /\ restore' \in [Objects -> Seq(Node)]
  BY <1>1, <1>2, <1>3, <1>5, <1>6, WriteEstablishes
<1>8. GlobalType'
  BY <1>1, <1>7 DEF GlobalType, CreateWith
<1>9. OnlyChanges(c)
  BY <1>1 DEF OnlyChanges, CreateWith, Write, GlobalType
<1>10. QED
  BY <1>1, <1>6, <1>7, <1>8, <1>9, OthersKeepTheirInvariant

\* Set and PushBack: a write into a live object
LEMMA LiveWriteInv ==
    ASSUME GlobalType, ObjectsInv, NEW o \in Objects, o \in alive,
           NEW new \in Values \cup Seq(Values), ObjectType(o, new, scope[o], restore[o]),
           o \in Lists => Len(data[o]) <= Len(new),
           Write(o, scope[o], restore[o], data[o], new),
           chain' = [chain EXCEPT ![level] = @ \cup {o}],
           UNCHANGED <<level, alive>>
    PROVE  GlobalType' /\ ObjectsInv'
<1>1. ObjectInv(o, data[o], scope[o], restore[o], level, alive, chain)
  BY DEF ObjectsInv
<1>2. \A l \in 0 .. MaxLevel : (o \in chain'[l]) <=>
          (HasNodeIn(NodesOf(o, data[o], scope[o], restore[o]), l) \/ l = level)
  BY <1>1 DEF GlobalType, ObjectInv
<1>3. /\ ObjectInv(o, data'[o], scope'[o], restore'[o], level, alive', chain')
      /\ data' \in [Objects -> Values \cup Seq(Values)]
      /\ scope' \in [Objects -> 0 .. MaxLevel]
      /\ restore' \in [Objects -> Seq(Node)]
  BY <1>1, <1>2, WriteEstablishes DEF ObjectInv
<1>4. GlobalType'
  BY <1>3 DEF GlobalType
<1>5. OnlyChanges(o)
  BY DEF OnlyChanges, Write, GlobalType
<1>6. QED
  BY <1>3, <1>4, <1>5, OthersKeepTheirInvariant

\* A pop keeps the invariant: the objects linked in the top scope are those
\* whose newest node is there, and each moves to the scope of its last copy
LEMMA PopInv ==
    ASSUME GlobalType, ObjectsInv, Pop
    PROVE  GlobalType' /\ ObjectsInv'
<1> DEFINE back == {o \in chain[level] : restore[o] # <<>>}
<1>1. level \in 0 .. MaxLevel /\ level' \in 0 .. MaxLevel /\ level' = level - 1 /\ level > 0
  BY BoundsAreNaturals DEF GlobalType, Pop, DeleteTopScope
<1>2. chain' \in [0 .. MaxLevel -> SUBSET Objects] /\ alive' = alive
  BY DEF GlobalType, Pop, DeleteTopScope
<1>3. ASSUME NEW o \in Objects
      PROVE  /\ ObjectInv(o, data'[o], scope'[o], restore'[o], level', alive', chain')
             /\ data'[o] \in Values \cup Seq(Values)
             /\ scope'[o] \in 0 .. MaxLevel
             /\ restore'[o] \in Seq(Node)
  <2> DEFINE ns == NodesOf(o, data[o], scope[o], restore[o])
  <2>1. /\ ObjectType(o, data[o], scope[o], restore[o])
        /\ WellFormed(o, ns)
        /\ scope[o] <= level /\ scope[o] \in Nat
        /\ \A l \in 0 .. MaxLevel : (o \in chain[l]) <=> (o \in alive /\ HasNodeIn(ns, l))
    BY <1>3 DEF ObjectsInv, ObjectInv, ObjectType
  <2>0. o \notin alive => scope[o] = 0 /\ restore[o] = <<>>
    BY <1>3 DEF ObjectsInv, ObjectInv
  <2>2. HasNodeIn(ns, scope[o])
    <3>1. /\ Len(restore[o]) + 1 \in DOMAIN ns
          /\ ns[Len(restore[o]) + 1].scope = scope[o]
      BY <2>1, SaveType DEF NodesOf, ObjectType
    <3>2. QED
      BY <3>1 DEF HasNodeIn
  <2>3. ASSUME restore[o] = <<>>
        PROVE  scope[o] = 0 /\ \A l : HasNodeIn(ns, l) => l = 0
    <3>1. Len(ns) = 1 /\ DOMAIN ns = {1} /\ ns[1].scope = scope[o]
      BY <2>3 DEF NodesOf
    <3>2. QED
      BY <2>1, <3>1 DEF WellFormed, HasNodeIn
  <2>4. \A l \in 0 .. MaxLevel : o \in chain'[l] <=> (l # level /\ o \in chain[l])
    BY <1>1 DEF GlobalType, Pop, DeleteTopScope
  <2>5. CASE o \in back
    <3>1. restore[o] # <<>> /\ o \in chain[level]
      BY <2>5
    <3>2. /\ data'[o] = RestoredFrom(o, data[o], Last(restore[o]).saved)
          /\ scope'[o] = Last(restore[o]).scope
          /\ restore'[o] = Front(restore[o])
      BY <2>5 DEF Pop, DeleteTopScope
    <3>3. /\ o \in Lists => Last(restore[o]).saved \in Nat
                            /\ Last(restore[o]).saved <= Len(data[o])
          /\ NodesOf(o, data'[o], scope'[o], restore'[o]) = restore[o]
          /\ WellFormed(o, restore[o])
          /\ scope'[o] \in 0 .. MaxLevel /\ scope'[o] < scope[o]
          /\ \A l : HasNodeIn(restore[o], l) <=> HasNodeIn(ns, l) /\ l # scope[o]
      BY <2>1, <3>1, <3>2, RestoreNodes
    <3>4. ObjectType(o, data'[o], scope'[o], restore'[o])
      BY <2>1, <3>1, <3>2, <3>3, RestoreType
    <3>5. o \in alive /\ HasNodeIn(ns, level)
      BY <1>1, <2>1, <3>1
    <3>6. scope[o] = level
      <4>1. PICK i \in DOMAIN ns : ns[i].scope = level
        BY <3>5 DEF HasNodeIn
      <4>2. /\ DOMAIN ns = 1 .. (Len(restore[o]) + 1)
            /\ ns[Len(restore[o]) + 1].scope = scope[o]
            /\ Len(restore[o]) \in Nat
        BY <2>1, SaveType DEF NodesOf, ObjectType
      <4>3. CASE i = Len(restore[o]) + 1
        BY <4>1, <4>2, <4>3
      <4>4. CASE i # Len(restore[o]) + 1
        <5>1. level < scope[o]
          BY <2>1, <4>1, <4>2, <4>4, SMTT(30) DEF WellFormed
        <5>2. QED
          BY <1>1, <2>1, <5>1
      <4>5. QED
        BY <4>3, <4>4
    <3>7. \A l \in 0 .. MaxLevel : (o \in chain'[l]) <=> (o \in alive' /\ HasNodeIn(restore[o], l))
      BY <1>2, <2>1, <2>4, <3>3, <3>6
    <3>8. scope'[o] <= level'
      BY <1>1, <3>3, <3>6
    <3>9. data'[o] \in Values \cup Seq(Values) /\ restore'[o] \in Seq(Node)
      BY <3>4 DEF ObjectType
    <3>10. QED
      BY <1>2, <3>3, <3>4, <3>5, <3>7, <3>8, <3>9 DEF ObjectInv
  <2>6. CASE o \notin back
    <3>1. data'[o] = data[o] /\ scope'[o] = scope[o] /\ restore'[o] = restore[o]
      BY <1>3, <2>6 DEF Pop, DeleteTopScope
    <3>2. o \notin chain[level]
      BY <1>1, <2>1, <2>3, <2>6
    <3>3. scope[o] # level \/ o \notin alive
      BY <1>1, <2>1, <2>2, <3>2
    <3>4. \A l \in 0 .. MaxLevel : o \in chain'[l] <=> o \in chain[l]
      BY <1>1, <2>4, <3>2
    <3>5. scope[o] <= level'
      BY <1>1, <2>0, <2>1, <3>3
    <3>6. QED
      BY <1>2, <2>0, <2>1, <3>1, <3>4, <3>5 DEF ObjectInv, ObjectType
  <2>7. QED
    BY <2>5, <2>6
<1>4. GlobalType'
  BY <1>1, <1>2, <1>3 DEF GlobalType, Pop, DeleteTopScope
<1>5. QED
  BY <1>3, <1>4 DEF ObjectsInv

\* A push keeps the invariant: nothing is linked in the new scope
LEMMA PushInv ==
    ASSUME GlobalType, ObjectsInv, Push
    PROVE  GlobalType' /\ ObjectsInv'
<1>1. level' \in 0 .. MaxLevel /\ level < level' /\ level \in Nat
  BY BoundsAreNaturals DEF GlobalType, Push
<1>2. GlobalType'
  BY <1>1 DEF GlobalType, Push
<1>3. ASSUME NEW o \in Objects
      PROVE  ObjectInv(o, data'[o], scope'[o], restore'[o], level', alive', chain')
  <2>1. ObjectInv(o, data[o], scope[o], restore[o], level, alive, chain)
    BY DEF ObjectsInv
  <2>2. scope[o] <= level'
    BY <1>1, <2>1 DEF ObjectInv, ObjectType
  <2>3. QED
    BY <2>1, <2>2 DEF ObjectInv, Push
<1>4. QED
  BY <1>2, <1>3 DEF ObjectsInv

\* A destruction keeps the invariant: the object is unlinked everywhere
LEMMA DestroyInv ==
    ASSUME GlobalType, ObjectsInv, NEW o \in Objects, Destroy(o)
    PROVE  GlobalType' /\ ObjectsInv'
<1>1. Fresh(o) \in Values \cup Seq(Values) /\ 0 \in 0 .. MaxLevel /\ <<>> \in Seq(Node)
  BY DefaultIsAValue, BoundsAreNaturals DEF Fresh
<1>2. GlobalType'
  BY <1>1 DEF GlobalType, Destroy
<1>3. data'[o] = Fresh(o) /\ scope'[o] = 0 /\ restore'[o] = <<>> /\ o \notin alive'
  BY DEF GlobalType, Destroy
<1>4. ObjectInv(o, data[o], scope[o], restore[o], level, alive, chain)
  BY DEF ObjectsInv
<1>5. \A l \in 0 .. MaxLevel : o \notin chain'[l]
  <2>1. SUFFICES ASSUME NEW l \in 0 .. MaxLevel, o \in chain[l]
                 PROVE  l = scope[o] \/ \E i \in DOMAIN restore[o] : restore[o][i].scope = l
    BY DEF Destroy
  <2>2. PICK i \in DOMAIN NodesOf(o, data[o], scope[o], restore[o]) :
            NodesOf(o, data[o], scope[o], restore[o])[i].scope = l
    BY <1>4, <2>1 DEF ObjectInv, HasNodeIn
  <2>3. /\ restore[o] \in Seq(Node)
        /\ [scope |-> scope[o], saved |-> SavedOf(o, data[o])] \in Node
    BY <1>4, SaveType DEF ObjectInv, ObjectType
  <2>4. QED
    BY <2>2, <2>3 DEF NodesOf
<1>6. 0 <= level'
  BY DEF GlobalType, Destroy
<1>7. ObjectInv(o, data'[o], scope'[o], restore'[o], level', alive', chain')
  BY <1>3, <1>5, <1>6, FreshType, FreshNodes DEF ObjectInv
<1>8. OnlyChanges(o)
  BY DEF OnlyChanges, Destroy, GlobalType
<1>9. QED
  BY <1>2, <1>7, <1>8, OthersKeepTheirInvariant DEF Destroy

\* CDO::set keeps the invariant
LEMMA SetInv ==
    ASSUME GlobalType, ObjectsInv, NEW c \in Cells, NEW v \in Values, Set(c, v)
    PROVE  GlobalType' /\ ObjectsInv'
<1>1. c \in Objects /\ c \notin Lists
  BY CellsAndListsDiffer DEF Objects
<1>2. ObjectType(c, v, scope[c], restore[c])
  BY <1>1 DEF ObjectsInv, ObjectInv, ObjectType
<1>3. QED
  BY <1>1, <1>2, LiveWriteInv DEF Set

\* CDList::push_back keeps the invariant: the size only grows
LEMMA PushBackInv ==
    ASSUME GlobalType, ObjectsInv, NEW l \in Lists, NEW v \in Values, PushBack(l, v)
    PROVE  GlobalType' /\ ObjectsInv'
<1> DEFINE new == Append(data[l], v)
<1>1. l \in Objects /\ l \notin Cells
  BY CellsAndListsDiffer DEF Objects
<1>2. ObjectType(l, data[l], scope[l], restore[l])
  BY <1>1 DEF ObjectsInv, ObjectInv
<1>3. data[l] \in Seq(Values) /\ Len(data[l]) < MaxLen
  BY <1>1, <1>2 DEF ObjectType, PushBack
<1>4. new \in Seq(Values) /\ Len(new) = Len(data[l]) + 1 /\ Len(data[l]) \in Nat
  BY <1>3
<1>5. ObjectType(l, new, scope[l], restore[l])
  BY <1>1, <1>2, <1>3, <1>4, BoundsAreNaturals DEF ObjectType
<1>6. Len(data[l]) <= Len(new)
  BY <1>4
<1>7. QED
  BY <1>1, <1>4, <1>5, <1>6, LiveWriteInv DEF PushBack

\* Every step of the library keeps the invariant
LEMMA StepInv == GlobalType /\ ObjectsInv /\ [Next]_vars => GlobalType' /\ ObjectsInv'
<1> SUFFICES ASSUME GlobalType, ObjectsInv, [Next]_vars
             PROVE  GlobalType' /\ ObjectsInv'
  OBVIOUS
<1>1. ASSUME NEW o \in Objects, Create(o)
      PROVE  GlobalType' /\ ObjectsInv'
  BY <1>1, CreateInv
<1>2. ASSUME NEW o \in Objects, Destroy(o)
      PROVE  GlobalType' /\ ObjectsInv'
  BY <1>2, DestroyInv
<1>3. ASSUME NEW c \in Cells, NEW v \in Values, CreateWith(c, v)
      PROVE  GlobalType' /\ ObjectsInv'
  BY <1>3, CreateWithInv
<1>4. ASSUME NEW c \in Cells, NEW v \in Values, Set(c, v)
      PROVE  GlobalType' /\ ObjectsInv'
  BY <1>4, SetInv
<1>5. ASSUME NEW l \in Lists, NEW v \in Values, PushBack(l, v)
      PROVE  GlobalType' /\ ObjectsInv'
  BY <1>5, PushBackInv
<1>6. CASE Push
  BY <1>6, PushInv
<1>7. CASE Pop
  BY <1>7, PopInv
<1>8. CASE UNCHANGED vars
  BY <1>8 DEF vars, GlobalType, ObjectsInv
<1>9. QED
  BY <1>1, <1>2, <1>3, <1>4, <1>5, <1>6, <1>7, <1>8 DEF Next

\* The context library keeps its saved copies ordered by scope, one per
\* scope, linked where a pop will find them, whatever its clients do.
THEOREM Invariance == Spec => []Inv
<1>1. Init => GlobalType /\ ObjectsInv
  BY InitInv
<1>2. GlobalType /\ ObjectsInv /\ [Next]_vars => GlobalType' /\ ObjectsInv'
  BY StepInv
<1>3. GlobalType /\ ObjectsInv => Inv
  BY InvByObject
<1>4. QED
  BY <1>1, <1>2, <1>3, PTL DEF Spec

\* Objects, scopes and saved copies keep their types, and the level its bound
\* (context.cpp).
THEOREM TypeCorrect == Spec => []TypeOK
<1>1. Inv => TypeOK
  BY DEF Inv
<1>2. QED
  BY <1>1, Invariance, PTL

\* An object has at most one copy per scope, ordered by scope, and a scope's list holds
\* the objects written in it: what ContextObj::update() and destroy() relink.
THEOREM ChainsStayWellFormed == Spec => []ChainsWellFormed
<1>1. Inv => ChainsWellFormed
  BY DEF Inv
<1>2. QED
  BY <1>1, Invariance, PTL

\* A list's saved sizes grow with the scopes, so that a pop only ever shortens it:
\* the assertion of CDList::truncateList().
THEOREM SizesStayOrdered == Spec => []SavedSizesOrdered
<1>1. Inv => SavedSizesOrdered
  BY DEF Inv
<1>2. QED
  BY <1>1, Invariance, PTL
-----------------------------------------------------------------------------
(***************************************************************************)
(* The refinement.  IndexOf finds the newest node of a scope not above l.  *)
(***************************************************************************)
IndexOf(ns, l) ==
    CHOOSE i \in DOMAIN ns :
        /\ ns[i].scope <= l
        /\ \A j \in DOMAIN ns : ns[j].scope <= l => j <= i

\* The well-order of the naturals, turned around below a bound
LEMMA LargestExists ==
    ASSUME NEW n \in Nat, NEW T, T \subseteq 0 .. n, T # {}
    PROVE  \E m \in T : \A k \in T : k <= m
<1> DEFINE Less == {p \in Nat \X Nat : p[1] < p[2]}
           U == {k \in Nat : k <= n /\ n - k \in T}
<1>1. IsWellFoundedOn(Less, Nat)
  <2>1. OpToRel(<, Nat) = Less
    BY DEF OpToRel
  <2>2. QED
    BY <2>1, NatLessThanWellFounded
<1>2. U \subseteq Nat /\ U # {}
  <2>1. PICK t \in T : TRUE
    OBVIOUS
  <2>2. t \in 0 .. n /\ n - t \in Nat /\ n - t <= n /\ n - (n - t) = t
    BY <2>1
  <2>3. QED
    BY <2>1, <2>2
<1>3. PICK x \in U : \A y \in U : <<y, x>> \notin Less
  <2> HIDE DEF U, Less
  <2>1. QED
    BY <1>1, <1>2, WFMin
<1>4. n - x \in T
  OBVIOUS
<1>5. ASSUME NEW k \in T
      PROVE  k <= n - x
  <2>1. k \in 0 .. n /\ n - k \in Nat /\ n - k <= n /\ n - (n - k) = k
    OBVIOUS
  <2>2. n - k \in U
    BY <2>1
  <2>3. ~(n - k < x)
    BY <1>3, <2>2
  <2>4. QED
    BY <2>1, <2>3
<1>6. QED
  BY <1>4, <1>5

\* In a well-formed chain there is a newest node at or below every scope
LEMMA NewestExists ==
    ASSUME NEW ns \in Seq(Node), Len(ns) > 0, ns[1].scope = 0, NEW l \in Nat
    PROVE  /\ IndexOf(ns, l) \in DOMAIN ns
           /\ ns[IndexOf(ns, l)].scope <= l
           /\ \A j \in DOMAIN ns : ns[j].scope <= l => j <= IndexOf(ns, l)
<1> DEFINE T == {i \in DOMAIN ns : ns[i].scope <= l}
<1>1. 1 \in T /\ T \subseteq 0 .. Len(ns) /\ Len(ns) \in Nat
  OBVIOUS
<1>2. \E m \in T : \A k \in T : k <= m
  <2> HIDE DEF T
  <2>1. QED
    BY <1>1, LargestExists
<1>3. QED
  BY <1>2 DEF IndexOf

\* and only one: whatever has its properties is it
LEMMA NewestIs ==
    ASSUME NEW ns \in Seq(Node), NEW l \in Nat, NEW i \in DOMAIN ns, ns[i].scope <= l,
           \A j \in DOMAIN ns : ns[j].scope <= l => j <= i
    PROVE  IndexOf(ns, l) = i
<1>1. \A k \in DOMAIN ns :
         ns[k].scope <= l /\ (\A j \in DOMAIN ns : ns[j].scope <= l => j <= k) => k = i
  OBVIOUS
<1>2. QED
  BY <1>1 DEF IndexOf

\* Nodes above scope l do not matter for the value at l
LEMMA SameNewest ==
    ASSUME NEW ns \in Seq(Node), NEW ms \in Seq(Node), NEW l \in Nat, NEW k \in Nat,
           k <= Len(ns), k <= Len(ms), Len(ns) > 0, ns[1].scope = 0,
           \A i \in 1 .. k : ms[i] = ns[i],
           \A i \in (k + 1) .. Len(ns) : ns[i].scope > l,
           \A i \in (k + 1) .. Len(ms) : ms[i].scope > l
    PROVE  IndexOf(ns, l) \in 1 .. k /\ IndexOf(ms, l) = IndexOf(ns, l)
<1> DEFINE i == IndexOf(ns, l)
<1>1. /\ i \in DOMAIN ns /\ ns[i].scope <= l
      /\ \A j \in DOMAIN ns : ns[j].scope <= l => j <= i
  BY NewestExists
<1>2. /\ DOMAIN ns = 1 .. Len(ns) /\ DOMAIN ms = 1 .. Len(ms)
      /\ \A j \in DOMAIN ns : ns[j].scope \in Nat
      /\ \A j \in DOMAIN ms : ms[j].scope \in Nat
      /\ Len(ns) \in Nat /\ Len(ms) \in Nat
  <2>1. /\ \A j \in DOMAIN ns : ns[j] \in Node
        /\ \A j \in DOMAIN ms : ms[j] \in Node
    OBVIOUS
  <2>2. \A n \in Node : n.scope \in Nat
    BY DEF Node
  <2>3. QED
    BY <2>1, <2>2
<1>3. i \in 1 .. k
  BY <1>1, <1>2
<1>4. i \in DOMAIN ms /\ ms[i].scope <= l
  BY <1>1, <1>2, <1>3
<1>5. \A j \in DOMAIN ms : ms[j].scope <= l => j <= i
  <2>1. ASSUME NEW j \in DOMAIN ms, ms[j].scope <= l
        PROVE  j \in 1 .. k
    BY <1>2, <2>1
  <2>2. QED
    BY <1>1, <1>2, <2>1
<1>6. QED
  BY <1>3, <1>4, <1>5, NewestIs

\* The value a pop back to scope l would leave in an object
ValueOf(o, d, ns, l) == RestoredFrom(o, d, ns[IndexOf(ns, l)].saved)

OldValue(o, l) ==
    IF o \in alive
    THEN ValueOf(o, data[o], NodesOf(o, data[o], scope[o], restore[o]), l)
    ELSE Absent

\* The mapping of module Context, in terms of node chains
LEMMA MappingIs ==
    /\ \A o \in Objects : \A l : ValueAt(o, l) = OldValue(o, l)
    /\ \A o \in Objects : \A l : ValueAt(o, l)' = OldValue(o, l)'
  BY DEF ValueAt, OldValue, ValueOf, IndexAt, IndexOf, Nodes, NodesOf

\* The facts about the nodes of an object that its invariant gives
NodesShape(o, d, s, r) ==
    LET ns == NodesOf(o, d, s, r)
        k  == Len(r) + 1
    IN  /\ ns \in Seq(Node) /\ r \in Seq(Node) /\ Len(r) \in Nat
        /\ Len(ns) = k /\ DOMAIN ns = 1 .. k /\ DOMAIN r = 1 .. Len(r)
        /\ ns[1].scope = 0
        /\ ns[k] = [scope |-> s, saved |-> SavedOf(o, d)]
        /\ \A i \in 1 .. Len(r) : ns[i] = r[i]
        /\ o \in Lists => \A i \in 1 .. k : ns[i].saved \in Nat /\ ns[i].saved <= Len(d)

\* and they hold of every object that meets its invariant
LEMMA NodesFacts ==
    ASSUME NEW o \in Objects, NEW d, NEW s, NEW r,
           ObjectType(o, d, s, r), WellFormed(o, NodesOf(o, d, s, r))
    PROVE  NodesShape(o, d, s, r)
<1> DEFINE ns == NodesOf(o, d, s, r)
           k == Len(r) + 1
<1>1. /\ r \in Seq(Node)
      /\ [scope |-> s, saved |-> SavedOf(o, d)] \in Node
  BY SaveType DEF ObjectType
<1>2. /\ ns \in Seq(Node) /\ Len(r) \in Nat /\ Len(ns) = k
      /\ DOMAIN ns = 1 .. k /\ DOMAIN r = 1 .. Len(r)
      /\ ns[k] = [scope |-> s, saved |-> SavedOf(o, d)]
      /\ \A i \in 1 .. Len(r) : ns[i] = r[i]
  BY <1>1 DEF NodesOf
<1>3. ASSUME o \in Lists, NEW i \in 1 .. k
      PROVE  ns[i].saved \in Nat /\ ns[i].saved <= Len(d)
  <2>1. /\ SavedOf(o, d) = Len(d) /\ Len(d) \in Nat
        /\ \A j \in DOMAIN r : r[j].saved \in Nat
    BY <1>3, CellsAndListsDiffer DEF ObjectType, SavedOf, Objects
  <2>2. CASE i = k
    BY <1>2, <2>1, <2>2
  <2>3. CASE i # k
    <3>1. i \in 1 .. Len(r) /\ i < k /\ k \in 1 .. k
      BY <1>2, <2>3
    <3>2. QED
      BY <1>2, <1>3, <2>1, <3>1 DEF WellFormed
  <2>4. QED
    BY <2>2, <2>3
<1>4. ns[1].scope = 0
  BY DEF WellFormed
<1>5. QED
  BY <1>1, <1>2, <1>3, <1>4 DEF NodesShape

\* Read at or above the scope of its last write, an object has its value
LEMMA ValueAtTop ==
    ASSUME NEW o \in Objects, NEW d, NEW s, NEW r, NEW l \in Nat, s <= l,
           ObjectType(o, d, s, r), WellFormed(o, NodesOf(o, d, s, r))
    PROVE  ValueOf(o, d, NodesOf(o, d, s, r), l) = d
<1> DEFINE ns == NodesOf(o, d, s, r)
           k == Len(r) + 1
<1>1. /\ ns \in Seq(Node) /\ Len(r) \in Nat
      /\ Len(ns) = Len(r) + 1 /\ DOMAIN ns = 1 .. (Len(r) + 1)
      /\ ns[Len(r) + 1] = [scope |-> s, saved |-> SavedOf(o, d)]
  <2>1. NodesShape(o, d, s, r)
    BY NodesFacts
  <2>2. QED
    BY <2>1 DEF NodesShape
<1>2. k \in DOMAIN ns /\ ns[k].scope <= l /\ \A j \in DOMAIN ns : j <= k
  BY <1>1
<1>3. IndexOf(ns, l) = k
  BY <1>1, <1>2, NewestIs
<1>4. ValueOf(o, d, ns, l) = RestoredFrom(o, d, SavedOf(o, d))
  BY <1>1, <1>3 DEF ValueOf
<1>5. RestoredFrom(o, d, SavedOf(o, d)) = d
  <2>1. CASE o \in Cells
    BY <2>1 DEF RestoredFrom, SavedOf
  <2>2. CASE o \notin Cells
    <3>1. d \in Seq(Values)
      BY <2>2 DEF ObjectType
    <3>2. SubSeq(d, 1, Len(d)) = d
      BY <3>1
    <3>3. QED
      BY <2>2, <3>2 DEF RestoredFrom, SavedOf
  <2>3. QED
    BY <2>1, <2>2
<1>6. QED
  BY <1>4, <1>5

\* A write in the top scope leaves the values at the lower scopes alone
LEMMA WriteKeepsOldValues ==
    ASSUME NEW o \in Objects, NEW d, NEW s, NEW r, NEW new, NEW top \in 0 .. MaxLevel,
           ObjectType(o, d, s, r), WellFormed(o, NodesOf(o, d, s, r)), s <= top,
           ObjectType(o, new, s, r),
           o \in Cells \/ \E v \in Values : new = Append(d, v),
           NEW l \in Nat, l < top
    PROVE  LET r2 == IF s = top THEN r ELSE NodesOf(o, d, s, r)
           IN  ValueOf(o, new, NodesOf(o, new, top, r2), l)
                   = ValueOf(o, d, NodesOf(o, d, s, r), l)
<1> DEFINE ns == NodesOf(o, d, s, r)
           r2 == IF s = top THEN r ELSE ns
           ms == NodesOf(o, new, top, r2)
           k == Len(r2)
<1>1. /\ ns \in Seq(Node) /\ Len(r) \in Nat /\ r \in Seq(Node)
      /\ Len(ns) = Len(r) + 1 /\ DOMAIN ns = 1 .. (Len(r) + 1)
      /\ ns[1].scope = 0
      /\ ns[Len(r) + 1] = [scope |-> s, saved |-> SavedOf(o, d)]
      /\ \A i \in 1 .. Len(r) : ns[i] = r[i]
      /\ o \in Lists => \A i \in 1 .. (Len(r) + 1) :
             ns[i].saved \in Nat /\ ns[i].saved <= Len(d)
  <2>1. NodesShape(o, d, s, r)
    BY NodesFacts
  <2>2. QED
    BY <2>1 DEF NodesShape
<1>2. top \in Nat /\ s \in Nat
  BY DEF ObjectType
<1>3. [scope |-> top, saved |-> SavedOf(o, new)] \in Node
  <2>1. ObjectType(o, new, top, <<>>)
    BY DEF ObjectType
  <2>2. QED
    BY <2>1, SaveType
<1>4. r2 \in Seq(Node) /\ k \in Nat /\ k <= Len(ns) /\ \A i \in 1 .. k : r2[i] = ns[i]
  BY <1>1
<1>5. /\ ms \in Seq(Node) /\ Len(ms) = k + 1
      /\ \A i \in 1 .. k : ms[i] = ns[i]
      /\ ms[k + 1].scope = top
  BY <1>3, <1>4 DEF NodesOf
<1>6. \A i \in (k + 1) .. Len(ms) : ms[i].scope > l
  BY <1>2, <1>4, <1>5
<1>7. \A i \in (k + 1) .. Len(ns) : ns[i].scope > l
  BY <1>1, <1>2, <1>4
<1>8. IndexOf(ns, l) \in 1 .. k /\ IndexOf(ms, l) = IndexOf(ns, l)
  <2>1. Len(ns) > 0 /\ k <= Len(ms)
    BY <1>1, <1>4, <1>5
  <2> HIDE DEF ns, ms, k
  <2>2. QED
    BY <1>1, <1>4, <1>5, <1>6, <1>7, <2>1, SameNewest
<1>9. /\ ValueOf(o, new, ms, l) = RestoredFrom(o, new, ns[IndexOf(ns, l)].saved)
      /\ IndexOf(ns, l) \in 1 .. (Len(r) + 1)
  BY <1>1, <1>4, <1>5, <1>8 DEF ValueOf
<1>10. CASE o \in Cells
  BY <1>9, <1>10 DEF ValueOf, RestoredFrom
<1>11. CASE o \notin Cells
  <2>1. o \in Lists /\ d \in Seq(Values)
    BY <1>11 DEF Objects, ObjectType
  <2>2. PICK v \in Values : new = Append(d, v)
    BY <1>11
  <2>3. \A n \in Nat : n <= Len(d) => SubSeq(Append(d, v), 1, n) = SubSeq(d, 1, n)
    BY <2>1
  <2>4. QED
    BY <1>1, <1>9, <1>11, <2>1, <2>2, <2>3 DEF ValueOf, RestoredFrom
<1>12. QED
  BY <1>10, <1>11

\* The mapping is typed; it reads as a sequence of snapshots
LEMMA SnapsIs ==
    ASSUME GlobalType
    PROVE  /\ DOMAIN Snaps = 1 .. level /\ Len(Snaps) = level /\ level \in Nat
           /\ DOMAIN Cur = Objects
           /\ \A o \in Objects : Cur[o] = IF o \in alive THEN data[o] ELSE Absent
           /\ \A i \in 1 .. level : /\ DOMAIN Snaps[i] = Objects
                                    /\ \A o \in Objects : Snaps[i][o] = OldValue(o, i - 1)
<1>1. level \in Nat
  BY DEF GlobalType
<1>2. /\ DOMAIN Snaps = 1 .. level
      /\ \A i \in 1 .. level : Snaps[i] = [o \in Objects |-> ValueAt(o, i - 1)]
  BY DEF Snaps
<1>3. Len(Snaps) = level
  BY <1>1, <1>2
<1>4. \A i \in 1 .. level : /\ DOMAIN Snaps[i] = Objects
                            /\ \A o \in Objects : Snaps[i][o] = OldValue(o, i - 1)
  <2>1. \A i \in 1 .. level : \A o \in Objects : ValueAt(o, i - 1) = OldValue(o, i - 1)
    BY MappingIs
  <2>2. QED
    BY <1>2, <2>1
<1>5. QED
  BY <1>1, <1>2, <1>3, <1>4 DEF Cur

\* The same of the state after a step
LEMMA SnapsNextIs ==
    ASSUME GlobalType'
    PROVE  /\ DOMAIN Snaps' = 1 .. level' /\ Len(Snaps') = level' /\ level' \in Nat
           /\ DOMAIN Cur' = Objects
           /\ Cur' = [o \in Objects |-> IF o \in alive' THEN data'[o] ELSE Absent]
           /\ Snaps' = [i \in 1 .. level' |-> [o \in Objects |-> OldValue(o, i - 1)']]
<1>1. level' \in Nat
  BY DEF GlobalType
<1>2. Snaps' = [i \in 1 .. level' |-> [o \in Objects |-> ValueAt(o, i - 1)']]
  BY DEF Snaps
<1>3. Len(Snaps') = level'
  BY <1>1, <1>2
<1>4. \A i \in 1 .. level' : \A o \in Objects : ValueAt(o, i - 1)' = OldValue(o, i - 1)'
  BY MappingIs
<1>5. Snaps' = [i \in 1 .. level' |-> [o \in Objects |-> OldValue(o, i - 1)']]
  BY <1>2, <1>4
<1>6. QED
  BY <1>1, <1>2, <1>3, <1>5 DEF Cur

\* When a step touches only the object o, so does it in the mapping
LEMMA OneObject ==
    ASSUME GlobalType, GlobalType', level' = level, NEW o \in Objects, OnlyChanges(o)
    PROVE  /\ Cur' = [Cur EXCEPT ![o] = Cur'[o]]
           /\ \A x : (\A i \in 1 .. level : OldValue(o, i - 1)' = x)
                 => Snaps' = [i \in DOMAIN Snaps |-> [Snaps[i] EXCEPT ![o] = x]]
           /\ (\A i \in 1 .. level : OldValue(o, i - 1)' = OldValue(o, i - 1))
                 => Snaps' = Snaps
<1>1. /\ DOMAIN Snaps = 1 .. level /\ level \in Nat
      /\ DOMAIN Cur = Objects
      /\ \A p \in Objects : Cur[p] = IF p \in alive THEN data[p] ELSE Absent
      /\ \A i \in 1 .. level : /\ DOMAIN Snaps[i] = Objects
                               /\ \A p \in Objects : Snaps[i][p] = OldValue(p, i - 1)
  BY SnapsIs
<1>2. /\ Cur' = [p \in Objects |-> IF p \in alive' THEN data'[p] ELSE Absent]
      /\ Snaps' = [i \in 1 .. level |-> [p \in Objects |-> OldValue(p, i - 1)']]
  BY SnapsNextIs
<1>3. \A p \in Objects : p # o => Cur'[p] = Cur[p]
  BY <1>1, <1>2 DEF OnlyChanges
<1>4. \A p \in Objects : \A l : p # o => OldValue(p, l)' = OldValue(p, l)
  BY DEF OnlyChanges, OldValue
<1>5. Snaps \in [1 .. level -> [Objects -> {Snaps[i][p] : i \in 1 .. level, p \in Objects}]]
  <2>1. Snaps = [i \in 1 .. level |-> Snaps[i]]
    BY <1>1 DEF Snaps
  <2>2. \A i \in 1 .. level : Snaps[i] = [p \in Objects |-> Snaps[i][p]]
    BY <1>1 DEF Snaps
  <2>3. QED
    BY <2>1, <2>2
<1>6. Cur = [p \in Objects |-> Cur[p]]
  BY DEF Cur
<1>7. Cur' = [Cur EXCEPT ![o] = Cur'[o]]
  BY <1>2, <1>3, <1>6
<1>8. ASSUME NEW x, \A i \in 1 .. level : OldValue(o, i - 1)' = x
      PROVE  Snaps' = [i \in DOMAIN Snaps |-> [Snaps[i] EXCEPT ![o] = x]]
  <2>1. \A i \in 1 .. level : \A p \in Objects :
            OldValue(p, i - 1)' = IF p = o THEN x ELSE Snaps[i][p]
    BY <1>1, <1>4, <1>8
  <2>2. \A i \in 1 .. level :
            [Snaps[i] EXCEPT ![o] = x] = [p \in Objects |-> IF p = o THEN x ELSE Snaps[i][p]]
    BY <1>1
  <2>3. QED
    BY <1>1, <1>2, <2>1, <2>2
<1>9. ASSUME \A i \in 1 .. level : OldValue(o, i - 1)' = OldValue(o, i - 1)
      PROVE  Snaps' = Snaps
  <2>1. \A i \in 1 .. level : \A p \in Objects : OldValue(p, i - 1)' = OldValue(p, i - 1)
    BY <1>4, <1>9
  <2>2. Snaps = [i \in 1 .. level |-> [p \in Objects |-> OldValue(p, i - 1)]]
    BY <1>1, <1>5
  <2>3. QED
    BY <1>2, <2>1, <2>2
<1>10. QED
  BY <1>7, <1>8, <1>9

\* What the abstract specification calls the live objects
LEMMA LiveIs ==
    ASSUME GlobalType, ObjectsInv, NEW o \in Objects
    PROVE  (o \in Snapshots!Live) <=> (o \in alive)
<1>1. /\ Cur[o] = IF o \in alive THEN data[o] ELSE Absent
      /\ ObjectType(o, data[o], scope[o], restore[o])
  BY DEF Cur, ObjectsInv, ObjectInv
<1>2. data[o] # Absent
  BY <1>1, AbsentIsNoValue DEF ObjectType
<1>3. QED
  BY <1>1, <1>2 DEF Snapshots!Live, Snapshots!Objects, Objects

\* A typed value is one the abstract specification allows
LEMMA ContentsIs ==
    ASSUME NEW o \in Objects, NEW d, NEW s, NEW r, ObjectType(o, d, s, r)
    PROVE  d \in Snapshots!Contents(o)
  BY DEF ObjectType, Snapshots!Contents

\* A construction is an abstract creation: default in every snapshot
LEMMA CreateRefines ==
    ASSUME GlobalType, ObjectsInv, NEW o \in Objects, Create(o)
    PROVE  Snapshots!Create(o)
<1>1. GlobalType' /\ ObjectsInv' /\ level' = level /\ OnlyChanges(o)
  BY CreateInv DEF OnlyChanges, Create, GlobalType
<1>2. /\ data'[o] = Fresh(o) /\ scope'[o] = 0 /\ restore'[o] = <<>>
      /\ o \in alive' /\ level \in Nat
  BY DEF GlobalType, Create
<1>3. \A i \in 1 .. level : OldValue(o, i - 1)' = Fresh(o)
  <2>1. \A l \in Nat : ValueOf(o, Fresh(o), NodesOf(o, Fresh(o), 0, <<>>), l) = Fresh(o)
    BY ValueAtTop, FreshType, FreshNodes
  <2>2. QED
    BY <1>2, <2>1 DEF OldValue
<1>4. Cur'[o] = Fresh(o)
  BY <1>2 DEF Cur
<1>5. Fresh(o) \in Snapshots!Contents(o)
  BY FreshType, ContentsIs
<1>6. o \notin Snapshots!Live
  BY LiveIs DEF Create
<1>7. Snapshots!Fresh(o) = Fresh(o)
  BY DEF Snapshots!Fresh, Fresh
<1>8. QED
  BY <1>1, <1>3, <1>4, <1>5, <1>6, <1>7, OneObject
  DEF Snapshots!Create, Snapshots!Assigned, Snapshots!Overwrite

\* So is one with a value: only the present sees the value
LEMMA CreateWithRefines ==
    ASSUME GlobalType, ObjectsInv, NEW c \in Cells, NEW v \in Values, CreateWith(c, v)
    PROVE  Snapshots!Create(c)
<1>1. c \in Objects /\ c \notin Lists /\ Fresh(c) = Default
  BY CellsAndListsDiffer DEF Objects, Fresh
<1>2. GlobalType' /\ ObjectsInv' /\ level' = level /\ OnlyChanges(c)
  BY <1>1, CreateWithInv DEF OnlyChanges, CreateWith, Write, GlobalType
<1>3. level \in Nat /\ level \in 0 .. MaxLevel
  BY DEF GlobalType
<1>4. /\ data'[c] = v /\ scope'[c] = level /\ c \in alive'
      /\ restore'[c] = IF 0 = level THEN <<>> ELSE NodesOf(c, Default, 0, <<>>)
  BY <1>1 DEF GlobalType, CreateWith, Write, NodesOf
<1>5. ObjectType(c, Default, 0, <<>>) /\ WellFormed(c, NodesOf(c, Default, 0, <<>>))
  BY <1>1, FreshType, FreshNodes
<1>6. ObjectType(c, v, 0, <<>>)
  BY <1>5 DEF ObjectType
<1>7. \A i \in 1 .. level : OldValue(c, i - 1)' = Fresh(c)
  <2>1. SUFFICES ASSUME NEW i \in 1 .. level
                 PROVE  OldValue(c, i - 1)' = Fresh(c)
    OBVIOUS
  <2>2. i - 1 \in Nat /\ i - 1 < level /\ 0 <= i - 1 /\ 0 <= level
    BY <1>3
  <2>3. OldValue(c, i - 1)' = ValueOf(c, Default, NodesOf(c, Default, 0, <<>>), i - 1)
    <3> DEFINE r2 == IF 0 = level THEN <<>> ELSE NodesOf(c, Default, 0, <<>>)
    <3>1. \A l \in Nat : l < level =>
              ValueOf(c, v, NodesOf(c, v, level, r2), l)
                  = ValueOf(c, Default, NodesOf(c, Default, 0, <<>>), l)
      <4>1. /\ ObjectType(c, Default, 0, <<>>) /\ ObjectType(c, v, 0, <<>>)
            /\ WellFormed(c, NodesOf(c, Default, 0, <<>>)) /\ 0 <= level
            /\ level \in 0 .. MaxLevel /\ c \in Objects
        BY <1>1, <1>3, <1>5, <1>6
      <4>2. ASSUME NEW d, NEW s, NEW r, NEW l \in Nat, l < level,
                   ObjectType(c, d, s, r), WellFormed(c, NodesOf(c, d, s, r)),
                   s <= level, ObjectType(c, v, s, r)
            PROVE  LET r3 == IF s = level THEN r ELSE NodesOf(c, d, s, r)
                   IN  ValueOf(c, v, NodesOf(c, v, level, r3), l)
                           = ValueOf(c, d, NodesOf(c, d, s, r), l)
        BY <4>1, <4>2, WriteKeepsOldValues
      <4>3. QED
        BY <4>1, <4>2
    <3>2. QED
      BY <1>4, <2>2, <3>1 DEF OldValue
  <2>4. QED
    BY <1>1, <1>5, <2>2, <2>3, ValueAtTop
<1>8. Cur'[c] = v
  BY <1>1, <1>4 DEF Cur
<1>9. v \in Snapshots!Contents(c)
  BY <1>1, <1>6, ContentsIs
<1>10. c \notin Snapshots!Live
  BY <1>1, LiveIs DEF CreateWith
<1>11. Snapshots!Fresh(c) = Fresh(c)
  BY DEF Snapshots!Fresh, Fresh
<1>12. QED
  BY <1>1, <1>2, <1>7, <1>8, <1>9, <1>10, <1>11, OneObject
  DEF Snapshots!Create, Snapshots!Assigned, Snapshots!Overwrite

\* Set and PushBack: the new value is for the present only
LEMMA LiveWriteRefines ==
    ASSUME GlobalType, ObjectsInv, NEW o \in Objects, o \in alive,
           NEW new \in Values \cup Seq(Values), ObjectType(o, new, scope[o], restore[o]),
           o \in Cells \/ \E v \in Values : new = Append(data[o], v),
           Write(o, scope[o], restore[o], data[o], new),
           GlobalType', UNCHANGED <<level, alive>>, OnlyChanges(o)
    PROVE  Snapshots!Write(o)
<1>1. /\ level \in Nat /\ level \in 0 .. MaxLevel
      /\ ObjectType(o, data[o], scope[o], restore[o])
      /\ WellFormed(o, NodesOf(o, data[o], scope[o], restore[o]))
      /\ scope[o] <= level
  BY DEF GlobalType, ObjectsInv, ObjectInv
<1> DEFINE r2 == IF scope[o] = level THEN restore[o]
                 ELSE NodesOf(o, data[o], scope[o], restore[o])
<1>2. data'[o] = new /\ scope'[o] = level /\ restore'[o] = r2
  BY DEF GlobalType, Write, NodesOf
<1>3. \A l \in Nat : l < level => OldValue(o, l)' = OldValue(o, l)
  <2>1. \A l \in Nat : l < level =>
            ValueOf(o, new, NodesOf(o, new, level, r2), l)
                = ValueOf(o, data[o], NodesOf(o, data[o], scope[o], restore[o]), l)
    BY <1>1, WriteKeepsOldValues
  <2>2. QED
    BY <1>2, <2>1 DEF OldValue
<1>4. \A i \in 1 .. level : i - 1 \in Nat /\ i - 1 < level
  BY <1>1
<1>5. Snaps' = Snaps /\ Cur' = [Cur EXCEPT ![o] = Cur'[o]]
  BY <1>3, <1>4, OneObject
<1>6. Cur'[o] = new
  BY <1>2 DEF Cur
<1>7. new \in Snapshots!Contents(o)
  BY ContentsIs
<1>8. QED
  BY <1>5, <1>6, <1>7, LiveIs DEF Snapshots!Write, Snapshots!Assigned

\* CDO::set is an abstract write
LEMMA SetRefines ==
    ASSUME GlobalType, ObjectsInv, NEW c \in Cells, NEW v \in Values, Set(c, v)
    PROVE  Snapshots!Write(c)
<1>1. c \in Objects
  BY DEF Objects
<1>2. ObjectType(c, v, scope[c], restore[c])
  BY <1>1 DEF ObjectsInv, ObjectInv, ObjectType
<1>3. GlobalType' /\ OnlyChanges(c)
  BY <1>1, SetInv DEF OnlyChanges, Set, Write, GlobalType
<1>4. QED
  BY <1>1, <1>2, <1>3, LiveWriteRefines DEF Set

\* CDList::push_back is an abstract write
LEMMA PushBackRefines ==
    ASSUME GlobalType, ObjectsInv, NEW l \in Lists, NEW v \in Values, PushBack(l, v)
    PROVE  Snapshots!Write(l)
<1>1. l \in Objects /\ l \notin Cells
  BY CellsAndListsDiffer DEF Objects
<1>2. GlobalType' /\ ObjectsInv' /\ OnlyChanges(l)
  BY <1>1, PushBackInv DEF OnlyChanges, PushBack, Write, GlobalType
<1>3. ObjectType(l, data[l], scope[l], restore[l]) /\ Len(data[l]) < MaxLen
  BY <1>1 DEF ObjectsInv, ObjectInv, PushBack
<1>4. data[l] \in Seq(Values) /\ Append(data[l], v) \in Seq(Values)
      /\ Len(Append(data[l], v)) = Len(data[l]) + 1 /\ Len(data[l]) \in Nat
  BY <1>1, <1>3 DEF ObjectType
<1>5. ObjectType(l, Append(data[l], v), scope[l], restore[l])
  BY <1>1, <1>3, <1>4, BoundsAreNaturals DEF ObjectType
<1>6. QED
  BY <1>1, <1>2, <1>4, <1>5, LiveWriteRefines DEF PushBack

\* A destruction removes the object from every snapshot
LEMMA DestroyRefines ==
    ASSUME GlobalType, ObjectsInv, NEW o \in Objects, Destroy(o)
    PROVE  Snapshots!Destroy(o)
<1>1. GlobalType' /\ OnlyChanges(o) /\ level' = level /\ o \notin alive'
  BY DestroyInv DEF OnlyChanges, Destroy, GlobalType
<1>2. \A i \in 1 .. level : OldValue(o, i - 1)' = Absent
  BY <1>1 DEF OldValue
<1>3. Cur'[o] = Absent
  BY <1>1 DEF Cur
<1>4. /\ Cur' = [Cur EXCEPT ![o] = Absent]
      /\ Snaps' = [i \in DOMAIN Snaps |-> [Snaps[i] EXCEPT ![o] = Absent]]
  <2>1. GlobalType /\ GlobalType' /\ level' = level /\ OnlyChanges(o)
    BY <1>1
  <2>2. QED
    BY <1>2, <1>3, <2>1, OneObject
<1>5. o \in Snapshots!Live
  BY LiveIs DEF Destroy
<1>6. QED
  BY <1>4, <1>5 DEF Snapshots!Destroy, Snapshots!Overwrite

\* A push, which copies nothing, is an abstract push, which copies all
LEMMA PushRefines ==
    ASSUME GlobalType, ObjectsInv, Push
    PROVE  Snapshots!Push
<1>1. GlobalType' /\ level' = level + 1 /\ level \in Nat
  BY PushInv DEF Push, GlobalType
<1>2. Cur' = Cur
  BY DEF Cur, Push
<1>3. /\ Snaps' = [i \in 1 .. level' |-> [o \in Objects |-> OldValue(o, i - 1)']]
      /\ Len(Snaps) = level /\ DOMAIN Snaps = 1 .. level
  BY <1>1, SnapsIs, SnapsNextIs
<1>4. \A o \in Objects : \A l : OldValue(o, l)' = OldValue(o, l)
  BY DEF OldValue, Push
<1>5. \A i \in 1 .. level : Snaps'[i] = Snaps[i]
  BY <1>1, <1>3, <1>4, MappingIs DEF Snaps
<1>6. Snaps'[level + 1] = Cur
  <2>1. \A o \in Objects : OldValue(o, level) = Cur[o]
    BY <1>1, ValueAtTop DEF OldValue, Cur, ObjectsInv, ObjectInv
  <2>2. Snaps'[level + 1] = [o \in Objects |-> OldValue(o, level)]
    BY <1>1, <1>3, <1>4
  <2>3. QED
    BY <2>1, <2>2 DEF Cur
<1>7. Snaps' = Append(Snaps, Cur)
  <2> DEFINE S == {Snaps[i] : i \in 1 .. level} \cup {Cur}
  <2>1. Snaps \in Seq(S) /\ Cur \in S
    <3>1. Snaps = [i \in 1 .. level |-> Snaps[i]]
      BY <1>3 DEF Snaps
    <3>2. \A i \in 1 .. level : Snaps[i] \in S
      OBVIOUS
    <3>3. Cur \in S
      OBVIOUS
    <3> HIDE DEF S
    <3>4. Snaps \in [1 .. level -> S]
      BY <3>1, <3>2
    <3>5. QED
      BY <1>1, <3>3, <3>4
  <2>2. Snaps' \in Seq(S) /\ Len(Snaps') = level + 1
    <3>1. Snaps' = [i \in 1 .. (level + 1) |-> Snaps'[i]]
      BY <1>1, <1>3
    <3>2. \A i \in 1 .. (level + 1) : Snaps'[i] \in S
      BY <1>1, <1>5, <1>6
    <3>3. Snaps' \in [1 .. (level + 1) -> S]
      BY <3>1, <3>2
    <3>4. QED
      BY <1>1, <3>3
  <2> HIDE DEF S
  <2>3. /\ Append(Snaps, Cur) \in Seq(S) /\ Len(Append(Snaps, Cur)) = level + 1
        /\ \A i \in 1 .. level : Append(Snaps, Cur)[i] = Snaps[i]
        /\ Append(Snaps, Cur)[level + 1] = Cur
    BY <1>1, <1>3, <2>1
  <2>4. QED
    BY <1>1, <1>5, <1>6, <2>2, <2>3
<1>8. QED
  BY <1>2, <1>7 DEF Snapshots!Push

\* Truncating to a later size first makes no difference
LEMMA RestoreTwice ==
    ASSUME NEW o \in Objects, NEW d, NEW s, NEW r, ObjectType(o, d, s, r),
           NEW m, NEW n, o \in Lists => m \in Nat /\ n \in Nat /\ m <= n /\ n <= Len(d)
    PROVE  RestoredFrom(o, RestoredFrom(o, d, n), m) = RestoredFrom(o, d, m)
<1>1. CASE o \in Cells
  BY <1>1 DEF RestoredFrom
<1>2. CASE o \notin Cells
  <2>1. d \in Seq(Values) /\ m \in Nat /\ n \in Nat /\ m <= n /\ n <= Len(d)
    BY <1>2 DEF Objects, ObjectType
  <2>2. SubSeq(SubSeq(d, 1, n), 1, m) = SubSeq(d, 1, m)
    BY <2>1
  <2>3. QED
    BY <1>2, <2>2 DEF RestoredFrom
<1>3. QED
  BY <1>1, <1>2

\* Taking the newest node away leaves the values below it alone
LEMMA RestoreKeepsOldValues ==
    ASSUME NEW o \in Objects, NEW d, NEW s, NEW r, ObjectType(o, d, s, r), r # <<>>,
           WellFormed(o, NodesOf(o, d, s, r)), NEW l \in Nat, l < s
    PROVE  ValueOf(o, RestoredFrom(o, d, Last(r).saved), r, l)
               = ValueOf(o, d, NodesOf(o, d, s, r), l)
<1> DEFINE ns == NodesOf(o, d, s, r)
           k == Len(r)
<1>1. /\ ns \in Seq(Node) /\ Len(r) \in Nat /\ r \in Seq(Node)
      /\ Len(ns) = Len(r) + 1 /\ DOMAIN ns = 1 .. (Len(r) + 1)
      /\ ns[1].scope = 0
      /\ ns[Len(r) + 1] = [scope |-> s, saved |-> SavedOf(o, d)]
      /\ \A i \in 1 .. Len(r) : ns[i] = r[i]
      /\ o \in Lists => \A i \in 1 .. (Len(r) + 1) :
             ns[i].saved \in Nat /\ ns[i].saved <= Len(d)
  <2>1. NodesShape(o, d, s, r)
    BY NodesFacts
  <2>2. QED
    BY <2>1 DEF NodesShape
<1>2. IndexOf(ns, l) \in 1 .. k /\ IndexOf(r, l) = IndexOf(ns, l)
  <2>1. /\ k <= Len(ns) /\ k <= Len(r) /\ Len(ns) > 0
        /\ \A i \in (k + 1) .. Len(ns) : ns[i].scope > l
        /\ \A i \in (k + 1) .. Len(r) : r[i].scope > l
        /\ \A i \in 1 .. k : r[i] = ns[i]
        /\ k \in Nat
    BY <1>1 DEF ObjectType
  <2> HIDE DEF ns, k
  <2>2. QED
    BY <1>1, <2>1, SameNewest
<1>3. k \in 1 .. (Len(r) + 1) /\ Last(r) = ns[k]
  BY <1>1 DEF Last
<1> DEFINE i == IndexOf(ns, l)
<1>4. o \in Lists => /\ ns[i].saved \in Nat /\ ns[k].saved \in Nat
                     /\ ns[i].saved <= ns[k].saved /\ ns[k].saved <= Len(d)
  <2>1. i \in DOMAIN ns /\ k \in DOMAIN ns /\ (i = k \/ i < k)
    BY <1>1, <1>2
  <2>2. QED
    BY <1>1, <2>1 DEF WellFormed
<1>5. ValueOf(o, RestoredFrom(o, d, Last(r).saved), r, l)
          = RestoredFrom(o, RestoredFrom(o, d, ns[k].saved), ns[i].saved)
  BY <1>1, <1>2, <1>3 DEF ValueOf
<1>6. RestoredFrom(o, RestoredFrom(o, d, ns[k].saved), ns[i].saved)
          = RestoredFrom(o, d, ns[i].saved)
  BY <1>4, RestoreTwice
<1>7. QED
  BY <1>5, <1>6 DEF ValueOf

\* A pop, which restores the objects of one scope, is an abstract pop
LEMMA PopRefines ==
    ASSUME GlobalType, ObjectsInv, Pop
    PROVE  Snapshots!Pop
<1> DEFINE back == {o \in chain[level] : restore[o] # <<>>}
<1>1. /\ GlobalType' /\ level' = level - 1 /\ level \in Nat \ {0} /\ alive' = alive
  BY PopInv DEF Pop, DeleteTopScope, GlobalType
<1>2. ASSUME NEW o \in Objects, o \in alive
      PROVE  /\ data'[o] = OldValue(o, level - 1)
             /\ \A i \in 1 .. (level - 1) : OldValue(o, i - 1)' = OldValue(o, i - 1)
  <2> DEFINE d == data[o]  s == scope[o]  r == restore[o]
             ns == NodesOf(o, d, s, r)
  <2>1. /\ ObjectType(o, d, s, r) /\ WellFormed(o, ns) /\ s <= level /\ s \in Nat
        /\ \A l \in 0 .. MaxLevel : (o \in chain[l]) <=> HasNodeIn(ns, l)
        /\ level \in 0 .. MaxLevel
    BY <1>2 DEF ObjectsInv, ObjectInv, ObjectType, GlobalType
  <2>2. /\ ns \in Seq(Node) /\ Len(r) \in Nat /\ r \in Seq(Node)
        /\ Len(ns) = Len(r) + 1 /\ DOMAIN ns = 1 .. (Len(r) + 1)
        /\ ns[1].scope = 0
        /\ ns[Len(r) + 1] = [scope |-> s, saved |-> SavedOf(o, d)]
    <3>1. NodesShape(o, d, s, r)
      BY <2>1, NodesFacts
    <3>2. QED
      BY <3>1 DEF NodesShape
  <2>3. CASE s = level
    <3>1. HasNodeIn(ns, level)
      BY <2>2, <2>3 DEF HasNodeIn
    <3>2. r # <<>>
      BY <1>1, <2>2, <2>3
    <3>3. o \in back
      BY <2>1, <3>1, <3>2
    <3>4. /\ data'[o] = RestoredFrom(o, d, Last(r).saved)
          /\ scope'[o] = Last(r).scope
          /\ restore'[o] = Front(r)
      BY <3>3 DEF Pop, DeleteTopScope
    <3>5. /\ NodesOf(o, data'[o], scope'[o], restore'[o]) = r
          /\ o \in Lists => Last(r).saved \in Nat /\ Last(r).saved <= Len(d)
          /\ WellFormed(o, r)
          /\ Last(r).scope \in 0 .. MaxLevel /\ Last(r).scope < s
      BY <2>1, <3>2, <3>4, RestoreNodes
    <3>6. ObjectType(o, data'[o], scope'[o], restore'[o])
      BY <2>1, <3>2, <3>4, <3>5, RestoreType
    <3>7. \A l \in Nat : l < s =>
              ValueOf(o, data'[o], NodesOf(o, data'[o], scope'[o], restore'[o]), l)
                  = ValueOf(o, d, ns, l)
      BY <2>1, <3>2, <3>4, <3>5, RestoreKeepsOldValues
    <3>8. scope'[o] <= level - 1 /\ level - 1 \in Nat /\ level - 1 < s
      BY <1>1, <2>3, <3>4, <3>5
    <3>9. ValueOf(o, data'[o], NodesOf(o, data'[o], scope'[o], restore'[o]), level - 1)
              = data'[o]
      BY <3>5, <3>6, <3>8, ValueAtTop
    <3>10. data'[o] = OldValue(o, level - 1)
      BY <1>2, <3>7, <3>8, <3>9 DEF OldValue
    <3>11. \A l \in Nat : l < s => OldValue(o, l)' = OldValue(o, l)
      BY <1>1, <1>2, <3>7 DEF OldValue
    <3>12. \A i \in 1 .. (level - 1) : i - 1 \in Nat /\ i - 1 < s
      BY <1>1, <2>3
    <3>13. QED
      BY <3>10, <3>11, <3>12
  <2>4. CASE s # level
    <3>1. s <= level - 1 /\ level - 1 \in Nat
      BY <1>1, <2>1, <2>4
    <3>2. o \notin chain[level]
      <4>1. SUFFICES ASSUME HasNodeIn(ns, level) PROVE FALSE
        BY <2>1
      <4>2. PICK i \in DOMAIN ns : ns[i].scope = level
        BY <4>1 DEF HasNodeIn
      <4>3. i # Len(r) + 1 /\ i < Len(r) + 1 /\ Len(r) + 1 \in DOMAIN ns
        BY <2>2, <2>4, <4>2
      <4>4. level < s
        BY <2>1, <2>2, <4>2, <4>3, SMTT(30) DEF WellFormed
      <4>5. QED
        BY <1>1, <2>1, <4>4
    <3>3. data'[o] = d /\ scope'[o] = s /\ restore'[o] = r
      BY <3>2 DEF Pop, DeleteTopScope
    <3>4. OldValue(o, level - 1) = d
      BY <1>2, <2>1, <3>1, ValueAtTop DEF OldValue
    <3>5. \A l : OldValue(o, l)' = OldValue(o, l)
      BY <1>1, <3>3 DEF OldValue
    <3>6. QED
      BY <3>3, <3>4, <3>5
  <2>5. QED
    BY <2>3, <2>4
<1>3. ASSUME NEW o \in Objects, o \notin alive, NEW l
      PROVE  OldValue(o, l) = Absent /\ OldValue(o, l)' = Absent
  BY <1>1, <1>3 DEF OldValue
<1>4. /\ DOMAIN Snaps = 1 .. level /\ Len(Snaps) = level
      /\ Snaps[level] = [o \in Objects |-> ValueAt(o, level - 1)]
  BY <1>1, SnapsIs DEF Snaps
<1>5. Cur' = Snaps[Len(Snaps)]
  <2>1. \A o \in Objects : ValueAt(o, level - 1) = IF o \in alive' THEN data'[o] ELSE Absent
    BY <1>1, <1>2, <1>3, MappingIs
  <2>2. QED
    BY <1>4, <2>1 DEF Cur
<1>6. Snaps' = SubSeq(Snaps, 1, Len(Snaps) - 1)
  <2>1. Snaps' = [i \in 1 .. (level - 1) |-> [o \in Objects |-> OldValue(o, i - 1)']]
    BY <1>1, SnapsNextIs
  <2>2. \A i \in 1 .. (level - 1) : \A o \in Objects : OldValue(o, i - 1)' = ValueAt(o, i - 1)
    BY <1>2, <1>3, MappingIs
  <2>3. \A i \in 1 .. (level - 1) : Snaps[i] = [o \in Objects |-> ValueAt(o, i - 1)]
    BY <1>1 DEF Snaps
  <2>4. Snaps' = [i \in 1 .. (level - 1) |-> Snaps[i]]
    BY <2>1, <2>2, <2>3
  <2>5. SubSeq(Snaps, 1, level - 1) = [i \in 1 .. (level - 1) |-> Snaps[i]]
    BY <1>1, <1>4
  <2>6. QED
    BY <1>4, <2>4, <2>5
<1>7. Snaps # <<>>
  BY <1>1, <1>4
<1>8. QED
  BY <1>5, <1>6, <1>7 DEF Snapshots!Pop

\* The initial states correspond
LEMMA InitRefines == Init => Snapshots!Init
<1> SUFFICES ASSUME Init PROVE Snapshots!Init
  OBVIOUS
<1>1. Cur = [o \in Objects |-> Absent]
  BY DEF Cur, Init
<1>2. Snaps = <<>>
  BY DEF Snaps, Init
<1>3. QED
  BY <1>1, <1>2 DEF Snapshots!Init, Snapshots!Objects, Objects

\* Every step is an abstract step or changes nothing the mapping sees
LEMMA StepRefines ==
    GlobalType /\ ObjectsInv /\ [Next]_vars => [Snapshots!Next]_(Snapshots!vars)
<1> SUFFICES ASSUME GlobalType, ObjectsInv, [Next]_vars
             PROVE  [Snapshots!Next]_(Snapshots!vars)
  OBVIOUS
<1>1. Snapshots!Objects = Objects
  BY DEF Snapshots!Objects, Objects
<1>2. ASSUME NEW o \in Objects, Create(o) PROVE Snapshots!Next
  BY <1>1, <1>2, CreateRefines DEF Snapshots!Next
<1>3. ASSUME NEW o \in Objects, Destroy(o) PROVE Snapshots!Next
  BY <1>1, <1>3, DestroyRefines DEF Snapshots!Next
<1>4. ASSUME NEW c \in Cells, NEW v \in Values, CreateWith(c, v) PROVE Snapshots!Next
  BY <1>1, <1>4, CreateWithRefines DEF Snapshots!Next, Objects
<1>5. ASSUME NEW c \in Cells, NEW v \in Values, Set(c, v) PROVE Snapshots!Next
  BY <1>1, <1>5, SetRefines DEF Snapshots!Next, Objects
<1>6. ASSUME NEW l \in Lists, NEW v \in Values, PushBack(l, v) PROVE Snapshots!Next
  BY <1>1, <1>6, PushBackRefines DEF Snapshots!Next, Objects
<1>7. CASE Push
  BY <1>7, PushRefines DEF Snapshots!Next
<1>8. CASE Pop
  BY <1>8, PopRefines DEF Snapshots!Next
<1>9. CASE UNCHANGED vars
  <2>1. Cur' = Cur
    BY <1>9 DEF vars, Cur
  <2>2. Snaps' = Snaps
    BY <1>9 DEF vars, Snaps, ValueAt, IndexAt, Nodes
  <2>3. QED
    BY <2>1, <2>2 DEF Snapshots!vars
<1>10. QED
  BY <1>2, <1>3, <1>4, <1>5, <1>6, <1>7, <1>8, <1>9 DEF Next

\* The lazily saving context behaves as if every push copied every object
\* and every pop copied all of them back, for any objects and any depth.
THEOREM Refinement == Spec => ImplementsSnapshots
<1>1. Init => Snapshots!Init
  BY InitRefines
<1>2. GlobalType /\ ObjectsInv /\ [Next]_vars => [Snapshots!Next]_(Snapshots!vars)
  BY StepRefines
<1>3. Init => GlobalType /\ ObjectsInv
  BY InitInv
<1>4. GlobalType /\ ObjectsInv /\ [Next]_vars => GlobalType' /\ ObjectsInv'
  BY StepInv
<1>5. QED
  BY <1>1, <1>2, <1>3, <1>4, PTL DEF Spec, ImplementsSnapshots, Snapshots!Spec
=============================================================================
