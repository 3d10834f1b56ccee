------------------------- MODULE BoundManagerProofs -------------------------
(***************************************************************************)
(* Proofs about BoundManager, for any variables, any bounds, any tolerance *)
(* and any depth: the consistency flag, the blamed variable and the        *)
(* nesting of the scopes, what a precision restoration leaves alone, and   *)
(* that the bounds implement a stack of boxes.                             *)
(***************************************************************************)
EXTENDS BoundManager, TLAPS, SequenceTheorems

\* b is at least as tight as c
Within(b, c) == \A k \in Keys : ~Tighter(k, c[k], b[k])

Scope == [stored : Boxes, consistent : BOOLEAN]

\* The bounds of the current scope, whether or not the arrays hold them
Current == IF synced THEN bound ELSE stored
-----------------------------------------------------------------------------
(***************************************************************************)
(* Boxes.                                                                  *)
(***************************************************************************)
\* A bound of a box is an integer
LEMMA BoxType ==
    ASSUME NEW b \in Boxes, NEW k \in Keys
    PROVE  b[k] \in Bounds /\ b[k] \in Int
  BY BoundsAreNumbers DEF Boxes

\* The two keys of a variable
LEMMA KeysOf ==
    /\ \A v \in Variables : <<v, "LB">> \in Keys /\ <<v, "UB">> \in Keys
    /\ \A k \in Keys : k[1] \in Variables /\ k[2] \in Types /\ k = <<k[1], k[2]>> /\ k # NoKey
  BY DEF Keys, Types, NoKey

\* A box is within itself
LEMMA WithinRefl ==
    ASSUME NEW b \in Boxes
    PROVE  Within(b, b)
  BY BoxType DEF Within, Tighter

\* Nesting is transitive
LEMMA WithinTrans ==
    ASSUME NEW b \in Boxes, NEW c \in Boxes, NEW d \in Boxes, Within(b, c), Within(c, d)
    PROVE  Within(b, d)
<1> SUFFICES ASSUME NEW k \in Keys PROVE ~Tighter(k, d[k], b[k])
  BY DEF Within
<1>1. ~Tighter(k, c[k], b[k]) /\ ~Tighter(k, d[k], c[k])
  BY DEF Within
<1>2. b[k] \in Int /\ c[k] \in Int /\ d[k] \in Int
  BY BoxType
<1>3. QED
  BY <1>1, <1>2 DEF Tighter

\* Bounds that cross in a box cross in every box within it
LEMMA CrossingWithin ==
    ASSUME NEW b \in Boxes, NEW c \in Boxes, Within(b, c), NEW v \in Variables,
           ConsistentIn(b, v)
    PROVE  ConsistentIn(c, v)
<1>1. /\ b[<<v, "LB">>] \in Int /\ b[<<v, "UB">>] \in Int
      /\ c[<<v, "LB">>] \in Int /\ c[<<v, "UB">>] \in Int
  BY BoxType, KeysOf
<1>2. /\ ~Tighter(<<v, "LB">>, c[<<v, "LB">>], b[<<v, "LB">>])
      /\ ~Tighter(<<v, "UB">>, c[<<v, "UB">>], b[<<v, "UB">>])
  BY KeysOf DEF Within
<1>3. c[<<v, "LB">>] <= b[<<v, "LB">>] /\ c[<<v, "UB">>] >= b[<<v, "UB">>]
  BY <1>1, <1>2 DEF Tighter
<1>4. QED
  BY <1>1, <1>3, ToleranceIsANumber DEF ConsistentIn

\* Tightening one bound narrows the box, and only its variable can come to cross
LEMMA TightenedBox ==
    ASSUME NEW b \in Boxes, NEW k \in Keys, NEW x \in Bounds, Tighter(k, x, b[k])
    PROVE  LET c == [b EXCEPT ![k] = x] IN
           /\ c \in Boxes
           /\ Within(c, b)
           /\ ConsistentBox(c) <=> ConsistentBox(b) /\ ConsistentIn(c, k[1])
<1> DEFINE c == [b EXCEPT ![k] = x]
<1>1. c \in Boxes
  BY DEF Boxes
<1>2. \A j \in Keys : c[j] = IF j = k THEN x ELSE b[j]
  BY DEF Boxes
<1> HIDE DEF c
<1>3. Within(c, b)
  <2> SUFFICES ASSUME NEW j \in Keys PROVE ~Tighter(j, b[j], c[j])
    BY DEF Within
  <2>1. b[j] \in Int /\ c[j] \in Int
    BY <1>1, BoxType
  <2>2. QED
    BY <1>2, <2>1 DEF Tighter
<1>4. ASSUME NEW v \in Variables, v # k[1]
      PROVE  ConsistentIn(c, v) <=> ConsistentIn(b, v)
  <2>1. <<v, "LB">> # k /\ <<v, "UB">> # k
    BY <1>4
  <2>2. QED
    BY <1>2, <2>1, KeysOf DEF ConsistentIn
<1>5. ConsistentIn(c, k[1]) => ConsistentIn(b, k[1])
  BY <1>1, <1>3, CrossingWithin, KeysOf
<1>6. ConsistentBox(c) <=> ConsistentBox(b) /\ ConsistentIn(c, k[1])
  BY <1>4, <1>5, KeysOf DEF ConsistentBox
<1>7. QED
  BY <1>1, <1>3, <1>6 DEF c

\* Tightening the stored bounds to the tighter ones backed up gives the latter
LEMMA RetightenGivesBackup ==
    ASSUME NEW b \in Boxes, NEW c \in Boxes, Within(b, c)
    PROVE  Retighten(b, c) = b
<1>1. \A k \in Keys : (IF Tighter(k, b[k], c[k]) THEN b[k] ELSE c[k]) = b[k]
  <2> TAKE k \in Keys
  <2>1. b[k] \in Int /\ c[k] \in Int /\ ~Tighter(k, c[k], b[k]) /\ k[2] \in Types
    BY BoxType, KeysOf DEF Within
  <2>2. QED
    BY <2>1 DEF Tighter
<1>2. QED
  BY <1>1 DEF Retighten, Boxes
-----------------------------------------------------------------------------
(***************************************************************************)
(* The inductive invariant.                                                *)
(***************************************************************************)
Types0 ==
    /\ bound \in Boxes
    /\ stored \in Boxes
    /\ consistent \in BOOLEAN
    /\ first \in Keys \cup {NoKey}
    /\ saved \in Seq(Scope)
    /\ Level <= MaxLevel
    /\ synced \in BOOLEAN

Nested ==
    /\ Within(bound, stored)
    /\ \A i \in DOMAIN saved : Within(stored, saved[i].stored)
    /\ \A i, j \in DOMAIN saved : i <= j => Within(saved[j].stored, saved[i].stored)

\* first, whatever it blames, blames for every conflict there is: a conflict
\* seen in a scope is the one seen first
Blames(f, b) == ~ConsistentBox(b) => f \in Keys /\ ~ConsistentIn(b, f[1])

Blame ==
    /\ Blames(first, Current)
    /\ \A i \in DOMAIN saved : Blames(first, saved[i].stored)

\* An engine of a DnC worker tightens nothing before the SnC split
Untouched == SnC /\ saved = <<>> => bound = stored

Inv == Types0 /\ Nested /\ FlagExact /\ Blame /\ Untouched

\* Types0 and Nested in the terms of the module
LEMMA NestedIsScopesNested == Nested <=> ScopesNested
  BY DEF Nested, ScopesNested, Within

\* The invariant holds of fresh bounds
LEMMA InitInv == Init => Inv
<1> SUFFICES ASSUME Init PROVE Inv
  OBVIOUS
<1>1. /\ bound \in Boxes /\ stored = bound /\ saved = <<>> /\ synced = TRUE
      /\ consistent = ConsistentBox(bound)
  BY DEF Init
<1>2. consistent \in BOOLEAN
  BY <1>1 DEF ConsistentBox
<1>3. ~consistent => \E v \in Variables : first = <<v, "UB">> /\ ~ConsistentIn(bound, v)
  BY DEF Init
<1>4. consistent => first = NoKey
  BY DEF Init
<1>5. /\ first \in Keys \cup {NoKey}
      /\ ~consistent => first \in Keys /\ ~ConsistentIn(bound, first[1])
  BY <1>2, <1>3, <1>4, KeysOf
<1>6. Types0
  BY <1>1, <1>2, <1>5, MaxLevelIsPositive DEF Types0, Level
<1>7. Nested
  BY <1>1, WithinRefl DEF Nested
<1>8. FlagExact
  BY <1>1 DEF FlagExact
<1>9. Blame
  BY <1>1, <1>5 DEF Blame, Blames, Current
<1>10. QED
  BY <1>1, <1>6, <1>7, <1>8, <1>9 DEF Inv, Untouched

\* The scopes: their bounds are boxes, the current box is within all of them
LEMMA ScopeFacts ==
    ASSUME Inv
    PROVE  /\ Current \in Boxes
           /\ Within(Current, stored)
           /\ \A i \in DOMAIN saved : /\ saved[i] \in Scope
                                      /\ saved[i].stored \in Boxes
                                      /\ Within(Current, saved[i].stored)
<1>1. Current \in Boxes /\ Within(Current, stored)
  BY WithinRefl DEF Inv, Types0, Nested, Current
<1>2. ASSUME NEW i \in DOMAIN saved
      PROVE  saved[i] \in Scope /\ saved[i].stored \in Boxes
  <2>1. saved \in Seq(Scope)
    BY DEF Inv, Types0
  <2>2. saved[i] \in Scope
    BY <1>2, <2>1
  <2>3. QED
    BY <2>2 DEF Scope
<1>3. ASSUME NEW i \in DOMAIN saved
      PROVE  Within(Current, saved[i].stored)
  <2>1. Within(stored, saved[i].stored) /\ stored \in Boxes
    BY <1>3 DEF Inv, Types0, Nested
  <2>2. QED
    BY <1>1, <1>2, <1>3, <2>1, WithinTrans
<1>4. QED
  BY <1>1, <1>2, <1>3

\* If the bounds do not cross, they cross in no scope
LEMMA ConsistentBelow ==
    ASSUME Inv, consistent
    PROVE  \A i \in DOMAIN saved : ConsistentBox(saved[i].stored)
<1>1. ConsistentBox(Current)
  BY DEF Inv, FlagExact, Current
<1>2. QED
  BY <1>1, ScopeFacts, CrossingWithin DEF ConsistentBox

\* Pushes extend the sequence of scopes by one
LEMMA Appended ==
    ASSUME NEW sc \in Seq(Scope), NEW e \in Scope
    PROVE  /\ Append(sc, e) \in Seq(Scope)
           /\ Len(Append(sc, e)) = Len(sc) + 1
           /\ DOMAIN Append(sc, e) = 1 .. Len(sc) + 1
           /\ DOMAIN sc = 1 .. Len(sc)
           /\ \A i \in 1 .. Len(sc) : Append(sc, e)[i] = sc[i]
           /\ Append(sc, e)[Len(sc) + 1] = e
  OBVIOUS

\* Pops cut it
LEMMA Cut ==
    ASSUME NEW sc \in Seq(Scope), NEW n \in 0 .. Len(sc)
    PROVE  /\ SubSeq(sc, 1, n) \in Seq(Scope)
           /\ Len(SubSeq(sc, 1, n)) = n
           /\ DOMAIN SubSeq(sc, 1, n) = 1 .. n
           /\ DOMAIN sc = 1 .. Len(sc)
           /\ \A i \in 1 .. n : SubSeq(sc, 1, n)[i] = sc[i]
  OBVIOUS
-----------------------------------------------------------------------------
(***************************************************************************)
(* Every step keeps the invariant.                                         *)
(***************************************************************************)
\* A deduction
LEMMA TightenInv == Inv /\ Tighten => Inv'
<1> SUFFICES ASSUME Inv, Tighten PROVE Inv'
  OBVIOUS
<1>1. PICK k \in Keys, x \in Bounds : SetBound(k, x)
  BY DEF Tighten
<1>2. /\ synced /\ Level >= BaseLevel
      /\ stored' = stored /\ saved' = saved /\ synced' = synced
      /\ bound' = [bound EXCEPT ![k] = x] /\ Tighter(k, x, bound[k])
      /\ consistent' = (consistent /\ ConsistentIn(bound', k[1]))
      /\ first' = IF consistent /\ ~ConsistentIn(bound', k[1]) THEN k ELSE first
  BY <1>1 DEF Tighten, SetBound, Record
<1>3. bound \in Boxes /\ stored \in Boxes
  BY DEF Inv, Types0
<1>4. /\ bound' \in Boxes /\ Within(bound', bound)
      /\ ConsistentBox(bound') <=> ConsistentBox(bound) /\ ConsistentIn(bound', k[1])
  BY <1>2, <1>3, TightenedBox
<1>5. Types0'
  BY <1>2, <1>4, KeysOf DEF Inv, Types0, Level, ConsistentIn
<1>6. Nested'
  <2>1. Within(bound', stored)
    BY <1>3, <1>4, WithinTrans DEF Inv, Nested
  <2>2. QED
    BY <1>2, <2>1 DEF Inv, Nested
<1>7. FlagExact'
  BY <1>2, <1>4 DEF Inv, FlagExact
<1>8. Blame'
  <2>1. consistent <=> ConsistentBox(bound)
    BY <1>2 DEF Inv, FlagExact
  <2>2. Blames(first', bound')
    <3>1. CASE consistent
      BY <1>2, <1>4, <2>1, <3>1 DEF Blames
    <3>2. CASE ~consistent
      <4>1. first' = first /\ first \in Keys /\ ~ConsistentIn(bound, first[1])
        BY <1>2, <2>1, <3>2 DEF Inv, Blame, Blames, Current
      <4>2. ~ConsistentIn(bound', first[1])
        BY <1>3, <1>4, <4>1, CrossingWithin, KeysOf
      <4>3. QED
        BY <4>1, <4>2 DEF Blames
    <3>3. QED
      BY <3>1, <3>2
  <2>3. \A i \in DOMAIN saved : Blames(first', saved[i].stored)
    <3>1. CASE consistent
      BY <3>1, ConsistentBelow DEF Blames
    <3>2. CASE ~consistent
      BY <1>2, <3>2 DEF Inv, Blame
    <3>3. QED
      BY <3>1, <3>2
  <2>4. QED
    BY <1>2, <2>2, <2>3 DEF Blame, Current
<1>9. Untouched'
  BY <1>2 DEF Untouched, Level, BaseLevel
<1>10. QED
  BY <1>5, <1>6, <1>7, <1>8, <1>9 DEF Inv

\* A split
LEMMA PerformSplitInv == Inv /\ PerformSplit => Inv'
<1> SUFFICES ASSUME Inv, PerformSplit PROVE Inv'
  OBVIOUS
<1> DEFINE e == [stored |-> bound, consistent |-> consistent]
<1>1. /\ synced /\ Level < MaxLevel /\ Level \in Nat
      /\ stored' = bound /\ saved' = Append(saved, e)
      /\ bound' = bound /\ consistent' = consistent /\ first' = first /\ synced' = synced
  <2>1. saved \in Seq(Scope)
    BY DEF Inv, Types0
  <2>2. Len(saved) \in Nat /\ BaseLevel \in Nat
    BY <2>1 DEF BaseLevel
  <2>3. Len(saved) < MaxLevel
    BY <2>2, MaxLevelIsPositive DEF PerformSplit, Level
  <2>4. QED
    BY <2>2, <2>3 DEF PerformSplit, Push, Level
<1>2. /\ bound \in Boxes /\ stored \in Boxes /\ saved \in Seq(Scope) /\ e \in Scope
  BY DEF Inv, Types0, Scope
<1>3. /\ e.stored = bound /\ e.consistent = consistent
  OBVIOUS
<1> HIDE DEF e
<1>4. /\ saved' \in Seq(Scope) /\ Len(saved') = Len(saved) + 1
      /\ DOMAIN saved' = 1 .. Len(saved) + 1 /\ DOMAIN saved = 1 .. Len(saved)
      /\ \A i \in 1 .. Len(saved) : saved'[i] = saved[i]
      /\ saved'[Len(saved) + 1] = e
      /\ Len(saved) \in Nat
  BY <1>1, <1>2, Appended
<1>5. \A i \in DOMAIN saved : Within(bound, saved[i].stored)
  BY <1>1, ScopeFacts DEF Current
<1>6. Types0'
  BY <1>1, <1>2, <1>4, MaxLevelIsPositive DEF Inv, Types0, Level
<1>7. Nested'
  <2>1. Within(bound, bound)
    BY <1>2, WithinRefl
  <2>2. \A i \in DOMAIN saved' : Within(bound, saved'[i].stored)
    BY <1>3, <1>4, <1>5, <2>1
  <2>3. ASSUME NEW i \in DOMAIN saved', NEW j \in DOMAIN saved', i <= j
        PROVE  Within(saved'[j].stored, saved'[i].stored)
    <3>1. CASE j = Len(saved) + 1
      BY <1>3, <1>4, <2>2, <3>1
    <3>2. CASE j # Len(saved) + 1
      BY <1>4, <2>3, <3>2 DEF Inv, Nested
    <3>3. QED
      BY <3>1, <3>2
  <2>4. QED
    BY <1>1, <2>1, <2>2, <2>3 DEF Nested
<1>8. FlagExact'
  <2>1. consistent <=> ConsistentBox(bound)
    BY <1>1 DEF Inv, FlagExact
  <2>2. ASSUME NEW i \in DOMAIN saved'
        PROVE  saved'[i].consistent <=> ConsistentBox(saved'[i].stored)
    BY <1>3, <1>4, <2>1 DEF Inv, FlagExact
  <2>3. QED
    BY <1>1, <2>1, <2>2 DEF FlagExact
<1>9. Blame'
  <2>1. Blames(first, bound)
    BY <1>1 DEF Inv, Blame, Current
  <2>2. ASSUME NEW i \in DOMAIN saved'
        PROVE  Blames(first, saved'[i].stored)
    BY <1>3, <1>4, <2>1 DEF Inv, Blame
  <2>3. QED
    BY <1>1, <2>1, <2>2 DEF Blame, Current
<1>10. Untouched'
  BY <1>1 DEF Untouched
<1>11. QED
  BY <1>6, <1>7, <1>8, <1>9, <1>10 DEF Inv

\* What is left of the invariant's parts when the scopes above n are closed
\* and the bounds are those scope s held
LEMMA ClosedInv ==
    ASSUME Inv, NEW s \in DOMAIN saved, NEW n \in 0 .. s, n <= s, s <= n + 1,
           saved' = SubSeq(saved, 1, n), stored' = saved[s].stored,
           consistent' = saved[s].consistent, first' = first, synced' \in BOOLEAN,
           bound' \in Boxes, Within(bound', stored'), Current' = stored',
           SnC => n > 0 \/ bound' = stored'
    PROVE  Inv'
<1>1. /\ saved \in Seq(Scope) /\ saved[s] \in Scope /\ saved[s].stored \in Boxes
      /\ Len(saved) \in Nat /\ s \in 1 .. Len(saved) /\ n \in 0 .. Len(saved)
  BY ScopeFacts DEF Inv, Types0
<1>2. /\ saved' \in Seq(Scope) /\ Len(saved') = n
      /\ DOMAIN saved' = 1 .. n /\ DOMAIN saved = 1 .. Len(saved)
      /\ \A i \in 1 .. n : saved'[i] = saved[i]
  BY <1>1, Cut
<1>3. saved[s].consistent \in BOOLEAN
  BY <1>1 DEF Scope
<1>4. Types0'
  BY <1>1, <1>2, <1>3, MaxLevelIsPositive DEF Inv, Types0, Level
<1>5. Nested'
  <2>1. ASSUME NEW i \in DOMAIN saved'
        PROVE  Within(stored', saved'[i].stored)
    BY <1>1, <1>2 DEF Inv, Nested
  <2>2. ASSUME NEW i \in DOMAIN saved', NEW j \in DOMAIN saved', i <= j
        PROVE  Within(saved'[j].stored, saved'[i].stored)
    BY <1>1, <1>2, <2>2 DEF Inv, Nested
  <2>3. QED
    BY <2>1, <2>2 DEF Nested
<1>6. FlagExact'
  <2>1. consistent' <=> ConsistentBox(Current')
    BY DEF Inv, FlagExact
  <2>2. ASSUME NEW i \in DOMAIN saved'
        PROVE  saved'[i].consistent <=> ConsistentBox(saved'[i].stored)
    BY <1>1, <1>2 DEF Inv, FlagExact
  <2>3. QED
    BY <2>1, <2>2 DEF FlagExact, Current
<1>7. Blame'
  <2>1. Blames(first', Current')
    BY DEF Inv, Blame
  <2>2. ASSUME NEW i \in DOMAIN saved'
        PROVE  Blames(first', saved'[i].stored)
    BY <1>1, <1>2 DEF Inv, Blame
  <2>3. QED
    BY <2>1, <2>2 DEF Blame
<1>8. Untouched'
  <2>1. saved' = <<>> => n = 0
    BY <1>2
  <2>2. QED
    BY <2>1 DEF Untouched
<1>9. QED
  BY <1>4, <1>5, <1>6, <1>7, <1>8 DEF Inv

\* Another alternative of a split
LEMMA PopSplitInv == Inv /\ (\E s \in DOMAIN saved : PopSplit(s)) => Inv'
<1> SUFFICES ASSUME Inv, NEW s \in DOMAIN saved, PopSplit(s) PROVE Inv'
  OBVIOUS
<1>1. /\ s \in Nat \ {0} /\ s \in 0 .. s /\ s <= s /\ s <= s + 1
      /\ saved[s].stored \in Boxes
  <2>1. saved \in Seq(Scope)
    BY DEF Inv, Types0
  <2>2. QED
    BY <2>1, ScopeFacts
<1>2. /\ saved' = SubSeq(saved, 1, s) /\ stored' = saved[s].stored
      /\ consistent' = saved[s].consistent /\ first' = first /\ synced' \in BOOLEAN
      /\ bound' = stored'
  BY DEF PopSplit, PopScopes, Inv, Types0
<1>3. bound' \in Boxes /\ Within(bound', stored') /\ Current' = stored'
  BY <1>1, <1>2, WithinRefl DEF Current
<1>4. SnC => s > 0 \/ bound' = stored'
  BY <1>1
<1>5. QED
  BY <1>1, <1>2, <1>3, <1>4, ClosedInv

\* No alternative is left; the arrays keep the bounds of the branch left
LEMMA PopSplitFailsInv == Inv /\ PopSplitFails => Inv'
<1> SUFFICES ASSUME Inv, PopSplitFails PROVE Inv'
  OBVIOUS
<1> DEFINE s == BaseLevel + 1
<1>1. saved \in Seq(Scope) /\ Len(saved) \in Nat /\ BaseLevel \in {0, 1}
  BY DEF Inv, Types0, BaseLevel
<1>2. /\ s \in DOMAIN saved /\ BaseLevel \in 0 .. s /\ BaseLevel <= s /\ s <= BaseLevel + 1
  BY <1>1 DEF PopSplitFails, Level
<1>3. /\ saved' = SubSeq(saved, 1, BaseLevel) /\ stored' = saved[s].stored
      /\ consistent' = saved[s].consistent /\ first' = first /\ synced' = FALSE
      /\ bound' = bound
  BY DEF PopSplitFails, PopScopes
<1>4. /\ bound' \in Boxes /\ Within(bound', stored') /\ Current' = stored'
  <2>1. bound \in Boxes /\ stored \in Boxes /\ saved[s].stored \in Boxes
    BY <1>2, ScopeFacts DEF Inv, Types0
  <2>2. Within(bound, stored) /\ Within(stored, saved[s].stored)
    BY <1>2 DEF Inv, Nested
  <2>3. QED
    BY <1>3, <2>1, <2>2, WithinTrans DEF Current
<1>5. SnC => BaseLevel > 0 \/ bound' = stored'
  BY DEF BaseLevel
<1> HIDE DEF s
<1>6. QED
  BY <1>2, <1>3, <1>4, <1>5, ClosedInv

\* The next subquery
LEMMA StartSubQueryInv == Inv /\ StartSubQuery => Inv'
<1> SUFFICES ASSUME Inv, StartSubQuery PROVE Inv'
  OBVIOUS
<1>1. CASE saved = <<>>
  <2>1. /\ SnC /\ bound = stored /\ stored \in Boxes /\ consistent \in BOOLEAN
        /\ consistent <=> ConsistentBox(stored)
        /\ Blames(first, stored)
    BY <1>1 DEF StartSubQuery, Inv, Untouched, Types0, FlagExact, Blame, Current
  <2>2. /\ stored' = stored /\ bound' = stored /\ consistent' = consistent
        /\ saved' = <<Snapshot>> /\ synced' = TRUE /\ first' = first
    BY <1>1 DEF StartSubQuery, Snapshot
  <2>3. Snapshot \in Scope /\ Snapshot.stored = stored /\ Snapshot.consistent = consistent
    BY <2>1 DEF Snapshot, Scope
  <2>4. /\ saved' \in Seq(Scope) /\ Len(saved') = 1 /\ DOMAIN saved' = {1}
        /\ saved'[1] = Snapshot
    BY <2>2, <2>3
  <2>5. Within(stored, stored)
    BY <2>1, WithinRefl
  <2>6. Types0'
    BY <2>1, <2>2, <2>4, MaxLevelIsPositive DEF Inv, Types0, Level
  <2>7. Nested'
    BY <2>2, <2>3, <2>4, <2>5 DEF Nested
  <2>8. FlagExact'
    BY <2>1, <2>2, <2>3, <2>4 DEF FlagExact
  <2>9. Blame' /\ Untouched'
    BY <2>1, <2>2, <2>3, <2>4 DEF Blame, Current, Untouched
  <2>10. QED
    BY <2>6, <2>7, <2>8, <2>9 DEF Inv
<1>2. CASE saved # <<>>
  <2>1. /\ saved \in Seq(Scope) /\ 1 \in DOMAIN saved /\ Len(saved) \in Nat
    BY <1>2 DEF Inv, Types0
  <2>2. saved[1] \in Scope /\ saved[1].stored \in Boxes
    BY <2>1, ScopeFacts
  <2>3. SubSeq(saved, 1, 1) = <<saved[1]>>
    <3>1. /\ SubSeq(saved, 1, 1) \in Seq(Scope) /\ Len(SubSeq(saved, 1, 1)) = 1
          /\ SubSeq(saved, 1, 1)[1] = saved[1]
      BY <2>1
    <3>2. /\ <<saved[1]>> \in Seq(Scope) /\ Len(<<saved[1]>>) = 1 /\ <<saved[1]>>[1] = saved[1]
      BY <2>2
    <3>3. \A i \in 1 .. 1 : i = 1
      OBVIOUS
    <3>4. QED
      BY <3>1, <3>2, <3>3, SeqEqual
  <2>4. /\ saved' = SubSeq(saved, 1, 1) /\ stored' = saved[1].stored
        /\ bound' = saved[1].stored /\ consistent' = saved[1].consistent
        /\ first' = first /\ synced' = TRUE
    BY <1>2, <2>3 DEF StartSubQuery
  <2>5. bound' \in Boxes /\ Within(bound', stored') /\ Current' = stored' /\ synced' \in BOOLEAN
    BY <2>2, <2>4, WithinRefl DEF Current
  <2>6. /\ 1 \in 0 .. 1 /\ 1 <= 1 /\ 1 <= 1 + 1 /\ (SnC => 1 > 0 \/ bound' = stored')
    OBVIOUS
  <2>7. QED
    BY <2>1, <2>4, <2>5, <2>6, ClosedInv
<1>3. QED
  BY <1>1, <1>2

\* A precision restoration puts every bound back where it was
LEMMA RestoredBounds ==
    Inv /\ RestorePrecision => UNCHANGED vars
<1> SUFFICES ASSUME Inv, RestorePrecision PROVE UNCHANGED vars
  OBVIOUS
<1>1. bound' = bound
  BY RetightenGivesBackup DEF RestorePrecision, Inv, Types0, Nested
<1>2. consistent => ConsistentBox(bound)
  BY DEF RestorePrecision, Inv, FlagExact
<1>3. consistent' = consistent
  BY <1>1, <1>2 DEF RestorePrecision, Inv, Types0
<1>4. QED
  BY <1>1, <1>3 DEF RestorePrecision, vars

\* The invariant is one
LEMMA NextInv == Inv /\ [Next]_vars => Inv'
<1> SUFFICES ASSUME Inv, [Next]_vars PROVE Inv'
  OBVIOUS
<1>1. CASE UNCHANGED vars
  BY <1>1 DEF vars, Inv, Types0, Nested, FlagExact, Blame, Current, Untouched, Level
<1>2. CASE RestorePrecision
  BY <1>1, <1>2, RestoredBounds
<1>3. QED
  BY <1>1, <1>2, TightenInv, PerformSplitInv, PopSplitInv, PopSplitFailsInv, StartSubQueryInv
  DEF Next

\* What the invariant says of the properties of the module
LEMMA InvImplies == Inv => TypeOK /\ FlagExact /\ BlamedVariableCrosses /\ ScopesNested
<1> SUFFICES ASSUME Inv
             PROVE  TypeOK /\ FlagExact /\ BlamedVariableCrosses /\ ScopesNested
  OBVIOUS
<1>1. FlagExact /\ ScopesNested
  BY NestedIsScopesNested DEF Inv
<1>2. ~consistent => first \in Keys /\ first # NoKey /\ ~ConsistentIn(Current, first[1])
  BY KeysOf DEF Inv, FlagExact, Blame, Blames, Current
<1>3. BlamedVariableCrosses
  BY <1>2 DEF BlamedVariableCrosses, Current
<1>4. TypeOK
  BY <1>2 DEF Inv, Types0, Scope, TypeOK
<1>5. QED
  BY <1>1, <1>3, <1>4

\* The arrays, their copies and the flag keep their types, and once there is a
\* conflict there is a variable to blame for it.
THEOREM TypeCorrect == Spec => []TypeOK
  BY InvImplies, InitInv, NextInv, PTL DEF Spec

\* The flag the search reads instead of the bounds is exact, in the current
\* scope and in every scope below.
THEOREM FlagIsExact == Spec => []FlagExact
  BY InvImplies, InitInv, NextInv, PTL DEF Spec

\* The variable blamed for a conflict has crossing bounds, although what names
\* it is not backtracked.
THEOREM BlameIsRight == Spec => []BlamedVariableCrosses
  BY InvImplies, InitInv, NextInv, PTL DEF Spec

\* The bounds of a scope are within those of every scope below it.
THEOREM ScopesAreNested == Spec => []ScopesNested
  BY InvImplies, InitInv, NextInv, PTL DEF Spec

\* Restoring the precision of the basis leaves the bounds and the verdict on
\* them as they were, although it overwrites them on the way.
THEOREM RestorationIsNeutral == Spec => RestorationKeepsBounds
<1>1. Inv /\ [Next]_vars => [RestorePrecision => UNCHANGED <<bound, consistent>>]_vars
  BY RestoredBounds DEF vars
<1>2. QED
  BY <1>1, InitInv, NextInv, PTL DEF Spec, RestorationKeepsBounds
-----------------------------------------------------------------------------
(***************************************************************************)
(* The refinement.                                                         *)
(***************************************************************************)
\* The boxes of a sequence of scopes
StoredOf(sc) == [i \in DOMAIN sc |-> sc[i].stored]

\* They are a sequence of the same length
LEMMA StoredSeq ==
    ASSUME NEW sc \in Seq(Scope)
    PROVE  /\ StoredOf(sc) \in Seq(Boxes)
           /\ Len(StoredOf(sc)) = Len(sc)
           /\ DOMAIN StoredOf(sc) = 1 .. Len(sc)
           /\ \A i \in 1 .. Len(sc) : StoredOf(sc)[i] = sc[i].stored
<1>1. DOMAIN sc = 1 .. Len(sc) /\ Len(sc) \in Nat
  OBVIOUS
<1>2. \A i \in 1 .. Len(sc) : sc[i].stored \in Boxes
  <2> TAKE i \in 1 .. Len(sc)
  <2>1. sc[i] \in Scope
    BY <1>1
  <2>2. QED
    BY <2>1 DEF Scope
<1>3. StoredOf(sc) \in [1 .. Len(sc) -> Boxes]
  BY <1>1, <1>2 DEF StoredOf
<1>4. \A i \in 1 .. Len(sc) : StoredOf(sc)[i] = sc[i].stored
  BY <1>1 DEF StoredOf
<1>5. QED
  BY <1>1, <1>3, <1>4

\* Opening a scope appends its box
LEMMA StoredOfAppend ==
    ASSUME NEW sc \in Seq(Scope), NEW e \in Scope
    PROVE  StoredOf(Append(sc, e)) = Append(StoredOf(sc), e.stored)
<1> DEFINE s == StoredOf(Append(sc, e))
           t == Append(StoredOf(sc), e.stored)
<1>1. e.stored \in Boxes
  BY DEF Scope
<1>2. /\ Append(sc, e) \in Seq(Scope) /\ Len(Append(sc, e)) = Len(sc) + 1
      /\ \A i \in 1 .. Len(sc) : Append(sc, e)[i] = sc[i]
      /\ Append(sc, e)[Len(sc) + 1] = e /\ Len(sc) \in Nat
  BY Appended
<1>3. /\ s \in Seq(Boxes) /\ Len(s) = Len(sc) + 1
      /\ \A i \in 1 .. Len(sc) + 1 : s[i] = Append(sc, e)[i].stored
  BY <1>2, StoredSeq
<1>4. /\ StoredOf(sc) \in Seq(Boxes) /\ Len(StoredOf(sc)) = Len(sc)
      /\ \A i \in 1 .. Len(sc) : StoredOf(sc)[i] = sc[i].stored
  BY StoredSeq
<1>5. /\ t \in Seq(Boxes) /\ Len(t) = Len(sc) + 1
      /\ \A i \in 1 .. Len(sc) : t[i] = sc[i].stored
      /\ t[Len(sc) + 1] = e.stored
  BY <1>1, <1>4, AppendProperties
<1> HIDE DEF s, t
<1>6. \A i \in 1 .. Len(s) : s[i] = t[i]
  <2> TAKE i \in 1 .. Len(s)
  <2>1. CASE i = Len(sc) + 1
    BY <1>2, <1>3, <1>5, <2>1
  <2>2. CASE i # Len(sc) + 1
    <3>1. i \in 1 .. Len(sc)
      BY <1>2, <1>3, <2>2
    <3>2. QED
      BY <1>2, <1>3, <1>5, <3>1
  <2>3. QED
    BY <2>1, <2>2
<1>7. s = t
  BY <1>3, <1>5, <1>6, SeqEqual
<1>8. QED
  BY <1>7 DEF s, t

\* Closing scopes cuts the boxes off
LEMMA StoredOfCut ==
    ASSUME NEW sc \in Seq(Scope), NEW n \in 0 .. Len(sc)
    PROVE  StoredOf(SubSeq(sc, 1, n)) = SubSeq(StoredOf(sc), 1, n)
<1> DEFINE s == StoredOf(SubSeq(sc, 1, n))
           t == SubSeq(StoredOf(sc), 1, n)
<1>1. /\ SubSeq(sc, 1, n) \in Seq(Scope) /\ Len(SubSeq(sc, 1, n)) = n
      /\ \A i \in 1 .. n : SubSeq(sc, 1, n)[i] = sc[i]
      /\ Len(sc) \in Nat
  BY Cut
<1>2. /\ s \in Seq(Boxes) /\ Len(s) = n
      /\ \A i \in 1 .. n : s[i] = SubSeq(sc, 1, n)[i].stored
  BY <1>1, StoredSeq
<1>3. /\ StoredOf(sc) \in Seq(Boxes) /\ Len(StoredOf(sc)) = Len(sc)
      /\ \A i \in 1 .. Len(sc) : StoredOf(sc)[i] = sc[i].stored
  BY StoredSeq
<1>4. /\ t \in Seq(Boxes) /\ Len(t) = n
      /\ \A i \in 1 .. n : t[i] = StoredOf(sc)[i]
  BY <1>1, <1>3
<1> HIDE DEF s, t
<1>5. \A i \in 1 .. Len(s) : s[i] = t[i]
  <2> TAKE i \in 1 .. Len(s)
  <2>1. i \in 1 .. n /\ i \in 1 .. Len(sc)
    BY <1>1, <1>2
  <2>2. s[i] = sc[i].stored
    BY <1>1, <1>2, <2>1
  <2>3. t[i] = sc[i].stored
    BY <1>3, <1>4, <2>1
  <2>4. QED
    BY <2>2, <2>3
<1>6. s = t
  BY <1>2, <1>4, <1>5, SeqEqual
<1>7. QED
  BY <1>6 DEF s, t

\* Nesting, in the terms of the abstract module
LEMMA NarrowerIsWithin ==
    ASSUME NEW b \in Boxes, NEW c \in Boxes, Within(b, c)
    PROVE  Stack!Narrower(b, c)
<1> SUFFICES ASSUME NEW k \in Keys PROVE Stack!AtLeast(k, b[k], c[k])
  BY DEF Stack!Narrower
<1>1. b[k] \in Int /\ c[k] \in Int /\ ~Tighter(k, c[k], b[k])
  BY BoxType DEF Within
<1>2. QED
  BY <1>1 DEF Stack!AtLeast, Tighter

\* What a step of the stack is, in terms of the concrete variables
LEMMA MappedBoxes ==
    /\ [i \in DOMAIN saved |-> saved[i].stored] = StoredOf(saved)
    /\ [i \in DOMAIN saved' |-> saved'[i].stored] = StoredOf(saved')
  BY DEF StoredOf

\* A deduction narrows the box
LEMMA TightenRefines == Inv /\ Tighten => Stack!Narrow
<1> SUFFICES ASSUME Inv, Tighten PROVE Stack!Narrow
  OBVIOUS
<1>1. PICK k \in Keys, x \in Bounds : SetBound(k, x)
  BY DEF Tighten
<1>2. /\ synced /\ saved' = saved /\ synced'
      /\ bound' = [bound EXCEPT ![k] = x] /\ Tighter(k, x, bound[k])
      /\ bound \in Boxes
  BY <1>1 DEF Tighten, SetBound, Inv, Types0
<1>3. bound' \in Boxes /\ Within(bound', bound)
  BY <1>2, TightenedBox
<1>4. Stack!Narrower(bound', bound)
  BY <1>2, <1>3, NarrowerIsWithin
<1>5. QED
  BY <1>2, <1>3, <1>4 DEF Stack!Narrow, Boxes

\* A split opens a scope
LEMMA PerformSplitRefines == Inv /\ PerformSplit => Stack!Enter
<1> SUFFICES ASSUME Inv, PerformSplit PROVE Stack!Enter
  OBVIOUS
<1> DEFINE e == [stored |-> bound, consistent |-> consistent]
<1>1. /\ synced /\ synced' /\ saved' = Append(saved, e) /\ bound' = bound
      /\ saved \in Seq(Scope) /\ e \in Scope /\ e.stored = bound
  BY DEF PerformSplit, Push, Inv, Types0, Scope
<1>2. StoredOf(saved') = Append(StoredOf(saved), bound)
  BY <1>1, StoredOfAppend
<1>3. QED
  BY <1>1, <1>2, MappedBoxes DEF Stack!Enter

\* An alternative closes scopes and opens one of them again
LEMMA PopSplitRefines ==
    ASSUME Inv, NEW s \in DOMAIN saved, PopSplit(s)
    PROVE  Stack!Next
<1>1. /\ saved \in Seq(Scope) /\ s \in 1 .. Len(saved) /\ s \in 0 .. Len(saved)
      /\ DOMAIN saved = 1 .. Len(saved)
  BY DEF Inv, Types0
<1>2. /\ saved' = SubSeq(saved, 1, s) /\ synced' /\ bound' = saved[s].stored
  BY DEF PopSplit, PopScopes
<1>3. /\ StoredOf(saved') = SubSeq(StoredOf(saved), 1, s)
      /\ DOMAIN StoredOf(saved) = 1 .. Len(saved)
      /\ StoredOf(saved)[s] = saved[s].stored
  BY <1>1, <1>2, StoredOfCut, StoredSeq
<1>4. Stack!Backtrack(s)
  BY <1>2, <1>3, MappedBoxes DEF Stack!Backtrack
<1>5. QED
  BY <1>1, <1>3, <1>4, MappedBoxes DEF Stack!Next

\* Without an alternative they are only closed
LEMMA PopSplitFailsRefines == Inv /\ PopSplitFails => Stack!Next
<1> SUFFICES ASSUME Inv, PopSplitFails PROVE Stack!Next
  OBVIOUS
<1> DEFINE s == BaseLevel + 1
<1>1. /\ saved \in Seq(Scope) /\ Len(saved) \in Nat /\ BaseLevel \in {0, 1}
      /\ DOMAIN saved = 1 .. Len(saved)
  BY DEF Inv, Types0, BaseLevel
<1>2. s \in 1 .. Len(saved) /\ BaseLevel \in 0 .. Len(saved) /\ BaseLevel = s - 1
  BY <1>1 DEF PopSplitFails, Level
<1>3. /\ saved' = SubSeq(saved, 1, BaseLevel) /\ ~synced' /\ stored' = saved[s].stored
  BY DEF PopSplitFails, PopScopes
<1>4. /\ StoredOf(saved') = SubSeq(StoredOf(saved), 1, BaseLevel)
      /\ DOMAIN StoredOf(saved) = 1 .. Len(saved)
      /\ StoredOf(saved)[s] = saved[s].stored
  BY <1>1, <1>2, <1>3, StoredOfCut, StoredSeq
<1> HIDE DEF s
<1>5. Stack!Leave(s)
  BY <1>2, <1>3, <1>4, MappedBoxes DEF Stack!Leave
<1>6. QED
  BY <1>2, <1>4, <1>5, MappedBoxes DEF Stack!Next

\* A reset closes every scope, and the SnC split opens the first one again
LEMMA StartSubQueryRefines == Inv /\ StartSubQuery => Stack!Next
<1> SUFFICES ASSUME Inv, StartSubQuery PROVE Stack!Next
  OBVIOUS
<1>1. CASE saved = <<>>
  <2>1. /\ SnC /\ bound = stored /\ stored \in Boxes /\ consistent \in BOOLEAN
        /\ saved \in Seq(Scope)
    BY <1>1 DEF StartSubQuery, Inv, Untouched, Types0
  <2>2. /\ bound' = stored /\ saved' = <<Snapshot>> /\ synced'
    BY <1>1 DEF StartSubQuery, Snapshot
  <2>3. Snapshot \in Scope /\ Snapshot.stored = stored
    BY <2>1 DEF Snapshot, Scope
  <2>4. saved' = Append(saved, Snapshot)
    BY <1>1, <2>2
  <2>5. StoredOf(saved') = Append(StoredOf(saved), stored)
    BY <2>1, <2>3, <2>4, StoredOfAppend
  <2>6. Stack!Enter
    BY <2>1, <2>2, <2>5, MappedBoxes DEF Stack!Enter
  <2>7. QED
    BY <2>6 DEF Stack!Next
<1>2. CASE saved # <<>>
  <2>1. /\ saved \in Seq(Scope) /\ 1 \in DOMAIN saved /\ Len(saved) \in Nat
        /\ 1 \in 1 .. Len(saved) /\ 1 \in 0 .. Len(saved)
    BY <1>2 DEF Inv, Types0
  <2>2. bound' = saved[1].stored /\ synced' /\ saved' = <<saved[1]>>
    BY <1>2 DEF StartSubQuery
  <2>3. saved[1] \in Scope
    BY <2>1, ScopeFacts
  <2>4. saved' = SubSeq(saved, 1, 1)
    <3>1. /\ SubSeq(saved, 1, 1) \in Seq(Scope) /\ Len(SubSeq(saved, 1, 1)) = 1
          /\ SubSeq(saved, 1, 1)[1] = saved[1]
      BY <2>1
    <3>2. /\ saved' \in Seq(Scope) /\ Len(saved') = 1 /\ saved'[1] = saved[1]
      BY <2>2, <2>3
    <3>3. \A i \in 1 .. 1 : i = 1
      OBVIOUS
    <3>4. QED
      BY <3>1, <3>2, <3>3, SeqEqual
  <2>5. /\ StoredOf(saved') = SubSeq(StoredOf(saved), 1, 1)
        /\ DOMAIN StoredOf(saved) = 1 .. Len(saved)
        /\ StoredOf(saved)[1] = saved[1].stored
    BY <2>1, <2>4, StoredOfCut, StoredSeq
  <2>6. Stack!Backtrack(1)
    BY <2>2, <2>5, MappedBoxes DEF Stack!Backtrack
  <2>7. QED
    BY <2>1, <2>5, <2>6, MappedBoxes DEF Stack!Next
<1>3. QED
  BY <1>1, <1>2

\* Every step is a step of the stack of boxes, or leaves it alone
LEMMA NextRefines == Inv /\ [Next]_vars => [Stack!Next]_(Stack!vars)
<1> SUFFICES ASSUME Inv, [Next]_vars PROVE [Stack!Next]_(Stack!vars)
  OBVIOUS
<1>1. CASE UNCHANGED vars
  BY <1>1 DEF vars, Stack!vars
<1>2. CASE RestorePrecision
  BY <1>1, <1>2, RestoredBounds
<1>3. CASE \E s \in DOMAIN saved : PopSplit(s)
  BY <1>3, PopSplitRefines
<1>4. Tighten \/ PerformSplit => Stack!Next
  BY TightenRefines, PerformSplitRefines DEF Stack!Next
<1>5. QED
  BY <1>1, <1>2, <1>3, <1>4, PopSplitFailsRefines, StartSubQueryRefines DEF Next

\* The bounds of the engine, with their local arrays, their backtrackable
\* copies and the hooks between them, are a stack of boxes: a scope only narrows
\* the bounds, and going back brings back those of the scope's opening.
THEOREM Refinement == Spec => ImplementsBoundsStack
<1>1. Init => Stack!Init
  <2> SUFFICES ASSUME Init PROVE Stack!Init
    OBVIOUS
  <2>1. bound \in [Keys -> Bounds] /\ saved = <<>> /\ synced
    BY DEF Init, Boxes
  <2>2. [i \in DOMAIN saved |-> saved[i].stored] = <<>>
    BY <2>1
  <2>3. QED
    BY <2>1, <2>2 DEF Stack!Init
<1>2. QED
  BY <1>1, InitInv, NextInv, NextRefines, PTL DEF Spec, Stack!Spec, ImplementsBoundsStack
=============================================================================
