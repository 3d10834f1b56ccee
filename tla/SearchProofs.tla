---------------------------- MODULE SearchProofs ----------------------------
(***************************************************************************)
(* Proofs about Search, for any query, any number of points, constraints   *)
(* and phases, with or without the local search and the SnC split: the     *)
(* stack keeps every solution, what is no longer looked at holds, and the  *)
(* engine answers SAT and UNSAT only if that is what the query is.  Every  *)
(* step brings the search nearer to its end, those excused apart.  With    *)
(* restoreTreeStates (SearchRestore) the answer UNSAT is right.            *)
(***************************************************************************)
EXTENDS SearchRestore, TLAPS, FiniteSetTheorems, SequenceTheorems, WellFoundedInduction

PLStates == [active : [Constraints -> BOOLEAN], phase : [Constraints -> Phases \cup {NotFixed}]]

Entries == [current : Regions, alts : Seq(Regions), implied : SUBSET Regions, pl : PLStates]

\* The bounds entry i was pushed with
Saved(i) == ctx[i + Len(ctx) - Len(stack)]

\* The query never changes
QueryTyped ==
    /\ problem \in [piece : [Constraints -> [Phases -> Regions]], smooth : Regions]
    /\ region \in Regions

\* What is in the variables, those TypeOK leaves out included
Typed ==
    /\ TypeOK
    /\ LevelsMatch
    /\ QueryTyped

\* TypeOK's part about the split conditions, and the rest of it
ControlTyped ==
    /\ needToSplit \in BOOLEAN
    /\ target \in Constraints \cup {Interval, None}
    /\ rejected \in 0 .. Threshold
    /\ violations \in [Constraints -> 0 .. Threshold]
    /\ cost \in 0 .. MaxCost
    /\ pc \in {"solve", "search", "propose", "backtrack", "done", "crash"}

StateTyped ==
    /\ box \in Regions /\ ctx \in Seq(Regions)
    /\ active \in [Constraints -> BOOLEAN]
    /\ phase \in [Constraints -> Phases \cup {NotFixed}]
    /\ stack \in Seq(Entries)
    /\ rootImplied \subseteq Regions

\* The bounds of every level are within the part of the input that is searched
Within ==
    /\ box \subseteq region
    /\ \A i \in DOMAIN stack : Saved(i) \subseteq region

\* The inactive constraints hold, and they will when an alternative brings an
\* entry's flags back
InactiveHoldLater ==
    \A i \in DOMAIN stack, c \in Constraints : ~stack[i].pl.active[c] =>
        \A a \in DOMAIN stack[i].alts : Saved(i) \cap stack[i].alts[a] \subseteq Holds(c)

\* A known phase is right within the bounds, and none was known when a split was made
PhaseRight == \A c \in PendingValid : box \cap Holds(c) \subseteq problem.piece[c][phase[c]]

NoneKnownLater ==
    \A i \in DOMAIN stack, c \in Constraints :
        stack[i].pl.active[c] => stack[i].pl.phase[c] = NotFixed

\* Entry i is the first that excludes the solution p, and it will bring it back
HeldBy(p, i) ==
    /\ Skewed(p, i)
    /\ \E a \in DOMAIN stack[i].alts : p \in stack[i].alts[a]
    /\ p \in Saved(i)

Compliant(p) ==
    /\ ImpliedAllow(p, Len(stack))
    /\ \A j \in DOMAIN stack : Allows(stack[j].current, p)

\* A solution is within the bounds or held by an entry, and there is no other
\* place for it while the engine backtracks
Kept ==
    \A p \in Solutions :
        \/ \E i \in DOMAIN stack : HeldBy(p, i)
        \/ Compliant(p) /\ p \in box /\ pc # "backtrack"

\* The answer comes last
Answered == (exitCode # "NOT_DONE" => pc = "done") /\ AnswerRight

\* The inductive invariant: StackFaithful and AnswerRight alone say nothing of the
\* bounds and flags the entries will bring back
Inv == Typed /\ Within /\ InactiveHold /\ InactiveHoldLater /\ PhaseRight
       /\ NoneKnownLater /\ Kept /\ Answered
-----------------------------------------------------------------------------
(***************************************************************************)
(* Types.                                                                  *)
(***************************************************************************)
LEMMA Types ==
    ASSUME Typed
    PROVE  /\ stack \in Seq(Entries) /\ Len(stack) \in Nat /\ DOMAIN stack = 1 .. Len(stack)
           /\ ctx \in Seq(Regions) /\ Len(ctx) \in Nat
           /\ Len(ctx) = Len(stack) \/ Len(ctx) = Len(stack) + 1
           /\ \A i \in DOMAIN stack :
                /\ stack[i] \in Entries
                /\ stack[i].alts \in Seq(Regions)
                /\ DOMAIN stack[i].alts = 1 .. Len(stack[i].alts)
                /\ Saved(i) \in Regions
<1>1. stack \in Seq(Entries) /\ ctx \in Seq(Regions)
  BY DEF Typed, TypeOK, Entries, PLStates
<1>2. /\ Len(stack) \in Nat /\ DOMAIN stack = 1 .. Len(stack)
      /\ Len(ctx) \in Nat
      /\ \A i \in DOMAIN stack : stack[i] \in Entries
      /\ \A i \in 1 .. Len(ctx) : ctx[i] \in Regions
  BY <1>1, LenProperties, ElementOfSeq
<1>3. Len(ctx) = Len(stack) \/ Len(ctx) = Len(stack) + 1
  <2> DEFINE base == IF SnC THEN 1 ELSE 0
  <2>1. base \in {0, 1}
    OBVIOUS
  <2>2. Len(ctx) = Len(stack) + base
    BY DEF Typed, LevelsMatch
  <2> HIDE DEF base
  <2>3. Len(ctx) \in Nat /\ Len(stack) \in Nat
    BY <1>2
  <2>4. CASE base = 0
    BY <2>2, <2>3, <2>4
  <2>5. CASE base = 1
    BY <2>2, <2>3, <2>5
  <2>6. QED
    BY <2>1, <2>4, <2>5
<1>4. \A i \in DOMAIN stack : stack[i].alts \in Seq(Regions)
  BY <1>2 DEF Entries
<1>5. \A i \in DOMAIN stack : DOMAIN stack[i].alts = 1 .. Len(stack[i].alts)
  BY <1>4, LenProperties
<1>6. \A i \in DOMAIN stack : Saved(i) \in Regions
  <2>1. SUFFICES ASSUME NEW i \in DOMAIN stack PROVE Saved(i) \in Regions
    OBVIOUS
  <2>2. i + Len(ctx) - Len(stack) \in 1 .. Len(ctx)
    BY <1>2, <1>3
  <2>3. QED
    BY <1>2, <2>2 DEF Saved
<1>7. QED
  BY <1>1, <1>2, <1>3, <1>4, <1>5, <1>6

\* The phases and the cases of a query
LEMMA PiecesOfQuery ==
    ASSUME QueryTyped, NEW c \in Constraints
    PROVE  /\ \A ph \in Phases : problem.piece[c][ph] \in Regions
           /\ \A ph \in Phases : problem.piece[c][ph] \subseteq Holds(c)
           /\ Holds(c) \in Regions
  BY DEF QueryTyped, Holds, Regions

\* The same of a search whose variables have their types
LEMMA Pieces ==
    ASSUME Typed, NEW c \in Constraints
    PROVE  /\ \A ph \in Phases : problem.piece[c][ph] \in Regions
           /\ \A ph \in Phases : problem.piece[c][ph] \subseteq Holds(c)
           /\ Holds(c) \in Regions
  BY PiecesOfQuery DEF Typed

\* A constraint whose case is due has a case, and it is all that is left of it
LEMMA ValidFacts ==
    ASSUME Typed
    PROVE  /\ ValidRegions \subseteq Regions
           /\ \A c \in PendingValid : phase[c] \in Phases /\ c \in Constraints /\ active[c]
           /\ \A c \in PendingValid : problem.piece[c][phase[c]] \in ValidRegions
<1>1. \A c \in PendingValid : phase[c] \in Phases /\ c \in Constraints /\ active[c]
  BY DEF Typed, TypeOK, PendingValid, Candidates, Active
<1>2. \A c \in PendingValid : problem.piece[c][phase[c]] \in Regions
  BY <1>1, Pieces
<1>3. QED
  BY <1>1, <1>2 DEF ValidRegions

\* What a solution is
LEMMA SolutionFacts ==
    ASSUME NEW p \in Solutions
    PROVE  p \in region /\ p \in problem.smooth /\ \A c \in Constraints : p \in Holds(c)
  BY DEF Solutions

\* The query does not change
LEMMA QueryKept ==
    ASSUME UNCHANGED query
    PROVE  /\ problem' = problem /\ region' = region
           /\ Solutions' = Solutions
           /\ \A c \in Constraints : Holds(c)' = Holds(c)
  BY DEF query, Solutions, Holds

\* TypeOK in its two parts
LEMMA TypeParts == TypeOK <=> StateTyped /\ ControlTyped
BY DEF TypeOK, StateTyped, ControlTyped, Entries, PLStates
-----------------------------------------------------------------------------
(***************************************************************************)
(* Steps that leave the stack alone.                                       *)
(***************************************************************************)
\* The bounds lose no solution, flags stay, known phases are right
LEMMA QuietStep ==
    ASSUME Inv, UNCHANGED <<query, ctx, stack, rootImplied, active>>,
           box' \in SUBSET box, box \cap Solutions \subseteq box',
           phase' \in [Constraints -> Phases \cup {NotFixed}], PhaseRight', ControlTyped', Answered',
           pc # "backtrack", pc' = "backtrack" => box' = {}
    PROVE  Inv'
<1> USE DEF Inv
<1>1. /\ problem' = problem /\ region' = region /\ Solutions' = Solutions
      /\ \A c \in Constraints : Holds(c)' = Holds(c)
  BY QueryKept
<1>2. Typed'
  <2>1. StateTyped'
    BY TypeParts DEF Typed, StateTyped, Regions
  <2>2. TypeOK'
    BY <2>1, TypeParts, PTL
  <2>3. QED
    BY <1>1, <2>2 DEF Typed, QueryTyped, LevelsMatch
<1>3. Within'
  BY <1>1 DEF Within, Saved
<1>4. InactiveHold'
  BY <1>1 DEF InactiveHold, Active
<1>5. InactiveHoldLater'
  BY <1>1 DEF InactiveHoldLater, Saved
<1>6. NoneKnownLater'
  BY DEF NoneKnownLater
<1>7. Kept'
  <2>1. SUFFICES ASSUME NEW p \in Solutions
                 PROVE  \/ \E i \in DOMAIN stack' : HeldBy(p, i)'
                        \/ Compliant(p)' /\ p \in box' /\ pc' # "backtrack"
    BY <1>1 DEF Kept
  <2>2. CASE \E i \in DOMAIN stack : HeldBy(p, i)
    BY <2>2 DEF HeldBy, Skewed, ImpliedAllow, Allows, Saved
  <2>3. CASE Compliant(p) /\ p \in box
    <3>1. Compliant(p)'
      BY <2>3 DEF Compliant, ImpliedAllow, Allows
    <3>2. QED
      BY <2>3, <3>1
  <2>4. QED
    BY <2>2, <2>3 DEF Kept
<1>8. QED
  BY <1>2, <1>3, <1>4, <1>5, <1>6, <1>7

\* An entry with other implied splits
LEMMA EntryWithImplied ==
    ASSUME NEW entry \in Entries, NEW V
    PROVE  [entry EXCEPT !.implied = V] =
                [current |-> entry.current, alts |-> entry.alts, implied |-> V, pl |-> entry.pl]
<1> DEFINE R == Regions
           A == Seq(Regions)
           I == SUBSET Regions
           P == PLStates
<1>1. entry \in [current : R, alts : A, implied : I, pl : P]
  BY DEF Entries
<1> HIDE DEF R, A, I, P
<1>2. QED
  BY <1>1, SMT

\* What recording the implied splits does to the stack
LEMMA RecordFacts ==
    ASSUME StateTyped, NEW V \in SUBSET Regions, RecordImplied(V)
    PROVE  /\ stack' \in Seq(Entries) /\ Len(stack') = Len(stack)
           /\ rootImplied' \subseteq Regions
           /\ stack = <<>> => rootImplied' = rootImplied \cup V
           /\ stack # <<>> => rootImplied' = rootImplied
           /\ \A i \in DOMAIN stack :
                /\ stack'[i].current = stack[i].current
                /\ stack'[i].alts = stack[i].alts
                /\ stack'[i].pl = stack[i].pl
                /\ stack'[i].implied =
                      IF i = Len(stack) THEN stack[i].implied \cup V ELSE stack[i].implied
<1>1. /\ stack \in Seq(Entries) /\ Len(stack) \in Nat /\ DOMAIN stack = 1 .. Len(stack)
      /\ rootImplied \subseteq Regions
      /\ \A i \in DOMAIN stack : stack[i] \in Entries
  BY LenProperties, ElementOfSeq DEF StateTyped
<1>2. CASE stack = <<>>
  BY <1>1, <1>2 DEF RecordImplied
<1>3. CASE stack # <<>>
  <2> DEFINE last == stack[Len(stack)]
             e == [current |-> last.current, alts |-> last.alts,
                   implied |-> last.implied \cup V, pl |-> last.pl]
  <2>1. Len(stack) \in 1 .. Len(stack)
    BY <1>1, <1>3, EmptySeq
  <2>2. last \in Entries /\ e \in Entries
    BY <1>1, <2>1 DEF Entries
  <2>3. [last EXCEPT !.implied = @ \cup V] = e
    BY <2>2, EntryWithImplied
  <2>4. stack' = [stack EXCEPT ![Len(stack)] = e] /\ rootImplied' = rootImplied
    BY <1>3, <2>3 DEF RecordImplied
  <2> HIDE DEF last
  <2>5. /\ stack' \in Seq(Entries) /\ Len(stack') = Len(stack)
        /\ \A j \in 1 .. Len(stack) : stack'[j] = IF j = Len(stack) THEN e ELSE stack[j]
    BY <1>1, <2>1, <2>2, <2>4, ExceptSeq
  <2>6. QED
    BY <1>1, <1>3, <2>4, <2>5 DEF last
<1>4. QED
  BY <1>2, <1>3

\* The constraints whose phase is known are retired, and their cases applied
LEMMA AppliedStep ==
    ASSUME Inv, ApplyAllValidSplits, UNCHANGED <<query, ctx, phase>>,
           ControlTyped', Answered', pc # "backtrack", pc' # "backtrack"
    PROVE  Inv'
<1> USE DEF Inv
<1>1. /\ problem' = problem /\ region' = region /\ Solutions' = Solutions
      /\ \A c \in Constraints : Holds(c)' = Holds(c)
  BY QueryKept
<1>2. /\ ValidRegions \subseteq Regions
      /\ \A c \in PendingValid : phase[c] \in Phases /\ c \in Constraints /\ active[c]
      /\ \A c \in PendingValid : problem.piece[c][phase[c]] \in ValidRegions
  BY ValidFacts
<1>3. /\ stack' \in Seq(Entries) /\ Len(stack') = Len(stack)
      /\ rootImplied' \subseteq Regions
      /\ stack = <<>> => rootImplied' = rootImplied \cup ValidRegions
      /\ stack # <<>> => rootImplied' = rootImplied
      /\ \A i \in DOMAIN stack :
           /\ stack'[i].current = stack[i].current
           /\ stack'[i].alts = stack[i].alts
           /\ stack'[i].pl = stack[i].pl
           /\ stack'[i].implied =
                 IF i = Len(stack) THEN stack[i].implied \cup ValidRegions ELSE stack[i].implied
  <2>1. StateTyped
    BY TypeParts DEF Typed
  <2>. QED
    BY <1>2, <2>1, RecordFacts DEF ApplyAllValidSplits
<1>4. /\ Len(stack) \in Nat /\ DOMAIN stack = 1 .. Len(stack) /\ DOMAIN stack' = DOMAIN stack
      /\ stack = <<>> <=> Len(stack) = 0
  BY <1>3, Types, LenProperties, EmptySeq
<1>5. \A i \in DOMAIN stack : Saved(i)' = Saved(i)
  BY <1>3 DEF Saved
<1>6. /\ box' \subseteq box
      /\ \A r \in ValidRegions : box' \subseteq r
      /\ \A q \in box : (\A r \in ValidRegions : q \in r) => q \in box'
      /\ \A c \in Constraints : active'[c] <=> (active[c] /\ c \notin PendingValid)
      /\ active' \in [Constraints -> BOOLEAN]
  BY DEF ApplyAllValidSplits, ApplyValid, AllowedBy, Typed, TypeOK, Regions
<1>7. Typed'
  <2>1. StateTyped'
    BY <1>3, <1>6, TypeParts DEF Typed, StateTyped, Regions
  <2>2. TypeOK'
    BY <2>1, TypeParts, PTL
  <2>3. QED
    BY <1>1, <1>3, <2>2 DEF Typed, QueryTyped, LevelsMatch
<1>8. Within'
  BY <1>1, <1>4, <1>5, <1>6 DEF Within
<1>9. InactiveHold'
  <2>1. SUFFICES ASSUME NEW c \in Constraints, ~active'[c] PROVE box' \subseteq Holds(c)
    BY <1>1 DEF InactiveHold, Active
  <2>2. CASE ~active[c]
    BY <1>6, <2>2 DEF InactiveHold, Active
  <2>3. CASE c \in PendingValid
    BY <1>2, <1>6, <2>3, Pieces
  <2>4. QED
    BY <1>6, <2>1, <2>2, <2>3
<1>10. InactiveHoldLater'
  <2>1. SUFFICES ASSUME NEW i \in DOMAIN stack, NEW c \in Constraints, ~stack'[i].pl.active[c],
                        NEW a \in DOMAIN stack'[i].alts
                 PROVE  Saved(i)' \cap stack'[i].alts[a] \subseteq Holds(c)
    BY <1>1, <1>4 DEF InactiveHoldLater
  <2>2. stack'[i].pl = stack[i].pl /\ stack'[i].alts = stack[i].alts /\ Saved(i)' = Saved(i)
    BY <1>3, <1>5
  <2>3. QED
    BY <2>1, <2>2 DEF InactiveHoldLater
<1>11. NoneKnownLater'
  <2>1. \A i \in DOMAIN stack : stack'[i].pl = stack[i].pl
    BY <1>3
  <2>2. QED
    BY <1>4, <2>1 DEF NoneKnownLater
<1>12. PhaseRight'
  <2>1. \A c \in PendingValid' : c \in PendingValid
    BY <1>6 DEF PendingValid, Active, Candidates
  <2>2. QED
    BY <1>1, <1>2, <1>6, <2>1 DEF PhaseRight
<1>13. Kept'
  <2>1. SUFFICES ASSUME NEW p \in Solutions
                 PROVE  \/ \E i \in DOMAIN stack' : HeldBy(p, i)'
                        \/ Compliant(p)' /\ p \in box' /\ pc' # "backtrack"
    BY <1>1 DEF Kept
  <2>2. CASE \E i \in DOMAIN stack : HeldBy(p, i)
    <3>1. PICK i \in DOMAIN stack : HeldBy(p, i)
      BY <2>2
    <3>2. stack # <<>> /\ rootImplied' = rootImplied
      BY <1>3, <1>4, <3>1
    <3>3. \A j \in 1 .. i - 1 : stack'[j].implied = stack[j].implied /\ j \in DOMAIN stack
      <4>1. \A j \in 1 .. i - 1 : j \in DOMAIN stack /\ j # Len(stack)
        <5>1. i \in 1 .. Len(stack) /\ Len(stack) \in Nat
          BY <1>4
        <5>2. \A j \in 1 .. i - 1 : j \in 1 .. Len(stack) /\ j # Len(stack)
          BY <5>1
        <5>3. QED
          BY <1>4, <5>2
      <4>2. QED
        BY <1>3, <4>1
    <3>4. Skewed(p, i)'
      BY <1>3, <3>1, <3>2, <3>3 DEF HeldBy, Skewed, ImpliedAllow, Allows
    <3>5. HeldBy(p, i)'
      BY <1>3, <1>5, <3>1, <3>4 DEF HeldBy
    <3>6. QED
      BY <1>4, <3>1, <3>5
  <2>3. CASE Compliant(p) /\ p \in box
    <3>1. \A r \in ValidRegions : p \in r
      <4>1. SUFFICES ASSUME NEW c \in PendingValid PROVE p \in problem.piece[c][phase[c]]
        BY DEF ValidRegions
      <4>2. p \in Holds(c)
        BY <1>2, <4>1, SolutionFacts
      <4>3. QED
        BY <2>3, <4>1, <4>2 DEF PhaseRight
    <3>2. p \in box'
      BY <1>6, <2>3, <3>1
    <3>3. Compliant(p)'
      BY <1>3, <1>4, <2>3, <3>1 DEF Compliant, ImpliedAllow, Allows
    <3>4. QED
      BY <3>2, <3>3
  <2>4. QED
    BY <2>2, <2>3 DEF Kept
<1>14. QED
  BY <1>7, <1>8, <1>9, <1>10, <1>11, <1>12, <1>13

\* Steps that change neither the query nor the answer
LEMMA AnswerKept ==
    ASSUME Inv, UNCHANGED <<query, outcome>>, pc # "done"
    PROVE  Answered'
<1>1. Solutions' = Solutions
  BY QueryKept
<1>2. QED
  BY <1>1 DEF Inv, Answered, AnswerRight, SatIsSolution, UnsatMeansNone, outcome

\* Steps within the bounds that find out nothing about the phases
LEMMA PhaseRightKept ==
    ASSUME Inv, UNCHANGED <<query, plState>>, box' \subseteq box
    PROVE  PhaseRight'
<1>1. problem' = problem /\ \A c \in Constraints : Holds(c)' = Holds(c)
  BY QueryKept
<1>2. PendingValid' = PendingValid /\ PendingValid \subseteq Constraints
  BY DEF PendingValid, Active, Candidates, plState
<1>3. QED
  BY <1>1, <1>2 DEF Inv, PhaseRight, plState

\* What Inv says of the types
LEMMA Control ==
    ASSUME Inv
    PROVE  /\ ControlTyped /\ StateTyped
           /\ box' = box => box' \in SUBSET box /\ box \cap Solutions \subseteq box'
BY TypeParts DEF Inv, Typed

\* ... and so the steps that change the split conditions or pc only
LEMMA ControlStep ==
    ASSUME Inv, UNCHANGED <<query, box, ctx, plState, stack, rootImplied, outcome>>,
           ControlTyped', pc \notin {"backtrack", "done"}, pc' = "backtrack" => box = {}
    PROVE  Inv'
<1>1. phase \in [Constraints -> Phases \cup {NotFixed}] /\ UNCHANGED <<active, phase>>
  BY Control DEF StateTyped, plState
<1>2. PhaseRight' /\ Answered'
  BY AnswerKept, PhaseRightKept
<1>3. QED
  BY <1>1, <1>2, QuietStep, Control

\* What the resets set
LEMMA ResetTyped ==
    /\ 0 \in 0 .. Threshold /\ [c \in Constraints |-> 0] \in [Constraints -> 0 .. Threshold]
    /\ 0 \in 0 .. MaxCost
<1>1. 0 \in 0 .. Threshold /\ 0 \in 0 .. MaxCost
  BY ThresholdIsPositive, CostsAreNumbers
<1>2. QED
  BY <1>1

\* What is picked
LEMMA PickedTypes ==
    Picked \cup TopUnfixed \subseteq Constraints \cup {Interval, None}
BY DEF Picked, TopUnfixed, Candidates, Active
-----------------------------------------------------------------------------
(***************************************************************************)
(* Deductions, and the judgement of an assignment.                         *)
(***************************************************************************)
LEMMA ApplyValidSplitsStep ==
    ASSUME Inv, ApplyValidSplits
    PROVE  Inv'
<1>1. /\ ApplyAllValidSplits
      /\ UNCHANGED <<query, ctx, phase, splitState, cost, pc, outcome>>
      /\ pc = "solve"
  BY DEF ApplyValidSplits
<1>2. ControlTyped'
  BY <1>1, Control DEF ControlTyped, splitState
<1>3. QED
  BY <1>1, <1>2, AnswerKept, AppliedStep

\* Bounds are tightened, and a solution within them stays
LEMMA TightenStep ==
    ASSUME Inv, Tighten
    PROVE  Inv'
<1>1. /\ pc \in {"solve", "search", "propose"}
      /\ UNCHANGED <<query, ctx, plState, stack, rootImplied, splitState, cost, pc, outcome>>
      /\ box' \in SUBSET box /\ box \cap Solutions \subseteq box'
  BY DEF Tighten
<1>2. ControlTyped' /\ phase' \in [Constraints -> Phases \cup {NotFixed}]
  BY <1>1, Control DEF ControlTyped, StateTyped, splitState, plState
<1>3. PhaseRight' /\ Answered'
  BY <1>1, AnswerKept, PhaseRightKept
<1>4. QED
  BY <1>1, <1>2, <1>3, QuietStep DEF plState

\* A phase is found fixed, and it is right within the bounds
LEMMA FixPhaseStep ==
    ASSUME Inv, FixPhase
    PROVE  Inv'
<1>1. PICK c \in Candidates, ph \in Phases :
        /\ box \cap Holds(c) \subseteq problem.piece[c][ph]
        /\ phase' = [phase EXCEPT ![c] = ph]
  BY DEF FixPhase
<1>2. /\ pc \in {"solve", "search", "propose"}
      /\ UNCHANGED <<query, box, ctx, active, stack, rootImplied, splitState, cost, pc, outcome>>
  BY DEF FixPhase
<1>3. /\ phase \in [Constraints -> Phases \cup {NotFixed}] /\ c \in Constraints
      /\ phase' \in [Constraints -> Phases \cup {NotFixed}]
      /\ \A d \in Constraints : phase'[d] = IF d = c THEN ph ELSE phase[d]
  BY <1>1, Control DEF StateTyped, Candidates, Active
<1>4. ControlTyped'
  BY <1>2, Control DEF ControlTyped, splitState
<1>5. problem' = problem /\ \A d \in Constraints : Holds(d)' = Holds(d)
  BY <1>2, QueryKept
<1>6. PhaseRight'
  <2>1. SUFFICES ASSUME NEW d \in PendingValid'
                 PROVE  box \cap Holds(d) \subseteq problem.piece[d][phase'[d]]
    BY <1>2, <1>5 DEF PhaseRight, PendingValid, Active
  <2>2. d \in Constraints /\ (d = c \/ d \in PendingValid)
    BY <1>2, <1>3, <2>1 DEF PendingValid, Active, Candidates
  <2>3. QED
    BY <1>1, <1>3, <2>2 DEF Inv, PhaseRight
<1>7. Answered'
  BY <1>2, AnswerKept
<1>8. QED
  BY <1>2, <1>3, <1>4, <1>6, <1>7, QuietStep, Control

\* The last proposal is rejected: the known cases are applied, a target picked
LEMMA LastRejectionStep ==
    ASSUME Inv, LastRejection, UNCHANGED <<query, ctx, phase, violations, cost, outcome>>,
           pc \in {"solve", "search", "propose"}, pc' = "solve"
    PROVE  Inv'
<1>1. /\ rejected' = Threshold /\ needToSplit' = TRUE /\ ApplyAllValidSplits
      /\ target' \in Constraints \cup {Interval, None}
  BY PickedTypes DEF LastRejection
<1>2. ControlTyped'
  BY <1>1, Control, ThresholdIsPositive DEF ControlTyped
<1>3. QED
  BY <1>1, <1>2, AnswerKept, AppliedStep

\* An answer with which the engine stops
LEMMA FinishStep ==
    ASSUME Inv, NEW code, NEW p, Finish(code, p), pc \notin {"backtrack", "done"},
           UNCHANGED <<query, box, ctx, plState, stack, rootImplied, splitState, cost>>,
           code = "SAT" => p \in Solutions, code # "UNSAT"
    PROVE  Inv'
<1>1. Solutions' = Solutions
  BY QueryKept
<1>2. Answered'
  BY <1>1 DEF Finish, Answered, AnswerRight, SatIsSolution, UnsatMeansNone
<1>3. ControlTyped' /\ phase' \in [Constraints -> Phases \cup {NotFixed}]
  BY Control DEF Finish, ControlTyped, StateTyped, splitState, plState
<1>4. PhaseRight'
  BY PhaseRightKept
<1>5. QED
  BY <1>2, <1>3, <1>4, QuietStep, Control DEF Finish, plState

\* An assignment satisfies the active constraints
LEMMA JudgeStep ==
    ASSUME Inv, NEW p \in box, Satisfied(p), JudgeSatisfying(p),
           UNCHANGED <<query, ctx, phase, cost>>, pc \in {"solve", "search", "propose"}
    PROVE  Inv'
<1>1. CASE /\ p \in problem.smooth
           /\ Finish("SAT", p)
           /\ UNCHANGED <<box, active, stack, rootImplied, splitState>>
  <2>1. \A c \in Constraints : p \in Holds(c)
    BY DEF Inv, InactiveHold, Satisfied, Active
  <2>2. p \in Solutions
    BY <1>1, <2>1 DEF Inv, Within, Solutions
  <2>3. QED
    BY <1>1, <2>2, FinishStep DEF plState
<1>2. CASE /\ Finish("UNKNOWN", None)
           /\ UNCHANGED <<box, active, stack, rootImplied, splitState>>
  BY <1>2, FinishStep DEF plState
<1>3. CASE LastRejection /\ pc' = "solve" /\ UNCHANGED <<violations, outcome>>
  BY <1>3, LastRejectionStep
<1>4. QED
  BY <1>1, <1>2, <1>3 DEF JudgeSatisfying

\* An assignment of the simplex is checked
LEMMA CheckAssignmentStep ==
    ASSUME Inv, CheckAssignment
    PROVE  Inv'
<1>1. pc = "solve" /\ UNCHANGED <<query, ctx, phase>>
  BY DEF CheckAssignment
<1>2. CASE \E p \in box : Satisfied(p) /\ JudgeSatisfying(p) /\ UNCHANGED cost
  BY <1>1, <1>2, JudgeStep
<1>3. CASE /\ pc' = "search" /\ cost' \in 0 .. MaxCost
           /\ UNCHANGED <<box, active, stack, rootImplied, splitState, outcome>>
  <2>1. ControlTyped'
    BY <1>3, Control DEF ControlTyped, splitState
  <2>2. QED
    BY <1>1, <1>3, <2>1, ControlStep DEF plState
<1>4. CASE \E c \in Active : /\ ReportViolated(c)
                             /\ UNCHANGED <<box, active, stack, rootImplied, cost, pc, outcome>>
  <2>1. PICK c \in Active : ReportViolated(c)
    BY <1>4
  <2>2. /\ violations' = [violations EXCEPT ![c] = IF @ < Threshold THEN @ + 1 ELSE @]
        /\ needToSplit' = TRUE \/ needToSplit' = needToSplit
        /\ target' \in Picked \cup {c} \/ target' = target
        /\ rejected' = rejected
    BY <2>1 DEF ReportViolated
  <2>3. violations' \in [Constraints -> 0 .. Threshold]
    BY <2>2, Control, ThresholdIsPositive DEF ControlTyped, Active
  <2>4. target' \in Constraints \cup {Interval, None}
    BY <2>1, <2>2, Control, PickedTypes DEF ControlTyped, Active
  <2>5. ControlTyped'
    BY <1>4, <2>2, <2>3, <2>4, Control DEF ControlTyped
  <2>6. QED
    BY <1>1, <1>4, <2>5, ControlStep DEF plState
<1>5. QED
  BY <1>2, <1>3, <1>4 DEF CheckAssignment
-----------------------------------------------------------------------------
(***************************************************************************)
(* The local search, and the steps that only change the split conditions.  *)
(***************************************************************************)
LEMMA LocalSearchStep ==
    ASSUME Inv, JudgeOptimum \/ LeaveSearch \/ RejectProposal \/ AcceptProposal \/ AbandonSearch
    PROVE  Inv'
<1>1. pc \in {"search", "propose"} /\ UNCHANGED <<query, ctx, phase>>
  BY DEF JudgeOptimum, LeaveSearch, RejectProposal, AcceptProposal, AbandonSearch, plState
<1>2. CASE LastRejection /\ pc' = "solve" /\ UNCHANGED <<violations, cost, outcome>>
  BY <1>1, <1>2, LastRejectionStep
<1>3. CASE /\ pc' \in {"solve", "search", "propose"} /\ cost' \in 0 .. MaxCost
           /\ UNCHANGED <<box, active, stack, rootImplied, splitState, outcome>>
  <2>1. ControlTyped'
    BY <1>3, Control DEF ControlTyped, splitState
  <2>2. QED
    BY <1>1, <1>3, <2>1, ControlStep DEF plState
<1>4. cost \in 0 .. MaxCost
  BY Control DEF ControlTyped
<1>5. CASE RejectProposal /\ rejected + 1 < Threshold
  <2>1. /\ rejected' = rejected + 1
        /\ UNCHANGED <<box, active, stack, rootImplied, needToSplit, target, cost, pc>>
        /\ UNCHANGED <<violations, outcome>>
    BY <1>5, Control, ThresholdIsPositive DEF RejectProposal, ControlTyped
  <2>2. ControlTyped'
    BY <1>5, <2>1, Control, ThresholdIsPositive DEF ControlTyped
  <2>3. QED
    BY <1>1, <2>1, <2>2, ControlStep DEF plState
<1>6. CASE RejectProposal /\ ~(rejected + 1 < Threshold)
  BY <1>2, <1>6, Control, ThresholdIsPositive DEF RejectProposal, ControlTyped
<1>7. CASE JudgeOptimum
  BY <1>1, <1>3, <1>4, <1>7, JudgeStep DEF JudgeOptimum
<1>8. CASE LeaveSearch
  BY <1>2, <1>3, <1>4, <1>8 DEF LeaveSearch
<1>9. CASE AcceptProposal \/ AbandonSearch
  BY <1>3, <1>4, <1>9 DEF AcceptProposal, AbandonSearch, plState
<1>10. QED
  BY <1>5, <1>6, <1>7, <1>8, <1>9

\* The target is forgotten, or there is none
LEMMA ForgetStep ==
    ASSUME Inv, ForgetTarget \/ SplitOnNull \/ Infeasible
    PROVE  Inv'
<1>1. /\ pc \in {"solve", "search", "propose"}
      /\ UNCHANGED <<query, box, ctx, plState, stack, rootImplied, outcome>>
      /\ pc' \in {"solve", "search", "propose", "crash", "backtrack"}
      /\ pc' = "backtrack" => box = {}
  BY DEF ForgetTarget, SplitOnNull, Infeasible
<1>2. ControlTyped'
  <2>1. CASE ForgetTarget
    <3>1. 0 \in 0 .. Threshold
      BY ResetTyped
    <3>2. violations' \in [Constraints -> 0 .. Threshold]
      BY <2>1, <3>1, Control DEF ForgetTarget, ControlTyped
    <3>3. needToSplit' = FALSE /\ target' = None /\ rejected' = 0 /\ UNCHANGED <<cost, pc>>
      BY <2>1 DEF ForgetTarget
    <3>4. QED
      BY <3>1, <3>2, <3>3, Control DEF ControlTyped
  <2>2. CASE SplitOnNull \/ Infeasible
    BY <2>2, Control DEF SplitOnNull, Infeasible, ControlTyped, splitState
  <2>3. QED
    BY <2>1, <2>2
<1>3. QED
  BY <1>1, <1>2, ControlStep

\* Precision is restored, and only inactive constraints lose their phase
LEMMA RestorePrecisionStep ==
    ASSUME Inv, RestorePrecision
    PROVE  Inv'
<1>1. /\ pc \in {"solve", "search", "propose"}
      /\ phase' = [c \in Constraints |-> IF active[c] THEN phase[c] ELSE NotFixed]
      /\ UNCHANGED <<query, box, ctx, active, stack, rootImplied, target, cost, pc, outcome>>
  BY DEF RestorePrecision
<1>2. phase' \in [Constraints -> Phases \cup {NotFixed}]
  BY <1>1, Control DEF StateTyped
<1>3. ControlTyped'
  BY <1>1, Control, ResetTyped DEF RestorePrecision, ControlTyped
<1>4. problem' = problem /\ \A c \in Constraints : Holds(c)' = Holds(c)
  BY <1>1, QueryKept
<1>5. PhaseRight'
  <2>1. SUFFICES ASSUME NEW c \in PendingValid'
                 PROVE  box \cap Holds(c) \subseteq problem.piece[c][phase'[c]]
    BY <1>1, <1>4 DEF PhaseRight, PendingValid, Active
  <2>2. c \in PendingValid /\ phase'[c] = phase[c]
    BY <1>1, <2>1 DEF PendingValid, Active, Candidates
  <2>3. QED
    BY <2>2 DEF Inv, PhaseRight
<1>6. Answered'
  BY <1>1, AnswerKept
<1>7. QED
  BY <1>1, <1>2, <1>3, <1>5, <1>6, QuietStep, Control
-----------------------------------------------------------------------------
(***************************************************************************)
(* Splits and alternatives.                                                *)
(***************************************************************************)
\* What the target's cases cover between them
Whole == IF target = Interval THEN Points ELSE Holds(target)

\* The cases of the target are those of its constraint, and cover it
LEMMA CasesOfQuery ==
    ASSUME QueryTyped, target \in Constraints \cup {Interval}, NEW splits \in CaseSplits
    PROVE  /\ splits[1] \in Regions /\ Tail(splits) \in Seq(Regions)
           /\ splits[1] \subseteq Whole
           /\ \A a \in DOMAIN Tail(splits) : Tail(splits)[a] \subseteq Whole
           /\ \A p \in Whole : p \in splits[1] \/ \E a \in DOMAIN Tail(splits) : p \in Tail(splits)[a]
<1>1. CASE target = Interval
  <2>1. PICK r \in Regions, s \in Regions : splits = <<r, s>> /\ r \cup s = Points
    BY <1>1 DEF CaseSplits
  <2>2. Whole = Points
    BY <1>1 DEF Whole
  <2>3. Tail(splits) = <<s>> /\ splits[1] = r /\ DOMAIN <<s>> = {1}
    BY <2>1
  <2>4. QED
    BY <2>1, <2>2, <2>3 DEF Regions
<1>2. CASE target # Interval
  <2> DEFINE N == Cardinality(Phases)
  <2>1. PICK order \in [1 .. N -> Phases] :
            /\ \A i, j \in DOMAIN order : i # j => order[i] # order[j]
            /\ splits = [i \in 1 .. N |-> problem.piece[target][order[i]]]
    BY <1>2 DEF CaseSplits
  <2>2. N \in Nat /\ N # 0
    BY ConstraintsAreFinite, ConstraintsHaveCases, FS_CardinalityType, FS_EmptySet
  <2>3. order \in Injection(1 .. N, Phases)
    BY <2>1 DEF Injection, IsInjective
  <2>4. Cardinality(1 .. N) = N
    BY <2>2, FS_Interval
  <2>5. order \in Surjection(1 .. N, Phases)
    BY <2>3, <2>4, ConstraintsAreFinite, FS_Injection
  <2>6. target \in Constraints /\ Whole = Holds(target)
    BY <1>2 DEF Whole
  <2> HIDE DEF N
  <2>7. /\ \A i \in 1 .. N : splits[i] \in Regions /\ splits[i] \subseteq Whole
        /\ \A p \in Whole : \E i \in 1 .. N : p \in splits[i]
    <3>1. \A i \in 1 .. N : order[i] \in Phases /\ splits[i] = problem.piece[target][order[i]]
      BY <2>1
    <3>2. \A i \in 1 .. N : splits[i] \in Regions /\ splits[i] \subseteq Whole
      BY <2>6, <3>1, PiecesOfQuery
    <3>3. ASSUME NEW p \in Whole PROVE \E i \in 1 .. N : p \in splits[i]
      <4>1. PICK ph \in Phases : p \in problem.piece[target][ph]
        BY <2>6, <3>3 DEF Holds
      <4>2. PICK i \in 1 .. N : order[i] = ph
        BY <2>5 DEF Surjection
      <4>3. QED
        BY <3>1, <4>1, <4>2
    <3>4. QED
      BY <3>2, <3>3
  <2>8. splits \in Seq(Regions) /\ Len(splits) = N /\ splits # <<>>
    <3>1. splits \in [1 .. N -> Regions]
      BY <2>1, <2>7
    <3>2. splits \in Seq(Regions) /\ Len(splits) = N
      BY <2>2, <3>1
    <3>3. QED
      BY <2>2, <3>2
  <2>9. /\ Tail(splits) \in Seq(Regions) /\ Len(Tail(splits)) = N - 1
        /\ \A a \in 1 .. N - 1 : Tail(splits)[a] = splits[a + 1]
        /\ DOMAIN Tail(splits) = 1 .. N - 1
    BY <2>8, HeadTailProperties, LenProperties
  <2>10. 1 \in 1 .. N /\ (\A a \in 1 .. N - 1 : a + 1 \in 1 .. N)
         /\ \A i \in 1 .. N : i = 1 \/ (i - 1 \in 1 .. N - 1 /\ i = (i - 1) + 1)
    BY <2>2
  <2>11. splits[1] \in Regions /\ splits[1] \subseteq Whole
    BY <2>7, <2>10
  <2>12. \A a \in DOMAIN Tail(splits) : Tail(splits)[a] \subseteq Whole
    BY <2>7, <2>9, <2>10
  <2>13. ASSUME NEW p \in Whole
         PROVE  p \in splits[1] \/ \E a \in DOMAIN Tail(splits) : p \in Tail(splits)[a]
    <3>1. PICK i \in 1 .. N : p \in splits[i]
      BY <2>7, <2>13
    <3>2. CASE i = 1
      BY <3>1, <3>2
    <3>3. CASE i # 1
      <4>1. i - 1 \in DOMAIN Tail(splits) /\ Tail(splits)[i - 1] = splits[(i - 1) + 1]
        BY <2>9, <2>10, <3>3
      <4>2. QED
        BY <2>10, <3>1, <3>3, <4>1
    <3>4. QED
      BY <3>2, <3>3
  <2>14. QED
    BY <2>9, <2>11, <2>12, <2>13
<1>3. QED
  BY <1>1, <1>2

\* The same of a search whose variables have their types
LEMMA CaseFacts ==
    ASSUME Typed, target \in Constraints \cup {Interval}, NEW splits \in CaseSplits
    PROVE  /\ splits[1] \in Regions /\ Tail(splits) \in Seq(Regions)
           /\ splits[1] \subseteq Whole
           /\ \A a \in DOMAIN Tail(splits) : Tail(splits)[a] \subseteq Whole
           /\ \A p \in Whole : p \in splits[1] \/ \E a \in DOMAIN Tail(splits) : p \in Tail(splits)[a]
  BY CasesOfQuery DEF Typed

\* What a push does to the levels
LEMMA PushFacts ==
    ASSUME Typed, NEW entry \in Entries, NEW n, n = Len(stack),
           stack' = Append(stack, entry), ctx' = Append(ctx, box)
    PROVE  /\ stack' \in Seq(Entries) /\ ctx' \in Seq(Regions)
           /\ Len(stack') = n + 1 /\ DOMAIN stack' = DOMAIN stack \cup {n + 1}
           /\ \A i \in DOMAIN stack : stack'[i] = stack[i] /\ Saved(i)' = Saved(i)
           /\ stack'[n + 1] = entry /\ Saved(n + 1)' = box
           /\ LevelsMatch'
<1>1. /\ stack \in Seq(Entries) /\ Len(stack) \in Nat /\ DOMAIN stack = 1 .. Len(stack)
      /\ ctx \in Seq(Regions) /\ Len(ctx) \in Nat
      /\ Len(ctx) = Len(stack) \/ Len(ctx) = Len(stack) + 1
  BY Types
<1>2. box \in Regions
  BY DEF Typed, TypeOK
<1>3. /\ stack' \in Seq(Entries) /\ Len(stack') = Len(stack) + 1
      /\ \A i \in 1 .. Len(stack) : stack'[i] = stack[i]
      /\ stack'[Len(stack) + 1] = entry
  BY <1>1, AppendProperties
<1>4. /\ ctx' \in Seq(Regions) /\ Len(ctx') = Len(ctx) + 1
      /\ \A i \in 1 .. Len(ctx) : ctx'[i] = ctx[i]
      /\ ctx'[Len(ctx) + 1] = box
  BY <1>1, <1>2, AppendProperties
<1>5. DOMAIN stack' = DOMAIN stack \cup {Len(stack) + 1}
  <2>1. DOMAIN stack' = 1 .. Len(stack) + 1
    BY <1>3, LenProperties
  <2>2. 1 .. Len(stack) + 1 = (1 .. Len(stack)) \cup {Len(stack) + 1}
    BY <1>1
  <2>3. QED
    BY <1>1, <2>1, <2>2
<1>6. ASSUME NEW i \in 1 .. Len(stack) PROVE Saved(i)' = Saved(i)
  <2>1. /\ i + Len(ctx') - Len(stack') = i + Len(ctx) - Len(stack)
        /\ i + Len(ctx) - Len(stack) \in 1 .. Len(ctx)
    <3>1. i \in Nat /\ 1 <= i /\ i <= Len(stack) /\ Len(stack) \in Nat /\ Len(ctx) \in Nat
      BY <1>1
    <3>2. QED
      BY <1>1, <1>3, <1>4, <3>1
  <2>2. QED
    BY <1>4, <2>1 DEF Saved
<1>7. Saved(n + 1)' = box
  <2>1. ((n + 1) + Len(ctx')) - Len(stack') = Len(ctx) + 1
    BY <1>1, <1>3, <1>4
  <2>2. QED
    BY <1>3, <1>4, <2>1 DEF Saved
<1>8. LevelsMatch'
  <2> DEFINE base == IF SnC THEN 1 ELSE 0
  <2>1. base \in Nat /\ Len(ctx) = Len(stack) + base
    BY DEF Typed, LevelsMatch
  <2> HIDE DEF base
  <2>2. Len(ctx') = Len(ctx) + 1 /\ Len(stack') = Len(stack) + 1 /\ Len(stack) \in Nat
    BY <1>1, <1>3, <1>4
  <2>3. Len(ctx') = Len(stack') + base
    BY <2>1, <2>2
  <2>4. QED
    BY <2>3 DEF LevelsMatch, base
<1>9. QED
  BY <1>1, <1>3, <1>4, <1>5, <1>6, <1>7, <1>8

\* The target is retired, and its first case applied above the bounds stored
LEMMA PerformSplitStep ==
    ASSUME Inv, PerformSplit
    PROVE  Inv'
<1> USE DEF Inv
<1>0. PICK n : n = Len(stack)
  OBVIOUS
<1>1. /\ pc = "solve" /\ PendingValid = {} /\ target \in Active \cup {Interval}
      /\ active' = [c \in Constraints |-> active[c] /\ c # target]
      /\ ctx' = Append(ctx, box)
      /\ needToSplit' = FALSE /\ target' = None /\ rejected' = 0
      /\ UNCHANGED <<query, phase, rootImplied, violations, cost, pc, outcome>>
  BY DEF PerformSplit
<1>2. PICK splits \in CaseSplits :
        /\ box' = box \cap splits[1]
        /\ stack' = Append(stack, [current |-> splits[1], alts |-> Tail(splits),
                                   implied |-> {}, pl |-> [active |-> active', phase |-> phase]])
  BY DEF PerformSplit
<1> DEFINE entry == [current |-> splits[1], alts |-> Tail(splits),
                     implied |-> {}, pl |-> [active |-> active', phase |-> phase]]
<1>3. /\ problem' = problem /\ region' = region /\ Solutions' = Solutions
      /\ \A c \in Constraints : Holds(c)' = Holds(c)
  BY <1>1, QueryKept
<1>4. /\ splits[1] \in Regions /\ Tail(splits) \in Seq(Regions)
      /\ splits[1] \subseteq Whole
      /\ \A a \in DOMAIN Tail(splits) : Tail(splits)[a] \subseteq Whole
      /\ \A p \in Whole : p \in splits[1] \/ \E a \in DOMAIN Tail(splits) : p \in Tail(splits)[a]
  BY <1>1, <1>2, CaseFacts DEF Active
<1>5. /\ active' \in [Constraints -> BOOLEAN]
      /\ \A c \in Constraints : active'[c] <=> (active[c] /\ c # target)
      /\ box' \in Regions /\ box \in Regions
  BY <1>1, <1>2, <1>4 DEF Regions, Typed, TypeOK
<1>6. entry \in Entries
  BY <1>1, <1>4, <1>5, Control DEF Entries, PLStates, StateTyped
<1>7. /\ stack' \in Seq(Entries) /\ ctx' \in Seq(Regions)
      /\ Len(stack') = n + 1 /\ DOMAIN stack' = DOMAIN stack \cup {n + 1}
      /\ \A i \in DOMAIN stack : stack'[i] = stack[i] /\ Saved(i)' = Saved(i)
      /\ stack'[n + 1] = entry /\ Saved(n + 1)' = box
      /\ LevelsMatch'
  BY <1>0, <1>1, <1>2, <1>6, PushFacts
<1>8. n \in Nat /\ DOMAIN stack = 1 .. n
  BY <1>0, Types
<1>9. Typed'
  <2>1. StateTyped'
    BY <1>1, <1>5, <1>7, Control DEF StateTyped
  <2>2. ControlTyped'
    BY <1>1, Control, ResetTyped DEF ControlTyped
  <2>3. TypeOK'
    BY <2>1, <2>2, TypeParts, PTL
  <2>4. QED
    BY <1>3, <1>7, <2>3 DEF Typed, QueryTyped
<1>10. Within'
  <2>1. box' \subseteq region
    BY <1>2 DEF Within
  <2>2. \A i \in DOMAIN stack' : Saved(i)' \subseteq region
    BY <1>7 DEF Within
  <2>3. QED
    BY <1>3, <2>1, <2>2 DEF Within
<1> DEFINE Off(c) == c \in Constraints /\ ~active'[c]
<1>11. /\ \A c : Off(c) => box' \subseteq Holds(c)
       /\ \A c : Off(c) => \A a \in DOMAIN Tail(splits) : box \cap Tail(splits)[a] \subseteq Holds(c)
  <2>1. SUFFICES ASSUME NEW c, Off(c)
                 PROVE  /\ box' \subseteq Holds(c)
                        /\ \A a \in DOMAIN Tail(splits) : box \cap Tail(splits)[a] \subseteq Holds(c)
    OBVIOUS
  <2>2. CASE ~active[c]
    BY <1>2, <2>1, <2>2 DEF InactiveHold, Active
  <2>3. CASE c = target
    <3>1. Whole = Holds(c)
      BY <2>1, <2>3, NamesAreDistinct DEF Whole
    <3>2. QED
      BY <1>2, <1>4, <3>1
  <2>4. QED
    BY <1>5, <2>1, <2>2, <2>3
<1>12. InactiveHold'
  BY <1>3, <1>11 DEF InactiveHold, Active
<1>13. InactiveHoldLater'
  <2>1. SUFFICES ASSUME NEW i \in DOMAIN stack', NEW c \in Constraints, ~stack'[i].pl.active[c],
                        NEW a \in DOMAIN stack'[i].alts
                 PROVE  Saved(i)' \cap stack'[i].alts[a] \subseteq Holds(c)
    BY <1>3 DEF InactiveHoldLater
  <2>2. CASE i \in DOMAIN stack
    <3>1. stack'[i] = stack[i] /\ Saved(i)' = Saved(i)
      BY <1>7, <2>2
    <3>2. QED
      BY <2>1, <2>2, <3>1 DEF InactiveHoldLater
  <2>3. CASE i = n + 1
    <3>1. stack'[i].pl.active = active' /\ stack'[i].alts = Tail(splits) /\ Saved(i)' = box
      BY <1>7, <2>3
    <3>2. QED
      BY <1>11, <2>1, <3>1
  <2>4. QED
    BY <1>7, <2>1, <2>2, <2>3
<1>14. NoneKnownLater'
  <2>1. SUFFICES ASSUME NEW i \in DOMAIN stack', NEW c \in Constraints, stack'[i].pl.active[c]
                 PROVE  stack'[i].pl.phase[c] = NotFixed
    BY DEF NoneKnownLater
  <2>2. CASE i \in DOMAIN stack
    <3>1. stack'[i] = stack[i]
      BY <1>7, <2>2
    <3>2. QED
      BY <2>1, <2>2, <3>1 DEF NoneKnownLater
  <2>3. CASE i = n + 1
    <3>1. stack'[i].pl.active = active' /\ stack'[i].pl.phase = phase
      BY <1>7, <2>3
    <3>2. QED
      BY <1>1, <1>5, <2>1, <3>1 DEF PendingValid, Active, Candidates
  <2>4. QED
    BY <1>7, <2>1, <2>2, <2>3
<1>15. PhaseRight'
  <2>1. \A c \in PendingValid' : c \in PendingValid
    BY <1>1, <1>5 DEF PendingValid, Active, Candidates
  <2>2. QED
    BY <1>1, <2>1 DEF PhaseRight
<1>16. Answered'
  BY <1>1, AnswerKept
<1>17. Kept'
  <2>1. SUFFICES ASSUME NEW p \in Solutions
                 PROVE  \/ \E i \in DOMAIN stack' : HeldBy(p, i)'
                        \/ Compliant(p)' /\ p \in box' /\ pc' # "backtrack"
    BY <1>3 DEF Kept
  <2>2. CASE \E i \in DOMAIN stack : HeldBy(p, i)
    <3>1. PICK i \in DOMAIN stack : HeldBy(p, i)
      BY <2>2
    <3>2. i \in 1 .. n /\ \A j \in 1 .. i - 1 : j \in 1 .. n
      BY <1>8
    <3>3. stack'[i] = stack[i] /\ \A j \in 1 .. i - 1 : stack'[j] = stack[j]
      BY <1>7, <1>8, <3>2
    <3>4. Skewed(p, i)'
      BY <1>1, <3>1, <3>3 DEF HeldBy, Skewed, ImpliedAllow, Allows
    <3>5. HeldBy(p, i)'
      BY <1>7, <3>1, <3>3, <3>4 DEF HeldBy
    <3>6. QED
      BY <1>7, <3>5
  <2>3. CASE Compliant(p) /\ p \in box
    <3>1. p \in Whole
      BY <1>5, <1>1, <2>3, SolutionFacts DEF Whole, Active, Regions
    <3>2. \A j \in 1 .. n : stack'[j] = stack[j]
      BY <1>7, <1>8
    <3>3. (n + 1) - 1 = n /\ n + 1 \in DOMAIN stack'
      BY <1>7, <1>8
    <3>4. CASE p \in splits[1]
      <4>1. \A r \in stack'[n + 1].implied : p \in r
        BY <1>7
      <4>2. Compliant(p)'
        <5>1. \A j \in 1 .. n + 1 : j \in 1 .. n \/ j = n + 1
          BY <1>8
        <5>2. \A j \in 1 .. n + 1 : /\ \A r \in stack'[j].implied : p \in r
                                    /\ p \in stack'[j].current
          BY <1>0, <1>7, <1>8, <2>3, <3>2, <3>4, <4>1, <5>1 DEF Compliant, ImpliedAllow, Allows
        <5>3. DOMAIN stack' = 1 .. n + 1
          BY <1>7, LenProperties
        <5>4. QED
          BY <1>0, <1>1, <1>7, <2>3, <5>2, <5>3 DEF Compliant, ImpliedAllow, Allows
      <4>3. QED
        BY <1>1, <1>2, <2>3, <3>4, <4>2
    <3>5. CASE p \notin splits[1]
      <4>1. PICK a \in DOMAIN Tail(splits) : p \in Tail(splits)[a]
        BY <1>4, <3>1, <3>5
      <4>2. Tail(splits) # <<>>
        BY <4>1
      <4>3. /\ stack'[n + 1].current = splits[1] /\ stack'[n + 1].alts = Tail(splits)
            /\ Saved(n + 1)' = box
        BY <1>7
      <4>4. Skewed(p, n + 1)'
        BY <1>0, <1>1, <1>8, <2>3, <3>2, <3>3, <3>5, <4>2, <4>3 DEF Compliant, Skewed, ImpliedAllow, Allows
      <4>5. HeldBy(p, n + 1)'
        BY <2>3, <4>1, <4>3, <4>4 DEF HeldBy
      <4>6. QED
        BY <3>3, <4>5
    <3>6. QED
      BY <3>4, <3>5
  <2>4. QED
    BY <2>2, <2>3 DEF Kept
<1>18. QED
  BY <1>9, <1>10, <1>12, <1>13, <1>14, <1>15, <1>16, <1>17

\* There is only one entry that is the first to exclude a solution
LEMMA SkewedOnce ==
    ASSUME Typed, NEW p, NEW i \in DOMAIN stack, Skewed(p, i), NEW j \in DOMAIN stack, Skewed(p, j)
    PROVE  i = j
<1>1. i \in Nat /\ j \in Nat /\ 1 <= i /\ 1 <= j
  BY Types
<1>2. ~(i < j)
  BY <1>1 DEF Skewed
<1>3. ~(j < i)
  BY <1>1 DEF Skewed
<1>4. QED
  BY <1>1, <1>2, <1>3

\* The exhausted entry is popped, with its level
LEMMA PopExhaustedStep ==
    ASSUME Inv, PopExhausted
    PROVE  Inv'
<1> USE DEF Inv
<1>1. /\ pc = "backtrack" /\ stack # <<>> /\ stack[Len(stack)].alts = <<>>
      /\ ctx' = SubSeq(ctx, 1, Len(ctx) - 1) /\ stack' = SubSeq(stack, 1, Len(stack) - 1)
      /\ UNCHANGED <<query, box, plState, rootImplied, splitState, cost, pc, outcome>>
  BY DEF PopExhausted, Last, Front
<1>2. /\ problem' = problem /\ region' = region /\ Solutions' = Solutions
      /\ \A c \in Constraints : Holds(c)' = Holds(c)
  BY <1>1, QueryKept
<1>3. /\ stack \in Seq(Entries) /\ Len(stack) \in Nat /\ DOMAIN stack = 1 .. Len(stack)
      /\ ctx \in Seq(Regions) /\ Len(ctx) \in Nat
      /\ Len(ctx) = Len(stack) \/ Len(ctx) = Len(stack) + 1
  BY Types
<1>4. Len(stack) >= 1 /\ Len(ctx) >= 1
  <2>1. Len(stack) \in Nat \ {0}
    BY <1>1, <1>3, EmptySeq
  <2>2. QED
    BY <1>3, <2>1
<1>5. PICK n \in Nat : n = Len(stack) - 1
  <2>1. Len(stack) \in Nat /\ Len(stack) >= 1
    BY <1>3, <1>4
  <2>2. Len(stack) - 1 \in Nat
    BY <2>1
  <2>3. QED
    BY <2>2
<1>6. /\ stack' \in Seq(Entries) /\ Len(stack') = n
      /\ \A i \in 1 .. n : stack'[i] = stack[i]
  <2>1. \A i \in 1 .. n : stack[i] \in Entries
    BY <1>3, <1>5
  <2>2. stack' = SubSeq(stack, 1, n) /\ n \in Int /\ 1 \in Int
    BY <1>1, <1>5
  <2>3. /\ SubSeq(stack, 1, n) \in Seq(Entries)
        /\ Len(SubSeq(stack, 1, n)) = IF 1 <= n THEN n - 1 + 1 ELSE 0
        /\ \A i \in 1 .. n - 1 + 1 : SubSeq(stack, 1, n)[i] = stack[1 + i - 1]
    BY <2>1, <2>2, SubSeqProperties
  <2>4. QED
    BY <1>5, <2>2, <2>3
<1>7. /\ ctx' \in Seq(Regions) /\ Len(ctx') = Len(ctx) - 1
      /\ \A i \in 1 .. Len(ctx) - 1 : ctx'[i] = ctx[i]
  <2>1. PICK m \in Nat : m = Len(ctx) - 1
    <3>1. Len(ctx) \in Nat /\ Len(ctx) >= 1
      BY <1>3, <1>4
    <3>2. Len(ctx) - 1 \in Nat
      BY <3>1
    <3>3. QED
      BY <3>2
  <2>2. \A i \in 1 .. m : ctx[i] \in Regions
    <3>1. \A i \in 1 .. m : i \in 1 .. Len(ctx)
      BY <2>1
    <3>2. QED
      BY <1>3, <3>1, ElementOfSeq
  <2>3. ctx' = SubSeq(ctx, 1, m) /\ m \in Int /\ 1 \in Int
    BY <1>1, <2>1
  <2>4. /\ SubSeq(ctx, 1, m) \in Seq(Regions)
        /\ Len(SubSeq(ctx, 1, m)) = IF 1 <= m THEN m - 1 + 1 ELSE 0
        /\ \A i \in 1 .. m - 1 + 1 : SubSeq(ctx, 1, m)[i] = ctx[1 + i - 1]
    BY <2>2, <2>3, SubSeqProperties, SMTT(30)
  <2>5. QED
    BY <2>1, <2>3, <2>4
<1>8. /\ DOMAIN stack' = 1 .. n
      /\ \A i \in 1 .. n : i \in DOMAIN stack /\ i # Len(stack)
      /\ \A i \in DOMAIN stack : i = Len(stack) \/ i \in 1 .. n
  <2>1. DOMAIN stack' = 1 .. n
    BY <1>6, LenProperties
  <2>2. Len(stack) \in Nat
    BY <1>3
  <2>3. \A i \in 1 .. n : i \in 1 .. Len(stack) /\ i # Len(stack)
    BY <1>5, <2>2
  <2>4. \A i \in 1 .. Len(stack) : i = Len(stack) \/ i \in 1 .. n
    BY <1>5, <2>2
  <2>5. QED
    BY <1>3, <2>1, <2>3, <2>4
<1>9. ASSUME NEW i \in 1 .. n PROVE Saved(i)' = Saved(i)
  <2>1. /\ i + Len(ctx') - Len(stack') = i + Len(ctx) - Len(stack)
        /\ i + Len(ctx) - Len(stack) \in 1 .. Len(ctx) - 1
    <3>1. /\ Len(stack) \in Nat /\ Len(ctx) \in Nat
          /\ Len(ctx) = Len(stack) \/ Len(ctx) = Len(stack) + 1
          /\ Len(stack') = n /\ Len(ctx') = Len(ctx) - 1 /\ n = Len(stack) - 1
      BY <1>3, <1>5, <1>6, <1>7
    <3>2. QED
      BY <1>9, <3>1
  <2>2. QED
    BY <1>7, <2>1, SMTT(30) DEF Saved
<1>10. Typed'
  <2>1. LevelsMatch'
    <3> DEFINE base == IF SnC THEN 1 ELSE 0
    <3>1. base \in Nat /\ Len(ctx) = Len(stack) + base
      BY SMTT(30) DEF Typed, LevelsMatch
    <3> HIDE DEF base
    <3>2. /\ Len(stack) \in Nat /\ Len(ctx) \in Nat
          /\ Len(stack') = Len(stack) - 1 /\ Len(ctx') = Len(ctx) - 1
      BY <1>3, <1>5, <1>6, <1>7
    <3>3. Len(ctx') = Len(stack') + base
      BY <3>1, <3>2
    <3>4. QED
      BY <3>3 DEF LevelsMatch, base
  <2>2. StateTyped'
    BY <1>1, <1>6, <1>7, Control DEF StateTyped, plState
  <2>3. ControlTyped'
    BY <1>1, Control DEF ControlTyped, splitState
  <2>4. TypeOK'
    BY <2>2, <2>3, TypeParts, PTL
  <2>5. QED
    BY <1>2, <2>1, <2>4 DEF Typed, QueryTyped
<1>11. Within'
  BY <1>1, <1>2, <1>8, <1>9 DEF Within
<1>12. InactiveHold'
  BY <1>1, <1>2 DEF InactiveHold, Active, plState
<1>13. InactiveHoldLater'
  <2>1. SUFFICES ASSUME NEW i \in 1 .. n, NEW c \in Constraints, ~stack'[i].pl.active[c],
                        NEW a \in DOMAIN stack'[i].alts
                 PROVE  Saved(i)' \cap stack'[i].alts[a] \subseteq Holds(c)
    BY <1>2, <1>8 DEF InactiveHoldLater
  <2>2. stack'[i] = stack[i] /\ Saved(i)' = Saved(i) /\ i \in DOMAIN stack
    BY <1>6, <1>8, <1>9
  <2>3. QED
    BY <2>1, <2>2 DEF InactiveHoldLater
<1>14. NoneKnownLater'
  BY <1>6, <1>8 DEF NoneKnownLater
<1>15. PhaseRight'
  BY <1>1, PhaseRightKept
<1>16. Answered'
  BY <1>1, AnswerKept
<1>17. Kept'
  <2>1. SUFFICES ASSUME NEW p \in Solutions PROVE \E i \in DOMAIN stack' : HeldBy(p, i)'
    BY <1>2 DEF Kept
  <2>2. PICK i \in DOMAIN stack : HeldBy(p, i)
    BY <1>1 DEF Kept
  <2>3. i \in 1 .. n
    BY <1>1, <1>8, <2>2 DEF HeldBy, Skewed
  <2>4. \A j \in 1 .. i - 1 : j \in 1 .. n
    BY <1>5, <2>3
  <2>5. stack'[i] = stack[i] /\ (\A j \in 1 .. i - 1 : stack'[j] = stack[j]) /\ Saved(i)' = Saved(i)
    BY <1>6, <1>9, <2>3, <2>4
  <2>6. Skewed(p, i)'
    BY <1>1, <2>2, <2>5 DEF HeldBy, Skewed, ImpliedAllow, Allows
  <2>7. HeldBy(p, i)'
    BY <2>2, <2>5, <2>6 DEF HeldBy
  <2>8. QED
    BY <1>8, <2>3, <2>7
<1>18. QED
  BY <1>10, <1>11, <1>12, <1>13, <1>14, <1>15, <1>16, <1>17

\* With nothing on the stack there is nothing that could hold a solution
LEMMA PopNothingStep ==
    ASSUME Inv, PopNothing
    PROVE  Inv'
<1> USE DEF Inv
<1>1. /\ pc = "backtrack" /\ stack = <<>> /\ pc' = "done" /\ exitCode' = "UNSAT"
      /\ UNCHANGED <<query, box, ctx, plState, stack, rootImplied, splitState, cost>>
  BY DEF PopNothing, Finish
<1>2. Solutions = {}
  BY <1>1 DEF Kept
<1>3. Solutions' = {}
  BY <1>1, <1>2, QueryKept
<1>4. Answered'
  BY <1>1, <1>3 DEF Answered, AnswerRight, SatIsSolution, UnsatMeansNone
<1>5. Kept'
  BY <1>3 DEF Kept
<1>6. problem' = problem /\ region' = region /\ \A c \in Constraints : Holds(c)' = Holds(c)
  BY <1>1, QueryKept
<1>7. Typed'
  <2>1. StateTyped' /\ ControlTyped'
    BY <1>1, Control DEF StateTyped, ControlTyped, plState, splitState
  <2>2. TypeOK'
    BY <2>1, TypeParts, PTL
  <2>3. QED
    BY <1>1, <1>6, <2>2 DEF Typed, QueryTyped, LevelsMatch
<1>8. PhaseRight'
  BY <1>1, PhaseRightKept
<1>9. Within' /\ InactiveHold' /\ InactiveHoldLater' /\ NoneKnownLater'
  <2>1. Within' /\ NoneKnownLater'
    BY <1>1, <1>6 DEF Within, NoneKnownLater, Saved
  <2>2. InactiveHold'
    BY <1>1, <1>6 DEF InactiveHold, Active, plState
  <2>3. InactiveHoldLater'
    BY <1>1, <1>6 DEF InactiveHoldLater
  <2>4. QED
    BY <2>1, <2>2, <2>3
<1>10. QED
  BY <1>4, <1>5, <1>7, <1>8, <1>9

\* The search is interrupted
LEMMA InterruptedStep ==
    ASSUME Inv, Interrupted
    PROVE  Inv'
<1>1. PICK code \in {"TIMEOUT", "QUIT_REQUESTED", "ERROR"} : Finish(code, None)
  BY DEF Interrupted
<1>2. QED
  BY <1>1, FinishStep DEF Interrupted

\* An entry that goes on to its next alternative
LEMMA EntryNext ==
    ASSUME NEW entry \in Entries, NEW V, NEW W
    PROVE  [entry EXCEPT !.current = V, !.alts = W, !.implied = {}] =
                [current |-> V, alts |-> W, implied |-> {}, pl |-> entry.pl]
<1> DEFINE R == Regions
           A == Seq(Regions)
           I == SUBSET Regions
           P == PLStates
<1>1. entry \in [current : R, alts : A, implied : I, pl : P]
  BY DEF Entries
<1> HIDE DEF R, A, I, P
<1>2. entry = [current |-> entry.current, alts |-> entry.alts,
               implied |-> entry.implied, pl |-> entry.pl]
  BY <1>1, SMT
<1> DEFINE one == [entry EXCEPT !.current = V]
           two == [one EXCEPT !.alts = W]
           three == [two EXCEPT !.implied = {}]
<1>3. one = [current |-> V, alts |-> entry.alts, implied |-> entry.implied, pl |-> entry.pl]
  BY <1>1, SMT
<1>4. two = [current |-> V, alts |-> W, implied |-> entry.implied, pl |-> entry.pl]
  <2> HIDE DEF one
  <2>1. QED
    BY <1>3, SMT
<1>5. three = [current |-> V, alts |-> W, implied |-> {}, pl |-> entry.pl]
  <2> HIDE DEF two
  <2>1. QED
    BY <1>4, SMT
<1>6. QED
  BY <1>5

\* The next alternative is applied to the bounds, with the flags, of the entry
LEMMA TryAlternativeStep ==
    ASSUME Inv, TryAlternative
    PROVE  Inv'
<1> USE DEF Inv
<1>1. /\ pc = "backtrack" /\ stack # <<>>
      /\ needToSplit' = FALSE /\ rejected' = 0 /\ violations' = [c \in Constraints |-> 0]
      /\ pc' \in {"solve", "backtrack"} /\ (pc' = "backtrack" => box' = {})
      /\ UNCHANGED <<query, ctx, rootImplied, target, cost, outcome>>
  BY DEF TryAlternative
<1>2. /\ problem' = problem /\ region' = region /\ Solutions' = Solutions
      /\ \A c \in Constraints : Holds(c)' = Holds(c)
  BY <1>1, QueryKept
<1>3. /\ stack \in Seq(Entries) /\ Len(stack) \in Nat /\ DOMAIN stack = 1 .. Len(stack)
      /\ ctx \in Seq(Regions) /\ Len(ctx) \in Nat
      /\ \A i \in DOMAIN stack : Saved(i) \in Regions
  BY Types
<1>4. PICK n : n = Len(stack)
  OBVIOUS
<1>5. n \in Nat /\ n \in DOMAIN stack
  BY <1>1, <1>3, <1>4, EmptySeq
<1>6. PICK old : old = stack[n]
  OBVIOUS
<1>7. /\ old \in Entries /\ old.alts \in Seq(Regions) /\ old.pl \in PLStates
  <2>1. n \in 1 .. Len(stack)
    BY <1>3, <1>5
  <2>2. old \in Entries
    BY <1>3, <1>6, <2>1, ElementOfSeq
  <2>3. QED
    BY <2>2 DEF Entries
<1>8. Saved(n) = ctx[Len(ctx)] /\ Saved(n)' = Saved(n)
  <2>1. /\ stack' = [stack EXCEPT ![Len(stack)] =
                        [@ EXCEPT !.current = Head(old.alts), !.alts = Tail(old.alts),
                                  !.implied = {}]]
    BY <1>4, <1>6 DEF TryAlternative, Last
  <2>2. n + Len(ctx) - Len(stack) = Len(ctx)
    BY <1>3, <1>4
  <2>3. Len(stack') = Len(stack)
    BY <1>3, <2>1
  <2>4. QED
    BY <1>1, <2>2, <2>3 DEF Saved
<1>9. /\ old.alts # <<>>
      /\ active' = old.pl.active /\ phase' = old.pl.phase
      /\ box' = Saved(n) \cap Head(old.alts)
      /\ stack' = [stack EXCEPT ![n] = [current |-> Head(old.alts), alts |-> Tail(old.alts),
                                        implied |-> {}, pl |-> old.pl]]
  <2>1. /\ old.alts # <<>>
        /\ active' = old.pl.active /\ phase' = old.pl.phase
        /\ box' = Saved(n) \cap Head(old.alts)
        /\ stack' = [stack EXCEPT ![n] =
                        [old EXCEPT !.current = Head(old.alts), !.alts = Tail(old.alts),
                                    !.implied = {}]]
    BY <1>4, <1>6, <1>8 DEF TryAlternative, Last
  <2>2. QED
    BY <1>7, <2>1, EntryNext
<1>10. /\ Head(old.alts) \in Regions /\ Tail(old.alts) \in Seq(Regions)
       /\ 1 \in DOMAIN old.alts /\ Head(old.alts) = old.alts[1]
       /\ \A a \in DOMAIN Tail(old.alts) : a + 1 \in DOMAIN old.alts
                                            /\ Tail(old.alts)[a] = old.alts[a + 1]
       /\ \A a \in DOMAIN old.alts : a = 1 \/ (\E b \in DOMAIN Tail(old.alts) : Tail(old.alts)[b] = old.alts[a])
  <2>1. PICK m \in Nat : m = Len(old.alts) - 1
    <3>1. Len(old.alts) \in Nat \ {0}
      BY <1>7, <1>9, EmptySeq
    <3>2. Len(old.alts) - 1 \in Nat
      BY <3>1
    <3>3. QED
      BY <3>2
  <2>2. /\ Head(old.alts) \in Regions /\ Tail(old.alts) \in Seq(Regions)
        /\ DOMAIN Tail(old.alts) = 1 .. m
        /\ \A a \in 1 .. m : Tail(old.alts)[a] = old.alts[a + 1]
    BY <1>7, <1>9, <2>1, HeadTailProperties, LenProperties
  <2>3. DOMAIN old.alts = 1 .. m + 1
    <3>1. DOMAIN old.alts = 1 .. Len(old.alts) /\ Len(old.alts) \in Nat
      BY <1>7, LenProperties
    <3>2. Len(old.alts) = m + 1
      BY <2>1, <3>1
    <3>3. QED
      BY <3>1, <3>2
  <2>4. Head(old.alts) = old.alts[1]
    BY <1>7, <1>9
  <2>5. /\ 1 \in 1 .. m + 1 /\ \A a \in 1 .. m : a + 1 \in 1 .. m + 1
        /\ \A a \in 1 .. m + 1 : a = 1 \/ (a - 1 \in 1 .. m /\ (a - 1) + 1 = a)
    OBVIOUS
  <2>6. ASSUME NEW a \in DOMAIN old.alts, a # 1
        PROVE  \E b \in DOMAIN Tail(old.alts) : Tail(old.alts)[b] = old.alts[a]
    <3>1. a - 1 \in DOMAIN Tail(old.alts) /\ Tail(old.alts)[a - 1] = old.alts[(a - 1) + 1]
      BY <2>2, <2>3, <2>5, <2>6
    <3>2. QED
      BY <2>3, <2>5, <2>6, <3>1
  <2>7. QED
    BY <2>2, <2>3, <2>4, <2>5, <2>6
<1> DEFINE new == [current |-> Head(old.alts), alts |-> Tail(old.alts), implied |-> {}, pl |-> old.pl]
<1>11. new \in Entries
  BY <1>7, <1>10 DEF Entries
<1>12. /\ stack' \in Seq(Entries) /\ Len(stack') = Len(stack) /\ DOMAIN stack' = DOMAIN stack
       /\ stack'[n] = new
       /\ \A i \in DOMAIN stack : i # n => stack'[i] = stack[i]
  <2>1. n \in 1 .. Len(stack)
    BY <1>3, <1>5
  <2>2. /\ stack' \in Seq(Entries) /\ Len(stack') = Len(stack)
        /\ \A i \in 1 .. Len(stack) : stack'[i] = IF i = n THEN new ELSE stack[i]
    BY <1>3, <1>9, <1>11, <2>1, ExceptSeq
  <2>3. QED
    BY <1>3, <2>1, <2>2, LenProperties
<1>13. \A i \in DOMAIN stack : Saved(i)' = Saved(i)
  BY <1>1, <1>12 DEF Saved
<1>14. /\ active' \in [Constraints -> BOOLEAN]
       /\ phase' \in [Constraints -> Phases \cup {NotFixed}]
       /\ box' \in Regions
  BY <1>3, <1>5, <1>7, <1>9, <1>10 DEF PLStates, Regions
<1>15. Typed'
  <2>1. StateTyped'
    BY <1>1, <1>12, <1>14, Control DEF StateTyped
  <2>2. ControlTyped'
    BY <1>1, Control, ResetTyped DEF ControlTyped
  <2>3. TypeOK'
    BY <2>1, <2>2, TypeParts, PTL
  <2>4. QED
    BY <1>1, <1>2, <1>12, <2>3 DEF Typed, QueryTyped, LevelsMatch
<1>16. Within'
  <2>1. box' \subseteq region
    BY <1>5, <1>9 DEF Within
  <2>2. QED
    BY <1>2, <1>12, <1>13, <2>1 DEF Within
<1>17. InactiveHold'
  <2>1. SUFFICES ASSUME NEW c \in Constraints, ~active'[c] PROVE box' \subseteq Holds(c)
    BY <1>2 DEF InactiveHold, Active
  <2>2. ~stack[n].pl.active[c] /\ 1 \in DOMAIN stack[n].alts /\ box' = Saved(n) \cap stack[n].alts[1]
    BY <1>6, <1>9, <1>10, <2>1
  <2>3. QED
    BY <1>5, <2>2 DEF InactiveHoldLater
<1>18. InactiveHoldLater'
  <2>1. SUFFICES ASSUME NEW i \in DOMAIN stack, NEW c \in Constraints, ~stack'[i].pl.active[c],
                        NEW a \in DOMAIN stack'[i].alts
                 PROVE  Saved(i) \cap stack'[i].alts[a] \subseteq Holds(c)
    BY <1>2, <1>12, <1>13 DEF InactiveHoldLater
  <2>2. CASE i = n
    <3>1. stack'[i].pl = old.pl /\ stack'[i].alts = Tail(old.alts)
      BY <1>12, <2>2
    <3>2. a + 1 \in DOMAIN old.alts /\ stack'[i].alts[a] = old.alts[a + 1]
      BY <1>10, <2>1, <3>1
    <3>3. QED
      BY <1>6, <2>1, <2>2, <3>1, <3>2 DEF InactiveHoldLater
  <2>3. CASE i # n
    <3>1. stack'[i] = stack[i]
      BY <1>12, <2>1, <2>3
    <3>2. QED
      BY <2>1, <3>1 DEF InactiveHoldLater
  <2>4. QED
    BY <2>2, <2>3
<1>19. NoneKnownLater'
  <2>1. \A i \in DOMAIN stack : stack'[i].pl = stack[i].pl
    BY <1>6, <1>12
  <2>2. QED
    BY <1>12, <2>1 DEF NoneKnownLater
<1>20. PhaseRight'
  <2>1. PendingValid' = {}
    BY <1>5, <1>6, <1>9 DEF NoneKnownLater, PendingValid, Active, Candidates
  <2>2. QED
    BY <2>1 DEF PhaseRight
<1>21. Answered'
  BY <1>1, AnswerKept
<1>22. Kept'
  <2>1. SUFFICES ASSUME NEW p \in Solutions
                 PROVE  \/ \E i \in DOMAIN stack' : HeldBy(p, i)'
                        \/ Compliant(p)' /\ p \in box' /\ pc' # "backtrack"
    BY <1>2 DEF Kept
  <2>2. PICK i \in DOMAIN stack : HeldBy(p, i)
    BY <1>1, SMTT(30) DEF Kept
  <2>3. \A j \in 1 .. i - 1 : j \in DOMAIN stack /\ j # n
    <3>1. i \in 1 .. n /\ n \in Nat
      BY <1>3, <1>4, <1>5
    <3>2. \A j \in 1 .. i - 1 : j \in 1 .. n /\ j # n
      BY <3>1
    <3>3. QED
      BY <1>3, <1>4, <3>2
  <2>4. \A j \in 1 .. i - 1 : stack'[j] = stack[j]
    BY <1>12, <2>3
  <2>5. CASE i # n
    <3>1. stack'[i] = stack[i] /\ Saved(i)' = Saved(i)
      BY <1>12, <1>13, <2>5
    <3>2. Skewed(p, i)'
      BY <1>1, <2>2, <2>4, <3>1 DEF HeldBy, Skewed, ImpliedAllow, Allows
    <3>3. HeldBy(p, i)'
      BY <2>2, <3>1, <3>2 DEF HeldBy
    <3>4. QED
      BY <1>12, <3>3
  <2>6. CASE i = n /\ p \in Head(old.alts)
    <3>1. p \in box'
      BY <1>9, <2>2, <2>6 DEF HeldBy
    <3>2. \A j \in DOMAIN stack : j = n \/ j \in 1 .. n - 1
      BY <1>3, <1>4, <1>5
    <3>3. \A j \in DOMAIN stack : /\ \A r \in stack'[j].implied : p \in r
                                  /\ p \in stack'[j].current
      <4>1. \A j \in 1 .. n - 1 : /\ \A r \in stack'[j].implied : p \in r
                                  /\ p \in stack'[j].current
        BY <2>2, <2>4, <2>6 DEF HeldBy, Skewed, ImpliedAllow, Allows
      <4>2. /\ \A r \in stack'[n].implied : p \in r
            /\ p \in stack'[n].current
        BY <1>12, <2>6
      <4>3. QED
        BY <3>2, <4>1, <4>2
    <3>4. \A r \in rootImplied : p \in r
      BY <2>2 DEF HeldBy, Skewed, ImpliedAllow, Allows
    <3>5. Compliant(p)'
      BY <1>1, <1>3, <1>12, <3>3, <3>4 DEF Compliant, ImpliedAllow, Allows
    <3>6. QED
      BY <1>1, <3>1, <3>5
  <2>7. CASE i = n /\ p \notin Head(old.alts)
    <3>1. PICK a \in DOMAIN old.alts : p \in old.alts[a]
      BY <1>6, <2>2, <2>7 DEF HeldBy
    <3>2. PICK b \in DOMAIN Tail(old.alts) : p \in Tail(old.alts)[b]
      BY <1>10, <2>7, <3>1
    <3>3. /\ stack'[n].current = Head(old.alts) /\ stack'[n].alts = Tail(old.alts)
          /\ Saved(n)' = Saved(n) /\ Tail(old.alts) # <<>>
      BY <1>8, <1>12, <3>2
    <3>4. Skewed(p, n)'
      BY <1>1, <2>2, <2>4, <2>7, <3>3 DEF HeldBy, Skewed, ImpliedAllow, Allows
    <3>5. HeldBy(p, n)'
      BY <2>2, <2>7, <3>2, <3>3, <3>4 DEF HeldBy
    <3>6. QED
      BY <1>5, <1>12, <3>5
  <2>8. QED
    BY <2>5, <2>6, <2>7
<1>23. QED
  BY <1>15, <1>16, <1>17, <1>18, <1>19, <1>20, <1>21, <1>22
-----------------------------------------------------------------------------
(***************************************************************************)
(* The theorems.                                                           *)
(***************************************************************************)
LEMMA Initially == Init => Inv
<1> SUFFICES ASSUME Init PROVE Inv
  OBVIOUS
<1> USE DEF Init
<1>1. /\ problem \in [piece : [Constraints -> [Phases -> Regions]], smooth : Regions]
      /\ region \in Regions /\ box = region
      /\ active = [c \in Constraints |-> TRUE] /\ phase = [c \in Constraints |-> NotFixed]
      /\ stack = <<>> /\ rootImplied = {} /\ pc = "solve" /\ exitCode = "NOT_DONE"
  BY DEF Regions
<1>2. ctx \in Seq(Regions) /\ LevelsMatch
  <2>1. CASE SnC
    BY <2>1 DEF Regions, LevelsMatch
  <2>2. CASE ~SnC
    BY <2>2 DEF LevelsMatch
  <2>3. QED
    BY <2>1, <2>2
<1>3. StateTyped
  BY <1>1, <1>2 DEF StateTyped
<1>4. ControlTyped
  BY ResetTyped DEF ControlTyped
<1>5. Typed
  BY <1>1, <1>2, <1>3, <1>4, TypeParts DEF Typed, QueryTyped
<1>6. PendingValid = {} /\ Active = Constraints
  BY <1>1 DEF PendingValid, Active, Candidates
<1>7. Within /\ InactiveHold /\ InactiveHoldLater /\ PhaseRight /\ NoneKnownLater
  BY <1>1, <1>6 DEF Within, InactiveHold, InactiveHoldLater, PhaseRight, NoneKnownLater
<1>8. Kept
  BY <1>1, SolutionFacts DEF Kept, Compliant, ImpliedAllow
<1>9. Answered
  BY <1>1 DEF Answered, AnswerRight, SatIsSolution, UnsatMeansNone
<1>10. QED
  BY <1>5, <1>7, <1>8, <1>9 DEF Inv

\* Steps that change nothing of the search
LEMMA Stuttering ==
    ASSUME Inv, UNCHANGED vars
    PROVE  Inv'
<1> USE DEF Inv
<1>1. UNCHANGED <<query, box, ctx, plState, stack, rootImplied, splitState, cost, pc, outcome>>
  BY DEF vars
<1>2. /\ problem' = problem /\ region' = region /\ Solutions' = Solutions
      /\ \A c \in Constraints : Holds(c)' = Holds(c)
  BY <1>1, QueryKept
<1>3. Typed'
  <2>1. StateTyped' /\ ControlTyped'
    BY <1>1, Control DEF StateTyped, ControlTyped, plState, splitState
  <2>2. TypeOK'
    BY <2>1, TypeParts, PTL
  <2>3. QED
    BY <1>1, <1>2, <2>2 DEF Typed, QueryTyped, LevelsMatch
<1>4. Within' /\ NoneKnownLater'
  BY <1>1, <1>2 DEF Within, NoneKnownLater, Saved
<1>5. InactiveHold'
  BY <1>1, <1>2 DEF InactiveHold, Active, plState
<1>6. InactiveHoldLater'
  BY <1>1, <1>2 DEF InactiveHoldLater, Saved
<1>7. PhaseRight'
  BY <1>1, PhaseRightKept
<1>8. Answered'
  BY <1>1, <1>2 DEF Answered, AnswerRight, SatIsSolution, UnsatMeansNone, outcome
<1>9. Kept'
  BY <1>1, <1>2 DEF Kept, HeldBy, Skewed, Compliant, ImpliedAllow, Allows, Saved
<1>10. QED
  BY <1>3, <1>4, <1>5, <1>6, <1>7, <1>8, <1>9

\* Every step of the search keeps the invariant (Engine.cpp:231-420, SmtCore.cpp).
THEOREM Invariance == Spec => []Inv
<1>1. Init => Inv
  BY Initially
<1>2. Inv /\ [Next]_vars => Inv'
  <2> SUFFICES ASSUME Inv, [Next]_vars PROVE Inv'
    OBVIOUS
  <2>1. CASE ApplyValidSplits \/ Tighten \/ FixPhase
    BY <2>1, ApplyValidSplitsStep, TightenStep, FixPhaseStep
  <2>2. CASE CheckAssignment
    BY <2>2, CheckAssignmentStep
  <2>3. CASE JudgeOptimum \/ LeaveSearch \/ RejectProposal \/ AcceptProposal \/ AbandonSearch
    BY <2>3, LocalSearchStep
  <2>4. CASE ForgetTarget \/ SplitOnNull \/ Infeasible
    BY <2>4, ForgetStep
  <2>5. CASE PerformSplit
    BY <2>5, PerformSplitStep
  <2>6. CASE PopExhausted \/ PopNothing
    BY <2>6, PopExhaustedStep, PopNothingStep
  <2>7. CASE TryAlternative
    BY <2>7, TryAlternativeStep
  <2>8. CASE RestorePrecision \/ Interrupted
    BY <2>8, RestorePrecisionStep, InterruptedStep
  <2>9. CASE UNCHANGED vars
    BY <2>9, Stuttering
  <2>10. QED
    BY <2>1, <2>2, <2>3, <2>4, <2>5, <2>6, <2>7, <2>8, <2>9 DEF Next
<1>3. QED
  BY <1>1, <1>2, PTL DEF Spec

\* The search never leaves its types: no counter passes its threshold, and what is
\* split is a constraint, an input, or a null pointer (SmtCore.cpp:40-330).
THEOREM TypeCorrect == Spec => []TypeOK
<1>1. Inv => TypeOK
  BY DEF Inv, Typed
<1>2. QED
  BY <1>1, Invariance, PTL

\* A constraint that is not looked at any more holds (Engine.cpp:1500-1560).
THEOREM InactiveConstraintsHold == Spec => []InactiveHold
<1>1. Inv => InactiveHold
  BY DEF Inv
<1>2. QED
  BY <1>1, Invariance, PTL

\* The stack never loses a solution, nor the context its levels (SmtCore.cpp:150-480).
THEOREM StackIsFaithful == Spec => []StackFaithful
<1>1. Inv => StackFaithful
  <2> SUFFICES ASSUME Inv, NEW p \in Solutions
               PROVE  /\ CheckSkew(p) # "error"
                      /\ BoundsComply(p)
                      /\ pc = "backtrack" \/ exitCode = "UNSAT" => PopAllowed(p)
                      /\ \A i \in DOMAIN stack : Skewed(p, i) =>
                             /\ \E a \in DOMAIN stack[i].alts : p \in stack[i].alts[a]
                             /\ p \in Saved(i)
    BY DEF StackFaithful, StackKeepsSolutions, Saved, Inv, Typed
  <2>1. exitCode # "UNSAT"
    BY DEF Inv, Answered, AnswerRight, UnsatMeansNone
  <2>2. CASE \E i \in DOMAIN stack : HeldBy(p, i)
    <3>1. PICK i \in DOMAIN stack : HeldBy(p, i)
      BY <2>2
    <3>2. CheckSkew(p) = "skewed"
      BY <3>1 DEF CheckSkew, HeldBy
    <3>3. \A j \in DOMAIN stack : Skewed(p, j) => j = i
      BY <3>1, SkewedOnce DEF Inv, HeldBy
    <3>4. QED
      BY <3>1, <3>2, <3>3 DEF HeldBy, BoundsComply, PopAllowed
  <2>3. CASE Compliant(p) /\ p \in box /\ pc # "backtrack"
    <3>1. \A j \in DOMAIN stack : ~Skewed(p, j)
      BY <2>3 DEF Compliant, Skewed
    <3>2. CheckSkew(p) = "compliant"
      BY <2>3, <3>1 DEF CheckSkew, Compliant
    <3>3. QED
      BY <2>1, <2>3, <3>1, <3>2 DEF BoundsComply
  <2>4. QED
    BY <2>2, <2>3 DEF Inv, Kept
<1>2. QED
  BY <1>1, Invariance, PTL

\* SAT comes with a solution of the query, the constraints nobody evaluates any more
\* included, and UNSAT means that there is none (Engine.cpp:231-420).
THEOREM AnswerIsRight == Spec => []AnswerRight
<1>1. Inv => AnswerRight
  BY DEF Inv, Answered
<1>2. QED
  BY <1>1, Invariance, PTL
-----------------------------------------------------------------------------
(***************************************************************************)
(* The search moves forward: every step but a restored precision and a     *)
(* local search cut short leaves less of it to be done.  The stack is no   *)
(* deeper than the constraints and the bisected inputs allow; a step moves *)
(* at its level, opens the next one, or leaves less ahead at an earlier.   *)
(***************************************************************************)
\* A sequence without its last element
LEMMA FrontFacts ==
    ASSUME NEW S, NEW s \in Seq(S), s # <<>>
    PROVE  /\ Front(s) \in Seq(S) /\ Len(Front(s)) = Len(s) - 1 /\ Len(s) - 1 \in Nat
           /\ \A i \in 1 .. Len(s) - 1 : Front(s)[i] = s[i]
<1>1. Len(s) \in Nat \ {0}
  BY EmptySeq
<1>2. PICK m \in Nat : m = Len(s) - 1
  BY <1>1
<1>3. \A i \in 1 .. m : s[i] \in S
  BY <1>1, <1>2, ElementOfSeq
<1>4. /\ SubSeq(s, 1, m) \in Seq(S)
      /\ Len(SubSeq(s, 1, m)) = IF 1 <= m THEN m - 1 + 1 ELSE 0
      /\ \A i \in 1 .. m - 1 + 1 : SubSeq(s, 1, m)[i] = s[1 + i - 1]
  BY <1>2, <1>3, SubSeqProperties
<1>. QED
  BY <1>2, <1>4 DEF Front

\* The constraints that are inactive by some flags
Retired(flags) == {c \in Constraints : ~flags[c]}

\* What bounds the stack: each level took a constraint out of the search or had leave
\* to bisect an input, and a split has no more cases than a constraint or a bisection
Bounded ==
    /\ \A i \in DOMAIN stack :
        /\ Len(stack[i].alts) < MostCases
        /\ i <= IntervalDepth + Cardinality(Retired(stack[i].pl.active))
    /\ Len(stack) <= IntervalDepth + Cardinality(Retired(active))
    /\ needToSplit /\ target = Interval => Len(stack) < IntervalDepth
    /\ pc \in {"search", "propose"} => ~needToSplit /\ Active # {}

\* The stack differs in the implied splits at most
SameLevels ==
    /\ Len(stack') = Len(stack) /\ DOMAIN stack' = DOMAIN stack
    /\ \A i \in DOMAIN stack : stack'[i].alts = stack[i].alts /\ stack'[i].pl = stack[i].pl

\* Less is left to be done at the node
NodeFalls ==
    /\ Active' \subseteq Active
    /\ Active' = Active =>
        /\ Candidates' \subseteq Candidates
        /\ Candidates' = Candidates =>
            /\ box' \subseteq box
            /\ box' = box =>
                \/ Stage' < Stage
                \/ /\ Stage' = Stage
                   /\ RejectionsLeft' \subseteq RejectionsLeft /\ RejectionsLeft' # RejectionsLeft
                \/ /\ Stage' = Stage /\ RejectionsLeft' = RejectionsLeft
                   /\ ReportsLeft' \subseteq ReportsLeft /\ ReportsLeft' # ReportsLeft
                \/ /\ Stage' = Stage /\ RejectionsLeft' = RejectionsLeft
                   /\ ReportsLeft' = ReportsLeft /\ LooksLeft' < LooksLeft

\* The bounds are numbers, and no more constraints are inactive than there are
LEMMA DepthIsBounded ==
    /\ Depth \in Nat /\ MostCases \in Nat \ {0}
    /\ \A flags : /\ Cardinality(Retired(flags)) \in Nat
                  /\ Cardinality(Retired(flags)) <= Cardinality(Constraints)
<1>1. Cardinality(Constraints) \in Nat /\ Cardinality(Phases) \in Nat
  BY ConstraintsAreFinite, FS_CardinalityType
<1>2. ASSUME NEW flags
      PROVE  /\ Cardinality(Retired(flags)) \in Nat
             /\ Cardinality(Retired(flags)) <= Cardinality(Constraints)
  <2>1. Retired(flags) \subseteq Constraints
    BY DEF Retired
  <2>2. QED
    BY <2>1, ConstraintsAreFinite, FS_Subset, FS_CardinalityType
<1>3. QED
  BY <1>1, <1>2, DepthIsANumber DEF Depth, MostCases

\* The more constraints are inactive, the more levels there may be
LEMMA RetiredGrows ==
    ASSUME NEW a, NEW b, Retired(a) \subseteq Retired(b)
    PROVE  Cardinality(Retired(a)) <= Cardinality(Retired(b))
<1>1. IsFiniteSet(Retired(b))
  BY ConstraintsAreFinite, FS_Subset DEF Retired
<1>2. QED
  BY <1>1, FS_Subset

\* Sequences that differ first before or after the place where they are put together
LEMMA ConcatBelow ==
    ASSUME NEW S, NEW s \in Seq(S), NEW t \in Seq(S), NEW u \in Seq(S), NEW v \in Seq(S),
           Len(s) = Len(t), Len(u) = Len(v), Below(s, t) \/ (s = t /\ Below(u, v))
    PROVE  Below(s \o u, t \o v)
<1>1. PICK n \in Nat, m \in Nat :
        /\ n = Len(s) /\ m = Len(u)
        /\ DOMAIN s = 1 .. n /\ DOMAIN t = 1 .. n /\ DOMAIN u = 1 .. m /\ DOMAIN v = 1 .. m
  BY LenProperties
<1>2. /\ DOMAIN (t \o v) = 1 .. n + m
      /\ \A i \in 1 .. n : (s \o u)[i] = s[i] /\ (t \o v)[i] = t[i]
      /\ \A i \in 1 .. m : (s \o u)[n + i] = u[i] /\ (t \o v)[n + i] = v[i]
  <2>1. /\ Len(t \o v) = n + m /\ t \o v \in Seq(S)
        /\ \A i \in 1 .. n + m : (s \o u)[i] = IF i <= n THEN s[i] ELSE u[i - n]
        /\ \A i \in 1 .. n + m : (t \o v)[i] = IF i <= n THEN t[i] ELSE v[i - n]
    BY <1>1, ConcatProperties, SMTT(30)
  <2>2. DOMAIN (t \o v) = 1 .. n + m
    BY <2>1, LenProperties
  <2>3. \A i \in 1 .. m : n + i \in 1 .. n + m /\ ~(n + i <= n) /\ (n + i) - n = i
    OBVIOUS
  <2>4. \A i \in 1 .. n : i \in 1 .. n + m /\ i <= n
    OBVIOUS
  <2>5. QED
    BY <2>1, <2>2, <2>3, <2>4
<1>3. CASE Below(s, t)
  <2>1. PICK i \in 1 .. n : /\ s[i] \subseteq t[i] /\ s[i] # t[i]
                            /\ \A j \in 1 .. i - 1 : s[j] = t[j]
    BY <1>1, <1>3 DEF Below
  <2>2. i \in 1 .. n + m /\ \A j \in 1 .. i - 1 : j \in 1 .. n
    OBVIOUS
  <2>3. QED
    BY <1>2, <2>1, <2>2 DEF Below
<1>4. CASE s = t /\ Below(u, v)
  <2>1. PICK i \in 1 .. m : /\ u[i] \subseteq v[i] /\ u[i] # v[i]
                            /\ \A j \in 1 .. i - 1 : u[j] = v[j]
    BY <1>1, <1>4 DEF Below
  <2>2. /\ n + i \in 1 .. n + m
        /\ \A j \in 1 .. (n + i) - 1 :
              j \in 1 .. n \/ (j - n \in 1 .. i - 1 /\ j - n \in 1 .. m /\ n + (j - n) = j)
    OBVIOUS
  <2>3. ASSUME NEW j \in 1 .. (n + i) - 1 PROVE (s \o u)[j] = (t \o v)[j]
    <3>1. CASE j \in 1 .. n
      BY <1>2, <1>4, <3>1
    <3>2. CASE j - n \in 1 .. i - 1 /\ j - n \in 1 .. m /\ n + (j - n) = j
      <4>1. u[j - n] = v[j - n]
        BY <2>1, <3>2
      <4>2. (s \o u)[n + (j - n)] = u[j - n] /\ (t \o v)[n + (j - n)] = v[j - n]
        BY <1>2, <3>2
      <4>3. QED
        BY <3>2, <4>1, <4>2
    <3>3. QED
      BY <2>2, <3>1, <3>2
  <2>4. (s \o u)[n + i] = u[i] /\ (t \o v)[n + i] = v[i]
    BY <1>2
  <2>5. QED
    BY <1>2, <2>1, <2>2, <2>3, <2>4 DEF Below
<1>5. QED
  BY <1>3, <1>4

\* The first of seven sets that differ decides
LEMMA SevenBelow ==
    ASSUME NEW a1, NEW a2, NEW a3, NEW a4, NEW a5, NEW a6, NEW a7,
           NEW b1, NEW b2, NEW b3, NEW b4, NEW b5, NEW b6, NEW b7,
           a1 \subseteq b1,
           a1 = b1 => a2 \subseteq b2,
           a1 = b1 /\ a2 = b2 => a3 \subseteq b3,
           a1 = b1 /\ a2 = b2 /\ a3 = b3 => a4 \subseteq b4,
           a1 = b1 /\ a2 = b2 /\ a3 = b3 /\ a4 = b4 => a5 \subseteq b5,
           a1 = b1 /\ a2 = b2 /\ a3 = b3 /\ a4 = b4 /\ a5 = b5 => a6 \subseteq b6,
           a1 = b1 /\ a2 = b2 /\ a3 = b3 /\ a4 = b4 /\ a5 = b5 /\ a6 = b6
              => a7 \subseteq b7 /\ a7 # b7
    PROVE  Below(<<a1, a2, a3, a4, a5, a6, a7>>, <<b1, b2, b3, b4, b5, b6, b7>>)
<1> DEFINE a == <<a1, a2, a3, a4, a5, a6, a7>>
           b == <<b1, b2, b3, b4, b5, b6, b7>>
<1>1. /\ DOMAIN b = 1 .. 7
      /\ a[1] = a1 /\ a[2] = a2 /\ a[3] = a3 /\ a[4] = a4 /\ a[5] = a5 /\ a[6] = a6 /\ a[7] = a7
      /\ b[1] = b1 /\ b[2] = b2 /\ b[3] = b3 /\ b[4] = b4 /\ b[5] = b5 /\ b[6] = b6 /\ b[7] = b7
  OBVIOUS
<1> HIDE DEF a, b
<1>2. SUFFICES Below(a, b)
  BY DEF a, b
<1>3. ASSUME NEW i \in 1 .. 7, a[i] \subseteq b[i], a[i] # b[i],
             \A j \in 1 .. i - 1 : a[j] = b[j]
      PROVE  Below(a, b)
  BY <1>1, <1>3 DEF Below
<1>4. CASE a1 # b1
  <2>1. \A j \in 1 .. 1 - 1 : a[j] = b[j]
    BY <1>1, <1>4
  <2>2. 1 \in 1 .. 7 /\ a[1] \subseteq b[1] /\ a[1] # b[1]
    BY <1>1, <1>4
  <2>3. QED
    BY <1>3, <2>1, <2>2
<1>5. CASE a1 = b1 /\ a2 # b2
  <2>1. \A j \in 1 .. 2 - 1 : a[j] = b[j]
    BY <1>1, <1>5
  <2>2. 2 \in 1 .. 7 /\ a[2] \subseteq b[2] /\ a[2] # b[2]
    BY <1>1, <1>5
  <2>3. QED
    BY <1>3, <2>1, <2>2
<1>6. CASE a1 = b1 /\ a2 = b2 /\ a3 # b3
  <2>1. \A j \in 1 .. 3 - 1 : a[j] = b[j]
    BY <1>1, <1>6
  <2>2. 3 \in 1 .. 7 /\ a[3] \subseteq b[3] /\ a[3] # b[3]
    BY <1>1, <1>6
  <2>3. QED
    BY <1>3, <2>1, <2>2
<1>7. CASE a1 = b1 /\ a2 = b2 /\ a3 = b3 /\ a4 # b4
  <2>1. \A j \in 1 .. 4 - 1 : a[j] = b[j]
    BY <1>1, <1>7
  <2>2. 4 \in 1 .. 7 /\ a[4] \subseteq b[4] /\ a[4] # b[4]
    BY <1>1, <1>7
  <2>3. QED
    BY <1>3, <2>1, <2>2
<1>8. CASE a1 = b1 /\ a2 = b2 /\ a3 = b3 /\ a4 = b4 /\ a5 # b5
  <2>1. \A j \in 1 .. 5 - 1 : a[j] = b[j]
    BY <1>1, <1>8
  <2>2. 5 \in 1 .. 7 /\ a[5] \subseteq b[5] /\ a[5] # b[5]
    BY <1>1, <1>8
  <2>3. QED
    BY <1>3, <2>1, <2>2
<1>9. CASE a1 = b1 /\ a2 = b2 /\ a3 = b3 /\ a4 = b4 /\ a5 = b5 /\ a6 # b6
  <2>1. \A j \in 1 .. 6 - 1 : a[j] = b[j]
    BY <1>1, <1>9
  <2>2. 6 \in 1 .. 7 /\ a[6] \subseteq b[6] /\ a[6] # b[6]
    BY <1>1, <1>9
  <2>3. QED
    BY <1>3, <2>1, <2>2
<1>10. CASE a1 = b1 /\ a2 = b2 /\ a3 = b3 /\ a4 = b4 /\ a5 = b5 /\ a6 = b6
  <2>1. \A j \in 1 .. 7 - 1 : a[j] = b[j]
    BY <1>1, <1>10
  <2>2. 7 \in 1 .. 7 /\ a[7] \subseteq b[7] /\ a[7] # b[7]
    BY <1>1, <1>10
  <2>3. QED
    BY <1>3, <2>1, <2>2
<1>11. QED
  BY <1>2, <1>4, <1>5, <1>6, <1>7, <1>8, <1>9, <1>10

\* What is left of the search falls level by level or, the levels the same, at the node
LEMMA RemainingFalls ==
    ASSUME Below(Levels', Levels) \/ (Levels' = Levels /\ Below(Node', Node))
    PROVE  Below(Remaining', Remaining)
<1> DEFINE S == {Levels[i] : i \in 1 .. Depth} \cup {Levels'[i] : i \in 1 .. Depth}
                \cup {Active, Candidates, box, 1 .. Stage, RejectionsLeft, ReportsLeft}
                \cup {Active', Candidates', box', 1 .. Stage', RejectionsLeft', ReportsLeft'}
                \cup {1 .. LooksLeft, 1 .. LooksLeft'}
<1>1. Depth \in Nat
  BY DepthIsBounded
<1>2. Levels \in Seq(S) /\ Len(Levels) = Depth
  <2>1. Levels \in [1 .. Depth -> S]
    BY DEF Levels
  <2> HIDE DEF S
  <2>2. QED
    BY <1>1, <2>1
<1>3. Levels' \in Seq(S) /\ Len(Levels') = Depth
  <2>1. Levels' \in [1 .. Depth -> S]
    BY DEF Levels, Depth
  <2> HIDE DEF S
  <2>2. QED
    BY <1>1, <2>1
<1>4. Node \in Seq(S) /\ Node' \in Seq(S) /\ Len(Node) = 7 /\ Len(Node') = 7
  <2>1. /\ Active \in S /\ Candidates \in S /\ box \in S /\ 1 .. Stage \in S
        /\ RejectionsLeft \in S /\ ReportsLeft \in S
        /\ Active' \in S /\ Candidates' \in S /\ box' \in S /\ 1 .. Stage' \in S
        /\ RejectionsLeft' \in S /\ ReportsLeft' \in S
        /\ 1 .. LooksLeft \in S /\ 1 .. LooksLeft' \in S
    OBVIOUS
  <2> HIDE DEF S
  <2>2. QED
    BY <2>1 DEF Node
<1> HIDE DEF S
<1>5. Below(Levels' \o Node', Levels \o Node)
  BY <1>2, <1>3, <1>4, ConcatBelow
<1>6. QED
  BY <1>5 DEF Remaining

\* What a local search may still look at is a number
LEMMA LooksTypes ==
    Inv => LooksLeft \in 0 .. 2 * MaxCost + 1
<1>1. Inv => cost \in 0 .. MaxCost
  BY Control DEF ControlTyped
<1>2. QED
  BY <1>1, CostsAreNumbers DEF LooksLeft

\* Fewer numbers are below a smaller one
LEMMA BelowSmaller ==
    ASSUME NEW m \in Nat, NEW n \in Nat, m < n
    PROVE  1 .. m \subseteq 1 .. n /\ 1 .. m # 1 .. n
<1>1. n \in 1 .. n /\ n \notin 1 .. m
  OBVIOUS
<1>2. QED
  BY <1>1

\* The stage is a number
LEMMA StageTypes ==
    Inv => /\ Stage \in 0 .. 5
           /\ pc \in {"solve", "search", "propose"} => Stage >= 2
           /\ pc = "backtrack" => Stage = 1
           /\ pc \in {"done", "crash"} => Stage = 0
BY Control DEF ControlTyped, Stage

\* So are the alternatives ahead
LEMMA AheadTypes ==
    ASSUME Inv, NEW i \in 1 .. Depth
    PROVE  Ahead(i) \in Nat
<1>1. Depth \in Nat /\ MostCases \in Nat
  BY DepthIsBounded
<1>2. Len(stack) \in Nat /\ DOMAIN stack = 1 .. Len(stack)
      /\ \A n \in DOMAIN stack : stack[n].alts \in Seq(Regions)
  BY Types DEF Inv
<1>3. CASE i <= Len(stack)
  <2>1. Len(stack[i].alts) \in Nat
    BY <1>1, <1>2, <1>3, LenProperties
  <2>2. QED
    BY <1>3, <2>1 DEF Ahead
<1>4. CASE ~(i <= Len(stack))
  BY <1>1, <1>4 DEF Ahead
<1>5. QED
  BY <1>3, <1>4

\* The first level with fewer alternatives ahead decides
LEMMA LevelFalls ==
    ASSUME NEW n \in 1 .. Depth, Ahead(n) \in Nat, Ahead(n)' \in Nat, Ahead(n)' < Ahead(n),
           \A j \in 1 .. n - 1 : Ahead(j)' = Ahead(j)
    PROVE  Below(Remaining', Remaining)
<1>1. Depth \in Nat /\ Depth' = Depth
  BY DepthIsBounded DEF Depth
<1>2. \A j \in 1 .. Depth : Levels[j] = 1 .. Ahead(j) /\ Levels'[j] = 1 .. Ahead(j)'
  BY <1>1 DEF Levels
<1>3. 1 .. Ahead(n)' \subseteq 1 .. Ahead(n) /\ 1 .. Ahead(n)' # 1 .. Ahead(n)
  <2>1. Ahead(n) \in 1 .. Ahead(n) /\ Ahead(n) \notin 1 .. Ahead(n)'
    OBVIOUS
  <2>2. QED
    BY <2>1
<1>4. Levels'[n] \subseteq Levels[n] /\ Levels'[n] # Levels[n]
  BY <1>2, <1>3
<1>5. \A j \in 1 .. n - 1 : j \in 1 .. Depth /\ Levels'[j] = Levels[j]
  <2>1. \A j \in 1 .. n - 1 : j \in 1 .. Depth
    BY <1>1
  <2>2. QED
    BY <1>2, <2>1
<1>6. DOMAIN Levels = 1 .. Depth
  BY DEF Levels
<1>7. Below(Levels', Levels)
  BY <1>4, <1>5, <1>6 DEF Below
<1>8. QED
  BY <1>7, RemainingFalls

\* What is left at the node falls
LEMMA NodeBelow ==
    ASSUME Inv, Inv', NodeFalls
    PROVE  Below(Node', Node)
<1>1. Stage \in Nat /\ Stage' \in Nat /\ LooksLeft \in Nat /\ LooksLeft' \in Nat
  <2>1. Stage \in 0 .. 5 /\ LooksLeft \in 0 .. 2 * MaxCost + 1
    BY StageTypes, LooksTypes
  <2>2. (Inv => Stage \in 0 .. 5 /\ LooksLeft \in 0 .. 2 * MaxCost + 1)'
    BY StageTypes, LooksTypes, PTL
  <2>3. QED
    BY <2>1, <2>2
<1>2. Stage' < Stage => 1 .. Stage' \subseteq 1 .. Stage /\ 1 .. Stage' # 1 .. Stage
  BY <1>1, BelowSmaller
<1>3. LooksLeft' < LooksLeft => /\ 1 .. LooksLeft' \subseteq 1 .. LooksLeft
                               /\ 1 .. LooksLeft' # 1 .. LooksLeft
  BY <1>1, BelowSmaller
<1>4. QED
  BY <1>2, <1>3, SevenBelow DEF Node, NodeFalls

\* A step that stays on its level, or turns back there
LEMMA NodeStep ==
    ASSUME Inv, Inv', SameLevels, NodeFalls,
           pc' \in {"solve", "search", "propose"} => pc \in {"solve", "search", "propose"}
    PROVE  Below(Remaining', Remaining)
<1>1. Depth \in Nat /\ Depth' = Depth /\ MostCases \in Nat /\ MostCases' = MostCases
  BY DepthIsBounded DEF Depth, MostCases
<1>2. Len(stack) \in Nat /\ DOMAIN stack = 1 .. Len(stack) /\ Len(stack') = Len(stack)
  BY Types DEF SameLevels, Inv
<1>3. \A i \in 1 .. Depth : i <= Len(stack) => Ahead(i)' = Ahead(i)
  <2>1. SUFFICES ASSUME NEW i \in 1 .. Depth, i <= Len(stack) PROVE Ahead(i)' = Ahead(i)
    OBVIOUS
  <2>2. stack'[i].alts = stack[i].alts
    BY <1>1, <1>2, <2>1 DEF SameLevels
  <2>3. QED
    BY <1>2, <2>1, <2>2 DEF Ahead
<1>4. CASE pc \in {"solve", "search", "propose"} <=> pc' \in {"solve", "search", "propose"}
  <2>1. \A i \in 1 .. Depth : Ahead(i)' = Ahead(i)
    BY <1>1, <1>2, <1>3, <1>4 DEF Ahead
  <2>2. Levels' = Levels
    BY <1>1, <2>1 DEF Levels
  <2>3. Below(Node', Node)
    BY NodeBelow
  <2>4. QED
    BY <2>2, <2>3, RemainingFalls
<1>5. CASE pc \in {"solve", "search", "propose"} /\ pc' \notin {"solve", "search", "propose"} /\ Len(stack) < Depth
  <2>1. PICK n \in 1 .. Depth : n = Len(stack) + 1
    BY <1>1, <1>2, <1>5
  <2>2. Ahead(n) = MostCases + 1 /\ Ahead(n)' = 0
    BY <1>2, <1>5, <2>1 DEF Ahead
  <2>3. \A j \in 1 .. n - 1 : Ahead(j)' = Ahead(j)
    BY <1>1, <1>2, <1>3, <1>5, <2>1
  <2>4. QED
    BY <1>1, <2>1, <2>2, <2>3, LevelFalls
<1>6. CASE pc \in {"solve", "search", "propose"} /\ pc' \notin {"solve", "search", "propose"} /\ ~(Len(stack) < Depth)
  <2>1. \A i \in 1 .. Depth : Ahead(i)' = Ahead(i)
    BY <1>1, <1>2, <1>3, <1>6
  <2>2. Levels' = Levels
    BY <1>1, <2>1 DEF Levels
  <2>3. Below(Node', Node)
    BY NodeBelow
  <2>4. QED
    BY <2>2, <2>3, RemainingFalls
<1>7. QED
  BY <1>4, <1>5, <1>6

\* What Bounded needs of a step that stays on its level
LEMMA BoundedStep ==
    ASSUME Inv, Bounded, SameLevels, Active' \subseteq Active,
           needToSplit' /\ target' = Interval => Len(stack) < IntervalDepth,
           pc' \in {"search", "propose"} => ~needToSplit' /\ Active' # {}
    PROVE  Bounded'
<1>1. Len(stack) \in Nat
  BY Types DEF Inv
<1>2. Retired(active) \subseteq Retired(active')
  BY DEF Retired, Active
<1>3. /\ Cardinality(Retired(active)) \in Nat /\ Cardinality(Retired(active')) \in Nat
      /\ Cardinality(Retired(active)) <= Cardinality(Retired(active'))
  BY <1>2, RetiredGrows, DepthIsBounded
<1>4. Len(stack') <= IntervalDepth + Cardinality(Retired(active'))
  BY <1>1, <1>3, DepthIsANumber DEF Bounded, SameLevels
<1>5. QED
  BY <1>1, <1>4 DEF Bounded, SameLevels, MostCases, Retired

\* A stack that is not touched
LEMMA SameStack ==
    ASSUME stack' = stack
    PROVE  SameLevels
  BY DEF SameLevels

\* The valid splits are applied: the constraints still active are the candidates
LEMMA AppliedLevels ==
    ASSUME Inv, ApplyAllValidSplits, phase' = phase
    PROVE  /\ SameLevels /\ Active' = Candidates /\ Candidates' = Candidates
           /\ Active' \subseteq Active /\ box' \subseteq box
           /\ PendingValid = {} => Active' = Active
           /\ PendingValid # {} => Active' # Active
<1>1. SameLevels
  <2>1. RecordImplied(ValidRegions) /\ ValidRegions \in SUBSET Regions /\ StateTyped
    BY ValidFacts, Control DEF ApplyAllValidSplits, Inv
  <2>2. QED
    BY <2>1, RecordFacts, LenProperties DEF SameLevels, StateTyped
<1>2. Active' = Candidates
  BY DEF ApplyAllValidSplits, ApplyValid, Active, Candidates, PendingValid
<1>3. Candidates' = Candidates
  BY <1>2 DEF Candidates
<1>4. QED
  BY <1>1, <1>2, <1>3 DEF ApplyAllValidSplits, ApplyValid, PendingValid, Candidates

\* Less is left to be done, and the stack stays within its bounds
Advances == Bounded' /\ Below(Remaining', Remaining)

\* A step that stays on its level advances if less is left at the node
LEMMA Stays ==
    ASSUME Inv, Inv', Bounded, SameLevels, NodeFalls,
           pc' \in {"solve", "search", "propose"} => pc \in {"solve", "search", "propose"},
           needToSplit' /\ target' = Interval => Len(stack) < IntervalDepth,
           pc' \in {"search", "propose"} => ~needToSplit' /\ Active' # {}
    PROVE  Advances
BY BoundedStep, NodeStep DEF Advances, NodeFalls

\* Valid splits are applied: fewer constraints are active
LEMMA ApplyValidSplitsAdvances ==
    ASSUME Inv, Inv', Bounded, ApplyValidSplits
    PROVE  Advances
<1>1. /\ ApplyAllValidSplits /\ phase' = phase /\ PendingValid # {}
      /\ pc = "solve" /\ pc' = pc /\ needToSplit' = needToSplit /\ target' = target
  BY DEF ApplyValidSplits, splitState
<1>2. SameLevels /\ Active' \subseteq Active /\ Active' # Active
  BY <1>1, AppliedLevels
<1>3. QED
  BY <1>1, <1>2, Stays DEF NodeFalls, Bounded

\* Tighter bounds: the box is smaller
LEMMA TightenAdvances ==
    ASSUME Inv, Inv', Bounded, Tighten
    PROVE  Advances
<1>1. /\ box' \subseteq box /\ box' # box
      /\ UNCHANGED <<active, phase, stack, needToSplit, target, pc>>
  BY DEF Tighten, splitState, plState
<1>2. Active' = Active /\ Candidates' = Candidates
  BY <1>1 DEF Active, Candidates
<1>3. QED
  BY <1>1, <1>2, SameStack, Stays DEF NodeFalls, Bounded

\* A phase found fixed: a candidate less
LEMMA FixPhaseAdvances ==
    ASSUME Inv, Inv', Bounded, FixPhase
    PROVE  Advances
<1>1. PICK c \in Candidates, ph \in Phases : phase' = [phase EXCEPT ![c] = ph]
  BY DEF FixPhase
<1>2. UNCHANGED <<active, stack, needToSplit, target, pc>>
  BY DEF FixPhase, splitState
<1>3. phase \in [Constraints -> Phases \cup {NotFixed}]
  BY Control DEF StateTyped
<1>4. Active' = Active
  BY <1>2 DEF Active
<1>5. c \in Candidates /\ c \notin Candidates' /\ Candidates' \subseteq Candidates
  <2>1. c \in Constraints /\ phase'[c] = ph /\ ph # NotFixed
    BY <1>1, <1>3, NamesAreDistinct DEF Candidates, Active
  <2>2. \A d \in Constraints : d # c => phase'[d] = phase[d]
    BY <1>1, <1>3
  <2>3. QED
    BY <1>1, <1>4, <2>1, <2>2 DEF Candidates, Active
<1>6. QED
  BY <1>2, <1>4, <1>5, SameStack, Stays DEF NodeFalls, Bounded

\* The last rejection, in a local search or where an assignment is checked
LEMMA LastRejectionAdvances ==
    ASSUME Inv, Inv', Bounded, LastRejection, phase' = phase, pc' = "solve",
           pc \in {"search", "propose"} \/ (pc = "solve" /\ ~needToSplit /\ PendingValid = {})
    PROVE  Advances
<1>1. /\ SameLevels /\ Active' = Candidates /\ Candidates' = Candidates
      /\ Active' \subseteq Active /\ box' \subseteq box
  BY AppliedLevels DEF LastRejection
<1>2. needToSplit' = TRUE /\ target' \in Picked \cup TopUnfixed
  BY DEF LastRejection
<1>3. target' \notin Constraints \ Active'
  BY <1>1, <1>2, NamesAreDistinct DEF Picked, TopUnfixed
<1>4. Stage' = 2 /\ Stage \in {3, 4}
  BY <1>2, <1>3 DEF Stage
<1>5. target' = Interval => Len(stack) < IntervalDepth
  BY <1>2, NamesAreDistinct DEF Picked, TopUnfixed, Candidates, Active
<1>6. NodeFalls
  BY <1>1, <1>4 DEF NodeFalls
<1>7. QED
  BY <1>1, <1>5, <1>6, Stays

\* The split conditions and pc move, and the stage falls
LEMMA StageAdvances ==
    ASSUME Inv, Inv', Bounded, UNCHANGED <<box, active, phase, stack>>, Stage' < Stage,
           pc' \in {"solve", "search", "propose"} => pc \in {"solve", "search", "propose"},
           needToSplit' /\ target' = Interval => Len(stack) < IntervalDepth,
           pc' \in {"search", "propose"} => ~needToSplit' /\ Active' # {}
    PROVE  Advances
<1>1. Active' = Active /\ Candidates' = Candidates
  BY DEF Active, Candidates
<1>2. NodeFalls
  BY <1>1 DEF NodeFalls
<1>3. QED
  BY <1>2, SameStack, Stays

\* The engine stops
LEMMA FinishAdvances ==
    ASSUME Inv, Inv', Bounded, UNCHANGED <<box, active, phase, stack, splitState>>,
           pc \in {"solve", "search", "propose", "backtrack"}, pc' \in {"done", "crash"}
    PROVE  Advances
<1>1. Stage > 0 /\ Stage' = 0
  BY StageTypes DEF Stage
<1>2. needToSplit' /\ target' = Interval => Len(stack) < IntervalDepth
  BY DEF Bounded, splitState
<1>3. QED
  BY <1>1, <1>2, StageAdvances

\* An assignment satisfies the active constraints
LEMMA JudgeAdvances ==
    ASSUME Inv, Inv', Bounded, NEW p, JudgeSatisfying(p), phase' = phase,
           pc \in {"search", "propose"} \/ (pc = "solve" /\ ~needToSplit /\ PendingValid = {})
    PROVE  Advances
<1>1. CASE /\ pc' = "done"
           /\ UNCHANGED <<box, active, stack, rootImplied, splitState>>
  BY <1>1, FinishAdvances
<1>2. CASE LastRejection /\ pc' = "solve"
  BY <1>2, LastRejectionAdvances
<1>3. QED
  BY <1>1, <1>2 DEF JudgeSatisfying, Finish

\* A report that does not lead to a split is one of those that are left
LEMMA ReportAdvances ==
    ASSUME Inv, Inv', Bounded, NEW c \in Active, ReportViolated(c),
           pc = "solve", ~needToSplit, PendingValid = {},
           UNCHANGED <<box, active, phase, stack, pc>>
    PROVE  Advances
<1>1. /\ c \in Constraints /\ violations \in [Constraints -> 0 .. Threshold]
      /\ target' \in Constraints \cup {Interval, None}
      /\ Threshold \in Nat
  BY Control, ThresholdIsPositive, TypeParts DEF ControlTyped, Active, Inv, Typed, TypeOK
<1>2. Active' = Active /\ Candidates' = Candidates /\ PendingValid' = {}
  BY DEF Active, Candidates, PendingValid
<1>3. Stage = 4
  BY DEF Stage
<1>4. CASE violations'[c] >= Threshold
  <2>1. needToSplit' = TRUE /\ target' \in Picked \cup {c}
    BY <1>4 DEF ReportViolated
  <2>2. target' \notin Constraints \ Active'
    BY <1>2, <2>1, NamesAreDistinct DEF Picked, Candidates
  <2>3. Stage' = 2
    BY <2>1, <2>2 DEF Stage
  <2>4. target' = Interval => Len(stack) < IntervalDepth
    BY <1>1, <2>1, NamesAreDistinct DEF Picked, Candidates, Active
  <2>5. QED
    BY <1>3, <2>3, <2>4, StageAdvances
<1>5. CASE ~(violations'[c] >= Threshold)
  <2>1. /\ violations' = [violations EXCEPT ![c] = IF @ < Threshold THEN @ + 1 ELSE @]
        /\ UNCHANGED <<needToSplit, target, rejected>>
    BY <1>5 DEF ReportViolated
  <2>2. violations[c] \in 0 .. Threshold
    BY <1>1
  <2>3. violations[c] < Threshold /\ violations'[c] = violations[c] + 1
    BY <1>1, <1>5, <2>1, <2>2
  <2>4. Stage' = 4
    BY <1>2, <2>1 DEF Stage
  <2>5. RejectionsLeft' = RejectionsLeft
    BY <2>1 DEF RejectionsLeft
  <2>6. ReportsLeft' \subseteq ReportsLeft
    <3>1. \A d \in Constraints : violations[d] \in Nat /\ violations'[d] \in Nat /\ violations[d] <= violations'[d]
      BY <1>1, <2>1, <2>2, <2>3
    <3>2. ASSUME NEW d \in Constraints, NEW n \in 1 .. Threshold, violations'[d] < n
          PROVE  violations[d] < n
      BY <1>1, <3>1, <3>2
    <3>3. QED
      BY <3>2 DEF ReportsLeft
  <2>7. ReportsLeft' # ReportsLeft
    <3>1. violations[c] + 1 \in 1 .. Threshold /\ violations[c] < violations[c] + 1
          /\ ~(violations'[c] < violations[c] + 1)
      BY <1>1, <2>2, <2>3
    <3>2. <<c, violations[c] + 1>> \in ReportsLeft /\ <<c, violations[c] + 1>> \notin ReportsLeft'
      BY <1>1, <3>1 DEF ReportsLeft
    <3>3. QED
      BY <3>2
  <2>8. NodeFalls
    BY <1>2, <1>3, <2>4, <2>5, <2>6, <2>7 DEF NodeFalls
  <2>9. QED
    BY <2>1, <2>8, SameStack, Stays DEF Bounded
<1>6. QED
  BY <1>4, <1>5

\* An assignment is checked: a verdict, a local search, a report or a rejection
LEMMA CheckAssignmentAdvances ==
    ASSUME Inv, Inv', Bounded, CheckAssignment
    PROVE  Advances
<1>1. pc = "solve" /\ ~needToSplit /\ PendingValid = {} /\ phase' = phase
  BY DEF CheckAssignment
<1>2. CASE \E p \in box : JudgeSatisfying(p)
  BY <1>1, <1>2, JudgeAdvances
<1>3. CASE /\ \E p \in box : ~Satisfied(p)
           /\ pc' = "search" /\ UNCHANGED <<box, active, stack, rootImplied, splitState, outcome>>
  <2>1. Active # {} /\ Active' = Active
    BY <1>3 DEF Satisfied, Active
  <2>2. Stage = 4 /\ Stage' = 3
    BY <1>1, <1>3 DEF Stage
  <2>3. QED
    BY <1>1, <1>3, <2>1, <2>2, StageAdvances DEF splitState
<1>4. CASE \E c \in Active : /\ ReportViolated(c)
                             /\ UNCHANGED <<box, active, stack, rootImplied, pc, outcome>>
  BY <1>1, <1>4, ReportAdvances
<1>5. QED
  BY <1>2, <1>3, <1>4 DEF CheckAssignment

\* The steps of the local search
LEMMA LocalSearchAdvances ==
    ASSUME Inv, Inv', Bounded,
           JudgeOptimum \/ LeaveSearch \/ RejectProposal \/ (AcceptProposal /\ ~AcceptNoBetter)
    PROVE  Advances
<1>1. pc \in {"search", "propose"} /\ phase' = phase
  BY DEF JudgeOptimum, LeaveSearch, RejectProposal, AcceptProposal, plState
<1>2. Stage = 3 /\ ~needToSplit /\ Active # {}
  BY <1>1 DEF Stage, Bounded
<1>3. CASE /\ pc' \in {"search", "propose"} /\ LooksLeft' < LooksLeft
           /\ UNCHANGED <<box, active, stack, splitState>>
  <2>1. Active' = Active /\ Candidates' = Candidates /\ Stage' = 3
    BY <1>1, <1>3 DEF Active, Candidates, Stage
  <2>2. RejectionsLeft' = RejectionsLeft /\ ReportsLeft' = ReportsLeft
    BY <1>3 DEF RejectionsLeft, ReportsLeft, splitState
  <2>3. NodeFalls
    BY <1>2, <1>3, <2>1, <2>2 DEF NodeFalls
  <2>4. needToSplit' = FALSE
    BY <1>2, <1>3 DEF splitState
  <2>5. QED
    BY <1>1, <1>2, <1>3, <2>1, <2>3, <2>4, SameStack, Stays
<1>4. CASE LastRejection /\ pc' = "solve"
  BY <1>1, <1>4, LastRejectionAdvances
<1>5. CASE /\ Candidates = {} /\ pc' = "solve"
           /\ UNCHANGED <<box, active, stack, rootImplied, splitState>>
  <2>1. needToSplit' = FALSE /\ Active' = Active /\ PendingValid' # {}
    BY <1>1, <1>2, <1>5 DEF Active, Candidates, PendingValid, splitState
  <2>2. Stage' = 2
    BY <1>5, <2>1 DEF Stage
  <2>3. QED
    BY <1>1, <1>2, <1>5, <2>1, <2>2, StageAdvances
<1>6. CASE RejectProposal /\ ~(rejected + 1 >= Threshold)
  <2>1. /\ rejected' = rejected + 1
        /\ UNCHANGED <<box, active, stack, rootImplied, needToSplit, target, pc, violations>>
    BY <1>6 DEF RejectProposal
  <2>2. rejected \in Nat /\ rejected + 1 \in 1 .. Threshold
    BY <1>6, Control, ThresholdIsPositive DEF ControlTyped
  <2>3. RejectionsLeft' \subseteq RejectionsLeft /\ RejectionsLeft' # RejectionsLeft
    <3>1. rejected + 1 \in RejectionsLeft /\ rejected + 1 \notin RejectionsLeft'
      BY <2>1, <2>2 DEF RejectionsLeft
    <3>2. RejectionsLeft' \subseteq RejectionsLeft
      BY <2>1, <2>2 DEF RejectionsLeft
    <3>3. QED
      BY <3>1, <3>2
  <2>4. Active' = Active /\ Candidates' = Candidates /\ Stage' = Stage
    BY <1>1, <1>2, <2>1 DEF Active, Candidates, Stage
  <2>5. NodeFalls
    BY <2>1, <2>3, <2>4 DEF NodeFalls
  <2>6. QED
    BY <1>1, <1>2, <2>1, <2>4, <2>5, SameStack, Stays
<1>7. cost \in 0 .. MaxCost /\ MaxCost \in Nat
  BY Control, CostsAreNumbers DEF ControlTyped
<1>8. CASE JudgeOptimum
  <2>1. CASE \E p \in box : JudgeSatisfying(p)
    BY <1>1, <2>1, JudgeAdvances
  <2>2. CASE pc' = "propose" /\ UNCHANGED <<box, active, stack, splitState>>
    <3>1. pc = "search" /\ cost' = cost
      BY <1>8 DEF JudgeOptimum
    <3>2. LooksLeft = 2 * cost + 1 /\ LooksLeft' = 2 * cost
      BY <2>2, <3>1 DEF LooksLeft
    <3>3. QED
      BY <1>3, <1>7, <2>2, <3>2
  <2>3. QED
    BY <1>8, <2>1, <2>2 DEF JudgeOptimum
<1>9. CASE AcceptProposal /\ ~AcceptNoBetter
  <2>1. /\ pc = "propose" /\ pc' = "search" /\ cost' \in 0 .. MaxCost /\ ~(cost' >= cost)
        /\ UNCHANGED <<box, active, stack, splitState>>
    BY <1>9 DEF AcceptProposal, AcceptNoBetter, plState
  <2>2. LooksLeft = 2 * cost /\ LooksLeft' = 2 * cost' + 1
    BY <2>1 DEF LooksLeft
  <2>3. cost \in Nat /\ cost' \in Nat /\ cost' < cost
    BY <1>7, <2>1
  <2>4. ASSUME NEW m \in Nat, NEW n \in Nat, m < n PROVE 2 * m + 1 < 2 * n
    BY <2>4
  <2>5. LooksLeft' < LooksLeft
    BY <2>2, <2>3, <2>4
  <2>6. QED
    BY <1>3, <2>1, <2>5
<1>10. CASE LeaveSearch \/ RejectProposal
  BY <1>4, <1>5, <1>6, <1>10 DEF RejectProposal, LeaveSearch
<1>11. QED
  BY <1>8, <1>9, <1>10

\* The target is forgotten
LEMMA ForgetAdvances ==
    ASSUME Inv, Inv', Bounded, ForgetTarget
    PROVE  Advances
<1>1. /\ pc = "solve" /\ needToSplit /\ target \in Constraints \ Active /\ needToSplit' = FALSE
      /\ UNCHANGED <<box, active, phase, stack, pc>>
  BY DEF ForgetTarget, plState
<1>2. Stage = 5 /\ Stage' \in {2, 4}
  BY <1>1 DEF Stage
<1>3. QED
  BY <1>1, <1>2, StageAdvances

\* The engine turns back, or stops
LEMMA TurnAdvances ==
    ASSUME Inv, Inv', Bounded, Infeasible \/ SplitOnNull \/ PopNothing \/ Interrupted
    PROVE  Advances
<1>1. UNCHANGED <<box, active, phase, stack, splitState>>
  BY DEF Infeasible, SplitOnNull, PopNothing, Interrupted, plState
<1>2. CASE Infeasible
  <2>1. pc \in {"solve", "search", "propose"} /\ pc' = "backtrack"
    BY <1>2 DEF Infeasible
  <2>2. Stage >= 2 /\ Stage \in 0 .. 5 /\ Stage' = 1
    BY <2>1, StageTypes DEF Stage
  <2>3. needToSplit' /\ target' = Interval => Len(stack) < IntervalDepth
    BY <1>1 DEF Bounded, splitState
  <2>4. QED
    BY <1>1, <2>1, <2>2, <2>3, StageAdvances
<1>3. CASE SplitOnNull \/ PopNothing \/ Interrupted
  BY <1>1, <1>3, FinishAdvances DEF SplitOnNull, PopNothing, Interrupted, Finish
<1>4. QED
  BY <1>2, <1>3

\* A split has at most so many cases
LEMMA CasesCounted ==
    ASSUME Inv, target \in Constraints \cup {Interval}, NEW splits \in CaseSplits
    PROVE  Len(Tail(splits)) \in Nat /\ Len(Tail(splits)) < MostCases
<1> DEFINE N == Cardinality(Phases)
<1>1. N \in Nat /\ N # 0
  BY ConstraintsAreFinite, ConstraintsHaveCases, FS_CardinalityType, FS_EmptySet
<1>2. CASE target = Interval
  <2>1. PICK r \in Regions, s \in Regions : splits = <<r, s>>
    BY <1>2 DEF CaseSplits
  <2>2. Len(Tail(splits)) = 1
    BY <2>1
  <2>3. 1 \in Nat /\ 1 < MostCases
    BY <1>1 DEF MostCases
  <2>4. QED
    BY <2>2, <2>3, Zenon
<1>3. CASE target # Interval
  <2>1. \E f \in [1 .. N -> Phases] : splits = [i \in 1 .. N |-> problem.piece[target][f[i]]]
    BY <1>3 DEF CaseSplits
  <2>2. \A ph \in Phases : problem.piece[target][ph] \in Regions
    BY <1>3, Pieces DEF Inv
  <2>3. splits \in [1 .. N -> Regions]
    BY <2>1, <2>2
  <2> HIDE DEF N
  <2>4. splits \in Seq(Regions) /\ Len(splits) = N
    BY <1>1, <2>3
  <2>5. splits # <<>>
    BY <1>1, <2>4
  <2>6. Len(Tail(splits)) = N - 1
    BY <2>4, <2>5, HeadTailProperties
  <2>7. QED
    BY <1>1, <2>6 DEF MostCases, N
<1>4. QED
  BY <1>2, <1>3

\* There is a level under the stack for the split, and its first case is under way
LEMMA PerformSplitAdvances ==
    ASSUME Inv, Inv', Bounded, PerformSplit
    PROVE  Advances
<1>1. PICK n \in Nat : n = Len(stack) /\ DOMAIN stack = 1 .. n
  BY Types DEF Inv
<1>2. /\ pc = "solve" /\ pc' = pc /\ needToSplit /\ needToSplit' = FALSE
      /\ target \in Active \cup {Interval}
      /\ active' = [c \in Constraints |-> active[c] /\ c # target]
  BY DEF PerformSplit
<1>3. PICK splits \in CaseSplits :
        stack' = Append(stack, [current |-> splits[1], alts |-> Tail(splits),
                                implied |-> {}, pl |-> [active |-> active', phase |-> phase]])
  BY DEF PerformSplit
<1> DEFINE entry == [current |-> splits[1], alts |-> Tail(splits),
                     implied |-> {}, pl |-> [active |-> active', phase |-> phase]]
<1>4. /\ Len(stack') = n + 1 /\ stack'[n + 1] = entry
      /\ \A i \in 1 .. n : stack'[i] = stack[i]
      /\ DOMAIN stack' = 1 .. n + 1
  <2>1. stack \in Seq(Entries \cup {entry}) /\ entry \in Entries \cup {entry}
    BY Types, SeqDef DEF Inv
  <2>2. stack' = Append(stack, entry)
    BY <1>3
  <2> HIDE DEF entry
  <2>3. QED
    BY <1>1, <2>1, <2>2, AppendProperties, LenProperties
<1>5. Len(Tail(splits)) \in Nat /\ Len(Tail(splits)) < MostCases
  BY <1>2, <1>3, CasesCounted DEF Active
<1>6. /\ n + 1 <= IntervalDepth + Cardinality(Retired(active'))
      /\ Cardinality(Retired(active')) \in Nat /\ n + 1 \in 1 .. Depth
      /\ Cardinality(Retired(active')) <= Cardinality(Constraints)
  <2>1. Retired(active) \subseteq Retired(active')
    BY <1>2 DEF Retired
  <2>2. /\ Cardinality(Retired(active)) \in Nat /\ Cardinality(Retired(active')) \in Nat
        /\ Cardinality(Retired(active)) <= Cardinality(Retired(active'))
        /\ Cardinality(Retired(active')) <= Cardinality(Constraints)
        /\ Cardinality(Constraints) \in Nat
    BY <2>1, RetiredGrows, DepthIsBounded, ConstraintsAreFinite, FS_CardinalityType
  <2>3. n + 1 <= IntervalDepth + Cardinality(Retired(active'))
    <3>1. CASE target = Interval
      BY <1>1, <1>2, <2>2, <3>1, DepthIsANumber DEF Bounded
    <3>2. CASE target \in Active
      <4>1. target \notin Retired(active) /\ Retired(active') = Retired(active) \cup {target}
        BY <1>2, <3>2 DEF Active, Retired
      <4>2. IsFiniteSet(Retired(active))
        BY ConstraintsAreFinite, FS_Subset DEF Retired
      <4>3. Cardinality(Retired(active')) = Cardinality(Retired(active)) + 1
        BY <4>1, <4>2, FS_AddElement
      <4>4. QED
        BY <1>1, <2>2, <4>3, DepthIsANumber DEF Bounded
    <3>3. QED
      BY <1>2, <3>1, <3>2
  <2>4. QED
    BY <2>2, <2>3, DepthIsANumber DEF Depth
<1>7. Bounded'
  <2>1. \A i \in DOMAIN stack' : /\ Len(stack'[i].alts) < MostCases
                                 /\ i <= IntervalDepth + Cardinality(Retired(stack'[i].pl.active))
    <3>1. SUFFICES ASSUME NEW i \in DOMAIN stack'
                   PROVE  /\ Len(stack'[i].alts) < MostCases
                          /\ i <= IntervalDepth + Cardinality(Retired(stack'[i].pl.active))
      OBVIOUS
    <3>2. CASE i \in 1 .. n
      BY <1>1, <1>4, <3>2 DEF Bounded
    <3>3. CASE i = n + 1
      <4>1. stack'[i].alts = Tail(splits) /\ stack'[i].pl.active = active'
        BY <1>4, <3>3
      <4>2. QED
        BY <1>5, <1>6, <3>3, <4>1
    <3>4. QED
      BY <1>4, <3>1, <3>2, <3>3
  <2>2. QED
    BY <1>2, <1>4, <1>6, <2>1 DEF Bounded, MostCases, Retired
<1>8. Below(Remaining', Remaining)
  <2>1. PICK m \in 1 .. Depth : m = n + 1
    BY <1>6
  <2>2. Ahead(m) = MostCases + 1 /\ MostCases \in Nat
    BY <1>1, <1>2, <2>1, DepthIsBounded DEF Ahead
  <2>3. Ahead(m)' = Len(Tail(splits)) + 1
    <3>1. stack'[m].alts = Tail(splits) /\ m <= Len(stack')
      BY <1>4, <2>1
    <3>2. QED
      BY <3>1 DEF Ahead
  <2>4. \A j \in 1 .. m - 1 : Ahead(j)' = Ahead(j)
    <3>1. \A j \in 1 .. m - 1 : j \in 1 .. n /\ j <= Len(stack) /\ j <= Len(stack')
      BY <1>1, <1>4, <2>1
    <3>2. QED
      BY <1>4, <3>1 DEF Ahead
  <2>5. QED
    BY <1>5, <2>2, <2>3, <2>4, LevelFalls
<1>9. QED
  BY <1>7, <1>8, SMTT(30) DEF Advances

\* What is on the stack has a level
LEMMA EntryDepth ==
    ASSUME Inv, Bounded, NEW i \in DOMAIN stack
    PROVE  i \in 1 .. Depth
<1>1. /\ i \in Nat /\ 1 <= i
      /\ i <= IntervalDepth + Cardinality(Retired(stack[i].pl.active))
  BY Types DEF Inv, Bounded
<1>2. /\ Cardinality(Retired(stack[i].pl.active)) \in Nat
      /\ Cardinality(Retired(stack[i].pl.active)) <= Cardinality(Constraints)
      /\ Cardinality(Constraints) \in Nat
  BY DepthIsBounded, ConstraintsAreFinite, FS_CardinalityType
<1>3. QED
  BY <1>1, <1>2, DepthIsANumber DEF Depth

\* An exhausted entry leaves nothing ahead at its level
LEMMA PopExhaustedAdvances ==
    ASSUME Inv, Inv', Bounded, PopExhausted
    PROVE  Advances
<1>1. /\ pc = "backtrack" /\ pc' = pc /\ stack # <<>> /\ stack[Len(stack)].alts = <<>>
      /\ stack' = Front(stack) /\ active' = active /\ needToSplit' = needToSplit /\ target' = target
  BY DEF PopExhausted, Last, plState, splitState
<1>2. stack \in Seq(Entries) /\ DOMAIN stack = 1 .. Len(stack)
  BY Types, SMTT(30) DEF Inv
<1>3. PICK n \in Nat : n = Len(stack) - 1
  BY <1>1, <1>2, FrontFacts, ZenonT(40)
<1>4. /\ stack' \in Seq(Entries) /\ Len(stack') = n /\ \A i \in 1 .. n : stack'[i] = stack[i]
  BY <1>1, <1>2, <1>3, FrontFacts
<1>5. Len(stack) = n + 1 /\ DOMAIN stack = 1 .. n + 1 /\ DOMAIN stack' = 1 .. n
  <2>1. Len(stack) \in Nat
    BY <1>2, LenProperties
  <2>2. Len(stack) = n + 1
    BY <1>3, <2>1
  <2>3. QED
    BY <1>2, <1>4, <2>2, LenProperties
<1>6. Bounded'
  <2>1. \A i \in DOMAIN stack' : i \in DOMAIN stack /\ stack'[i] = stack[i]
    BY <1>4, <1>5
  <2>2. n <= IntervalDepth + Cardinality(Retired(active))
    BY <1>5, DepthIsANumber, DepthIsBounded DEF Bounded
  <2>3. needToSplit /\ target = Interval => n < IntervalDepth
    BY <1>5, DepthIsANumber DEF Bounded
  <2>4. QED
    BY <1>1, <1>4, <2>1, <2>2, <2>3 DEF Bounded, MostCases, Retired
<1>7. Below(Remaining', Remaining)
  <2>1. PICK m \in 1 .. Depth : m = n + 1
    BY <1>5, EntryDepth
  <2>2. Ahead(m) = 1
    <3>1. stack[m].alts = <<>> /\ m <= Len(stack)
      BY <1>1, <1>5, <2>1
    <3>2. QED
      BY <3>1 DEF Ahead
  <2>3. Ahead(m)' = 0
    BY <1>1, <1>4, <2>1 DEF Ahead
  <2>4. \A j \in 1 .. m - 1 : Ahead(j)' = Ahead(j)
    <3>1. \A j \in 1 .. m - 1 : j \in 1 .. n /\ j <= Len(stack) /\ j <= Len(stack')
      BY <1>4, <1>5, <2>1
    <3>2. QED
      BY <1>4, <3>1 DEF Ahead
  <2>5. QED
    BY <2>2, <2>3, <2>4, LevelFalls
<1>8. QED
  BY <1>6, <1>7 DEF Advances

\* The alternative that is tried is no longer ahead, whatever is below it
LEMMA TryAlternativeAdvances ==
    ASSUME Inv, Inv', Bounded, TryAlternative
    PROVE  Advances
<1>1. PICK n \in Nat : n = Len(stack) /\ DOMAIN stack = 1 .. n
  BY Types DEF Inv
<1>2. stack \in Seq(Entries) /\ n \in DOMAIN stack
  BY <1>1, Types, EmptySeq DEF TryAlternative, Inv
<1>3. PICK old \in Entries : old = stack[n] /\ old.alts \in Seq(Regions)
  BY <1>1, <1>2, Types DEF Inv
<1> DEFINE new == [current |-> Head(old.alts), alts |-> Tail(old.alts),
                   implied |-> {}, pl |-> old.pl]
<1>4. /\ pc = "backtrack" /\ pc' \in {"solve", "backtrack"} /\ needToSplit' = FALSE
      /\ old.alts # <<>> /\ active' = old.pl.active
  BY <1>1, <1>3 DEF TryAlternative, Last
<1>5. stack' = [stack EXCEPT ![n] = new]
  <2>1. stack' = [stack EXCEPT ![n] =
                     [old EXCEPT !.current = Head(old.alts), !.alts = Tail(old.alts),
                                 !.implied = {}]]
    BY <1>1, <1>3 DEF TryAlternative, Last
  <2>2. QED
    BY <2>1, EntryNext
<1>6. Len(Tail(old.alts)) \in Nat /\ Len(old.alts) = Len(Tail(old.alts)) + 1
  BY <1>3, <1>4, HeadTailProperties, LenProperties, EmptySeq
<1>7. /\ Len(stack') = n /\ DOMAIN stack' = 1 .. n /\ stack'[n] = new
      /\ \A i \in 1 .. n : i # n => stack'[i] = stack[i]
  <2>1. stack \in Seq(Entries \cup {new}) /\ new \in Entries \cup {new}
    BY <1>2, SeqDef
  <2> HIDE DEF new
  <2>2. QED
    BY <1>1, <1>2, <1>5, <2>1, ExceptSeq, LenProperties
<1>8. Bounded'
  <2>1. \A i \in DOMAIN stack' : /\ Len(stack'[i].alts) < MostCases
                                 /\ stack'[i].pl = stack[i].pl
    <3>1. SUFFICES ASSUME NEW i \in DOMAIN stack'
                   PROVE  Len(stack'[i].alts) < MostCases /\ stack'[i].pl = stack[i].pl
      OBVIOUS
    <3>2. CASE i # n
      BY <1>1, <1>7, <3>1, <3>2 DEF Bounded
    <3>3. CASE i = n
      <4>1. stack'[i].alts = Tail(old.alts) /\ stack'[i].pl = old.pl
        BY <1>7, <3>3
      <4>2. Len(old.alts) < MostCases /\ MostCases \in Nat
        BY <1>2, <1>3, DepthIsBounded DEF Bounded
      <4>3. QED
        BY <1>3, <1>6, <3>3, <4>1, <4>2
    <3>4. QED
      BY <3>2, <3>3
  <2>2. n <= IntervalDepth + Cardinality(Retired(active'))
    BY <1>2, <1>3, <1>4 DEF Bounded
  <2>3. QED
    BY <1>1, <1>4, <1>7, <2>1, <2>2 DEF Bounded, MostCases, Retired
<1>9. Below(Remaining', Remaining)
  <2>1. n \in 1 .. Depth
    BY <1>2, EntryDepth
  <2>2. Ahead(n) = Len(old.alts) + 1
    BY <1>1, <1>3 DEF Ahead
  <2>3. Ahead(n)' = Len(Tail(old.alts)) + 1
    <3>1. stack'[n].alts = Tail(old.alts) /\ n <= Len(stack')
      BY <1>7
    <3>2. QED
      BY <3>1 DEF Ahead
  <2>4. \A j \in 1 .. n - 1 : Ahead(j)' = Ahead(j)
    <3>1. \A j \in 1 .. n - 1 : j \in 1 .. n /\ j # n /\ j <= Len(stack) /\ j <= Len(stack')
      BY <1>1, <1>7
    <3>2. QED
      BY <1>7, <3>1 DEF Ahead
  <2>5. QED
    BY <1>6, <2>1, <2>2, <2>3, <2>4, LevelFalls
<1>10. QED
  BY <1>8, <1>9 DEF Advances

\* The excused steps, and those that change nothing, keep the stack within its bounds
LEMMA BoundedExcused ==
    ASSUME Inv, Bounded, Excused \/ UNCHANGED vars
    PROVE  Bounded'
<1> USE DEF Excused, RestorePrecision, AbandonSearch, AcceptNoBetter, AcceptProposal
<1>1. UNCHANGED <<active, stack>>
  BY DEF vars, plState
<1>2. needToSplit' /\ target' = Interval => Len(stack) < IntervalDepth
  BY DEF vars, splitState, Bounded
<1>3. pc' \in {"search", "propose"} => ~needToSplit' /\ Active' # {}
  BY <1>1 DEF vars, splitState, Bounded, Active
<1>4. Active' = Active
  BY <1>1 DEF Active
<1>5. QED
  BY <1>1, <1>2, <1>3, <1>4, SameStack, BoundedStep

\* An empty stack is within its bounds
LEMMA BoundedInitially == Init => Bounded
<1>1. SUFFICES ASSUME Init PROVE Bounded
  OBVIOUS
<1>2. stack = <<>> /\ needToSplit = FALSE /\ pc = "solve"
  BY <1>1 DEF Init
<1>3. Len(stack) = 0 /\ DOMAIN stack = {}
  BY <1>2
<1>4. 0 <= IntervalDepth + Cardinality(Retired(active))
  BY DepthIsANumber, DepthIsBounded
<1>5. QED
  BY <1>2, <1>3, <1>4 DEF Bounded

\* Every step that is not excused
LEMMA NextAdvances ==
    ASSUME Inv, Inv', Bounded, Next, ~Excused
    PROVE  Advances
<1>1. CASE ApplyValidSplits \/ Tighten \/ FixPhase
  BY <1>1, ApplyValidSplitsAdvances, TightenAdvances, FixPhaseAdvances
<1>2. CASE CheckAssignment
  BY <1>2, CheckAssignmentAdvances
<1>3. CASE JudgeOptimum \/ LeaveSearch \/ RejectProposal \/ (AcceptProposal /\ ~AcceptNoBetter)
  BY <1>3, LocalSearchAdvances
<1>4. CASE ForgetTarget
  BY <1>4, ForgetAdvances
<1>5. CASE Infeasible \/ SplitOnNull \/ PopNothing \/ Interrupted
  BY <1>5, TurnAdvances
<1>6. CASE PerformSplit
  BY <1>6, PerformSplitAdvances
<1>7. CASE PopExhausted
  BY <1>7, PopExhaustedAdvances
<1>8. CASE TryAlternative
  BY <1>8, TryAlternativeAdvances
<1>9. QED
  BY <1>1, <1>2, <1>3, <1>4, <1>5, <1>6, <1>7, <1>8 DEF Next, Excused

\* Every step but a restored precision, a local search cut short and a proposal accepted
\* that costs no less leaves less of the search to be done, for any query, any number of
\* constraints, phases and costs, with or without local search and input splits
\* (Engine.cpp:231-420, 3055-3180, SmtCore.cpp:97-330).
THEOREM SearchMovesForward == Spec => StepsForward
<1>1. Init => Bounded
  BY BoundedInitially
<1>2. Inv /\ Inv' /\ Bounded /\ [Next]_vars => Bounded'
  BY NextAdvances, BoundedExcused DEF Advances
<1>3. Inv /\ Inv' /\ Bounded /\ [Next]_vars =>
          [~Excused => Below(Remaining', Remaining)]_vars
  BY NextAdvances DEF Advances
<1>4. QED
  BY <1>1, <1>2, <1>3, Invariance, PTL DEF Spec, StepsForward

\* What can be left of a search, whose order no sequence of searches descends for ever
Things == Constraints \cup Points \cup Nat \cup (Constraints \X Nat)

Measures == [1 .. Depth + 7 -> FiniteSubsetsOf(Things)]

Falling == {pair \in Measures \X Measures : Below(pair[1], pair[2])}

\* Sequences of finite sets of one length are well-founded, first difference first
LEMMA FallingEnds == IsWellFoundedOn(Falling, Measures)
<1> DEFINE order == LexProductOrdering(StrictSubsetOrdering(Things), FiniteSubsetsOf(Things), Depth + 7)
<1>1. Depth + 7 \in Nat
  BY DepthIsBounded
<1>2. IsWellFoundedOn(order, Measures)
  BY <1>1, FS_StrictSubsetOrderingWellFounded, WFLexProductOrdering DEF Measures
<1>3. Falling \cap (Measures \X Measures) \subseteq order
  <2>1. SUFFICES ASSUME NEW v \in Measures, NEW w \in Measures, Below(v, w)
                 PROVE  <<v, w>> \in order
    BY DEF Falling
  <2>2. DOMAIN w = 1 .. Depth + 7
    BY DEF Measures
  <2>3. PICK i \in 1 .. Depth + 7 : /\ v[i] \subseteq w[i] /\ v[i] # w[i]
                                   /\ \A j \in 1 .. i - 1 : v[j] = w[j]
    BY <2>1, <2>2 DEF Below
  <2>4. v[i] \in SUBSET Things /\ w[i] \in SUBSET Things
    BY DEF Measures, FiniteSubsetsOf
  <2>5. <<v[i], w[i]>> \in StrictSubsetOrdering(Things)
    BY <2>3, <2>4 DEF StrictSubsetOrdering
  <2>6. QED
    BY <2>3, <2>5 DEF LexProductOrdering, Measures
<1>4. QED
  BY <1>2, <1>3, IsWellFoundedOnSubrelation

\* What is left of a search is such a sequence
LEMMA RemainingTyped ==
    ASSUME Inv, IsFiniteSet(Points)
    PROVE  Remaining \in Measures
<1> DEFINE S == FiniteSubsetsOf(Things)
<1>1. Depth \in Nat
  BY DepthIsBounded
<1>2. ASSUME NEW n \in Nat PROVE 1 .. n \in S
  BY FS_Interval DEF FiniteSubsetsOf, Things
<1>3. Levels \in Seq(S) /\ Len(Levels) = Depth
  <2>1. \A i \in 1 .. Depth : 1 .. Ahead(i) \in S
    BY <1>2, AheadTypes
  <2> HIDE DEF S
  <2>2. Levels \in [1 .. Depth -> S]
    BY <2>1 DEF Levels
  <2>3. QED
    BY <1>1, <2>2
<1>4. /\ Active \in S /\ Candidates \in S /\ box \in S /\ 1 .. Stage \in S
      /\ RejectionsLeft \in S /\ ReportsLeft \in S /\ 1 .. LooksLeft \in S
  <2>1. Active \in S /\ Candidates \in S
    BY ConstraintsAreFinite, FS_Subset DEF FiniteSubsetsOf, Things, Active, Candidates
  <2>2. box \in S
    <3>1. box \in SUBSET Points
      BY Control DEF StateTyped, Regions
    <3>2. QED
      BY <3>1, FS_Subset DEF FiniteSubsetsOf, Things
  <2>3. 1 .. Stage \in S
    <3>1. Stage \in Nat
      BY StageTypes
    <3>2. QED
      BY <1>2, <3>1
  <2>4. Threshold \in Nat /\ IsFiniteSet(1 .. Threshold) /\ 1 .. Threshold \subseteq Nat
    BY ThresholdIsPositive, FS_Interval
  <2>5. RejectionsLeft \in S
    BY <2>4, FS_Subset DEF FiniteSubsetsOf, Things, RejectionsLeft
  <2>6. ReportsLeft \in S
    <3>1. IsFiniteSet(Constraints \X (1 .. Threshold))
      BY <2>4, ConstraintsAreFinite, FS_Product
    <3>2. ReportsLeft \in SUBSET (Constraints \X (1 .. Threshold))
      BY DEF ReportsLeft
    <3>3. ReportsLeft \subseteq Constraints \X Nat
      BY <2>4, <3>2
    <3>4. QED
      BY <3>1, <3>2, <3>3, FS_Subset DEF FiniteSubsetsOf, Things
  <2>7. 1 .. LooksLeft \in S
    <3>1. LooksLeft \in Nat
      BY LooksTypes, CostsAreNumbers
    <3>2. QED
      BY <1>2, <3>1
  <2>8. QED
    BY <2>1, <2>2, <2>3, <2>5, <2>6, <2>7
<1> HIDE DEF S
<1>5. Node \in Seq(S) /\ Len(Node) = 7
  BY <1>4 DEF Node
<1>6. Remaining \in Seq(S) /\ Len(Remaining) = Depth + 7
  <2> HIDE DEF Depth
  <2>1. /\ Levels \o Node \in Seq(S)
        /\ Len(Levels \o Node) = Len(Levels) + Len(Node)
    BY <1>3, <1>5, ConcatProperties
  <2>2. QED
    BY <1>3, <1>5, <2>1, Zenon DEF Remaining
<1>7. Remaining \in [1 .. Depth + 7 -> S]
  <2>1. Depth + 7 \in Nat
    BY <1>1
  <2>2. QED
    BY <1>6, <2>1, LenProperties, ElementOfSeq
<1>8. QED
  BY <1>7 DEF Measures, S

\* With finitely many assignments every step but a restored precision, a local search cut
\* short and a proposal accepted that costs no less descends in an order without an endless
\* descent: a search that goes on for ever takes one of these three for ever
\* (Engine.cpp:231-420, 3055-3180, SmtCore.cpp:97-330).
THEOREM NoEndlessSearch ==
    ASSUME IsFiniteSet(Points)
    PROVE  /\ Spec => [][~Excused => <<Remaining', Remaining>> \in Falling]_vars
           /\ IsWellFoundedOn(Falling, Measures)
<1>1. Inv => Remaining \in Measures
  BY RemainingTyped
<1>2. Spec => [](Remaining \in Measures)
  BY <1>1, Invariance, PTL
<1>3. Measures' = Measures
  BY DEF Measures, Depth, Things
<1>4. /\ Remaining \in Measures /\ (Remaining \in Measures)'
      /\ [~Excused => Below(Remaining', Remaining)]_vars
      => [~Excused => <<Remaining', Remaining>> \in Falling]_vars
  BY <1>3 DEF Falling
<1>5. Spec => [][~Excused => <<Remaining', Remaining>> \in Falling]_vars
  BY <1>2, <1>4, SearchMovesForward, PTL DEF StepsForward
<1>6. QED
  BY <1>5, FallingEnds
-----------------------------------------------------------------------------
(***************************************************************************)
(* A search that replays the stack of one that timed out (SearchRestore).  *)
(* The context is not pushed with the entries, so Inv does not hold: an    *)
(* entry may have no level, and an inactive constraint may be violated.    *)
(* UNSAT is right all the same.  A pop with no level left never gets to    *)
(* an answer, and a solution the pops pass over is always in an entry      *)
(* whose level is there, or in the entries not replayed yet.               *)
(***************************************************************************)
\* The level of entry i: of the bounds saved for the entries those of the last ones are
\* there, and an entry below them has none
Level(i) == i + Len(ctx) - Len(stack)

\* The levels are those of the last entries, and there is one while entries are replayed
ReplayTyped ==
    /\ StateTyped
    /\ QueryTyped
    /\ Len(ctx) <= Len(stack) + 1
    /\ Replaying => toReplay \in Seq(Entries) /\ pc = "solve" /\ ctx = <<Points>>

\* The known phases are right for p
PhasesAllow(p, pl) ==
    \A c \in Constraints : pl.active[c] /\ pl.phase[c] # NotFixed => p \in problem.piece[c][pl.phase[c]]

\* Entry i is the first to exclude p, and it will bring p back
Brings(p, i) ==
    /\ Skewed(p, i)
    /\ \E a \in DOMAIN stack[i].alts : p \in stack[i].alts[a]
    /\ PhasesAllow(p, stack[i].pl)
    /\ Level(i) >= 1 => p \in ctx[Level(i)]

\* The splits of an entry allow p
EntryAllows(entry, p) == Allows(entry.current, p) /\ \A r \in entry.implied : Allows(r, p)

\* The entries to be replayed allow p, or the first that does not has p among its alternatives
Promised(p, entries) ==
    \/ \A j \in DOMAIN entries : EntryAllows(entries[j], p)
    \/ \E i \in DOMAIN entries :
          /\ \A j \in 1 .. i - 1 : EntryAllows(entries[j], p)
          /\ ~Allows(entries[i].current, p)
          /\ \E a \in DOMAIN entries[i].alts : p \in entries[i].alts[a]

\* p is in the branch that is searched
Present(p) ==
    /\ Compliant(p) /\ p \in box /\ pc # "backtrack"
    /\ PhasesAllow(p, PLState)
    /\ Replaying => Promised(p, toReplay)

\* Every solution is somewhere
KeptOrPromised == \A p \in Solutions : Present(p) \/ \E i \in DOMAIN stack : Brings(p, i)

\* The inductive invariant of a search that restores a stack
ReplayInv == ReplayTyped /\ KeptOrPromised /\ UnsatMeansNone
-----------------------------------------------------------------------------
\* What the types say of the sequences
LEMMA ReplayTypes ==
    ASSUME ReplayTyped
    PROVE  /\ stack \in Seq(Entries) /\ Len(stack) \in Nat /\ DOMAIN stack = 1 .. Len(stack)
           /\ ctx \in Seq(Regions) /\ Len(ctx) \in Nat /\ Len(ctx) <= Len(stack) + 1
           /\ box \in Regions /\ active \in [Constraints -> BOOLEAN]
           /\ phase \in [Constraints -> Phases \cup {NotFixed}]
           /\ \A i \in DOMAIN stack :
                /\ stack[i] \in Entries
                /\ stack[i].alts \in Seq(Regions)
                /\ DOMAIN stack[i].alts = 1 .. Len(stack[i].alts)
           /\ \A c \in Constraints, ph \in Phases : problem.piece[c][ph] \in Regions
<1>1. /\ stack \in Seq(Entries) /\ ctx \in Seq(Regions) /\ Len(ctx) <= Len(stack) + 1
      /\ box \in Regions /\ active \in [Constraints -> BOOLEAN]
      /\ phase \in [Constraints -> Phases \cup {NotFixed}]
      /\ \A c \in Constraints, ph \in Phases : problem.piece[c][ph] \in Regions
  BY DEF ReplayTyped, StateTyped, QueryTyped
<1>2. /\ Len(stack) \in Nat /\ DOMAIN stack = 1 .. Len(stack) /\ Len(ctx) \in Nat
      /\ \A i \in DOMAIN stack : stack[i] \in Entries
  BY <1>1, LenProperties, ElementOfSeq
<1>3. \A i \in DOMAIN stack : stack[i].alts \in Seq(Regions)
  BY <1>2 DEF Entries
<1>4. \A i \in DOMAIN stack : DOMAIN stack[i].alts = 1 .. Len(stack[i].alts)
  BY <1>3, LenProperties
<1>. QED
  BY <1>1, <1>2, <1>3, <1>4

\* A known phase that is right for all points of its constraint is right for a solution
LEMMA PhasesOfSolution ==
    ASSUME ReplayTyped, NEW p \in Solutions, PhasesAllow(p, PLState)
    PROVE  \A r \in ValidRegions : p \in r
BY DEF ValidRegions, PendingValid, Active, Candidates, PhasesAllow, PLState

\* The exit code is not UNSAT, or was before
LEMMA UnsatKept ==
    ASSUME UnsatMeansNone, UNCHANGED query, exitCode' = exitCode \/ exitCode' # "UNSAT"
    PROVE  UnsatMeansNone'
BY QueryKept DEF UnsatMeansNone

\* Steps that leave the stack alone
LEMMA QuietReplay ==
    ASSUME ReplayInv, UNCHANGED <<query, ctx, stack, rootImplied, toReplay>>,
           box' \in SUBSET box, box \cap Solutions \subseteq box',
           active' \in [Constraints -> BOOLEAN], phase' \in [Constraints -> Phases \cup {NotFixed}],
           \A p \in Solutions : p \in box /\ PhasesAllow(p, PLState) => PhasesAllow(p, PLState)',
           pc' = "backtrack" => pc = "backtrack" \/ box' = {},
           Replaying => pc' = pc,
           exitCode' = exitCode \/ exitCode' # "UNSAT"
    PROVE  ReplayInv'
<1>1. problem' = problem /\ region' = region /\ Solutions' = Solutions
  BY QueryKept
<1>2. Replaying' = Replaying
  BY DEF Replaying
<1>3. ReplayTyped'
  <2>1. StateTyped'
    BY DEF ReplayInv, ReplayTyped, StateTyped, Regions
  <2>. QED
    BY <1>1, <1>2, <2>1 DEF ReplayInv, ReplayTyped, QueryTyped
<1>4. KeptOrPromised'
  <2>1. SUFFICES ASSUME NEW p \in Solutions
                 PROVE  Present(p)' \/ \E i \in DOMAIN stack : Brings(p, i)'
    BY <1>1 DEF KeptOrPromised
  <2>2. CASE Present(p)
    <3>1. Compliant(p)' /\ p \in box' /\ pc' # "backtrack"
      BY <2>2 DEF Present, Compliant, ImpliedAllow, Allows
    <3>2. PhasesAllow(p, PLState)'
      BY <2>2 DEF Present
    <3>3. Replaying' => Promised(p, toReplay)'
      BY <1>2, <2>2 DEF Present, Promised, EntryAllows, Allows
    <3>. QED
      BY <3>1, <3>2, <3>3 DEF Present
  <2>3. ASSUME NEW i \in DOMAIN stack, Brings(p, i)
        PROVE  Brings(p, i)'
    BY <1>1, <2>3 DEF Brings, Skewed, ImpliedAllow, Allows, Level, PhasesAllow
  <2>. QED
    BY <2>2, <2>3 DEF ReplayInv, KeptOrPromised
<1>5. UnsatMeansNone'
  BY UnsatKept DEF ReplayInv
<1>. QED
  BY <1>3, <1>4, <1>5 DEF ReplayInv

\* RecordFacts needs only the types
LEMMA RecordSame ==
    ASSUME ReplayTyped, NEW V \in SUBSET Regions, RecordImplied(V)
    PROVE  /\ stack' \in Seq(Entries) /\ Len(stack') = Len(stack)
           /\ rootImplied' \subseteq Regions
           /\ stack = <<>> => rootImplied' = rootImplied \cup V
           /\ stack # <<>> => rootImplied' = rootImplied
           /\ \A i \in DOMAIN stack :
                /\ stack'[i].current = stack[i].current
                /\ stack'[i].alts = stack[i].alts
                /\ stack'[i].pl = stack[i].pl
                /\ stack'[i].implied =
                      IF i = Len(stack) THEN stack[i].implied \cup V ELSE stack[i].implied
BY RecordFacts DEF ReplayTyped

\* The cases of the known phases are applied
LEMMA AppliedReplay ==
    ASSUME ReplayInv, ApplyAllValidSplits, UNCHANGED <<query, ctx, phase, toReplay>>,
           pc # "backtrack", pc' # "backtrack", Replaying => pc' = pc,
           exitCode' = exitCode \/ exitCode' # "UNSAT"
    PROVE  ReplayInv'
<1>1. problem' = problem /\ region' = region /\ Solutions' = Solutions
  BY QueryKept
<1>2. Replaying' = Replaying
  BY DEF Replaying
<1>3. ReplayTyped
  BY DEF ReplayInv
<1>4. ValidRegions \subseteq Regions
  <2>1. \A c \in PendingValid : c \in Constraints /\ phase[c] \in Phases
    BY <1>3, ReplayTypes DEF PendingValid, Active, Candidates
  <2>. QED
    BY <1>3, <2>1, ReplayTypes DEF ValidRegions
<1>5. /\ stack' \in Seq(Entries) /\ Len(stack') = Len(stack)
      /\ rootImplied' \subseteq Regions
      /\ stack = <<>> => rootImplied' = rootImplied \cup ValidRegions
      /\ stack # <<>> => rootImplied' = rootImplied
      /\ \A i \in DOMAIN stack :
           /\ stack'[i].current = stack[i].current
           /\ stack'[i].alts = stack[i].alts
           /\ stack'[i].pl = stack[i].pl
           /\ stack'[i].implied =
                 IF i = Len(stack) THEN stack[i].implied \cup ValidRegions ELSE stack[i].implied
  BY <1>3, <1>4, RecordSame DEF ApplyAllValidSplits
<1>6. /\ Len(stack) \in Nat /\ DOMAIN stack = 1 .. Len(stack) /\ DOMAIN stack' = DOMAIN stack
      /\ stack = <<>> <=> Len(stack) = 0
  BY <1>3, <1>5, ReplayTypes, LenProperties, EmptySeq
<1>7. /\ box' \subseteq box
      /\ \A q \in box : (\A r \in ValidRegions : q \in r) => q \in box'
      /\ \A c \in Constraints : active'[c] <=> (active[c] /\ c \notin PendingValid)
      /\ active' \in [Constraints -> BOOLEAN]
  BY <1>3, ReplayTypes DEF ApplyAllValidSplits, ApplyValid, AllowedBy, Regions
<1>8. ReplayTyped'
  <2>1. StateTyped'
    BY <1>3, <1>5, <1>7 DEF ReplayTyped, StateTyped, Regions
  <2>. QED
    BY <1>1, <1>2, <1>3, <1>5, <2>1 DEF ReplayTyped, QueryTyped
<1>9. KeptOrPromised'
  <2>1. SUFFICES ASSUME NEW p \in Solutions
                 PROVE  Present(p)' \/ \E i \in DOMAIN stack' : Brings(p, i)'
    BY <1>1 DEF KeptOrPromised
  <2>2. CASE Present(p)
    <3>1. \A r \in ValidRegions : p \in r
      BY <1>3, <2>2, PhasesOfSolution DEF Present
    <3>2. p \in box'
      BY <1>7, <2>2, <3>1 DEF Present
    <3>3. Compliant(p)'
      <4>1. \A r \in rootImplied' : p \in r
        BY <1>5, <2>2, <3>1 DEF Present, Compliant, ImpliedAllow, Allows
      <4>2. \A j \in DOMAIN stack : p \in stack'[j].current /\ \A r \in stack'[j].implied : p \in r
        BY <1>5, <1>6, <2>2, <3>1 DEF Present, Compliant, ImpliedAllow, Allows
      <4>. QED
        BY <1>5, <1>6, <4>1, <4>2 DEF Compliant, ImpliedAllow, Allows
    <3>4. PhasesAllow(p, PLState)'
      BY <1>1, <1>7, <2>2 DEF Present, PhasesAllow, PLState
    <3>5. Replaying' => Promised(p, toReplay)'
      BY <1>2, <2>2 DEF Present, Promised, EntryAllows, Allows
    <3>. QED
      BY <3>2, <3>3, <3>4, <3>5 DEF Present
  <2>3. ASSUME NEW i \in DOMAIN stack, Brings(p, i)
        PROVE  Brings(p, i)'
    <3>1. stack # <<>>
      BY <1>6
    <3>2. rootImplied' = rootImplied /\ \A j \in 1 .. i - 1 : stack'[j].implied = stack[j].implied /\ stack'[j].current = stack[j].current
      <4>1. \A j \in 1 .. i - 1 : j \in DOMAIN stack /\ j # Len(stack)
        <5>1. i \in 1 .. Len(stack) /\ Len(stack) \in Nat
          BY <1>6
        <5>2. \A j \in 1 .. i - 1 : j \in 1 .. Len(stack) /\ j # Len(stack)
          BY <5>1
        <5>. QED
          BY <1>6, <5>2
      <4>. QED
        BY <1>5, <3>1, <4>1
    <3>3. Skewed(p, i)'
      BY <1>5, <2>3, <3>2 DEF Brings, Skewed, ImpliedAllow, Allows
    <3>4. Level(i)' = Level(i)
      BY <1>5 DEF Level
    <3>. QED
      BY <1>1, <1>5, <2>3, <3>3, <3>4 DEF Brings, PhasesAllow
  <2>. QED
    BY <1>6, <2>2, <2>3 DEF ReplayInv, KeptOrPromised
<1>10. UnsatMeansNone'
  BY UnsatKept DEF ReplayInv
<1>. QED
  BY <1>8, <1>9, <1>10 DEF ReplayInv

\* The levels of the entries below are what they were
LEMMA LevelFacts ==
    ASSUME ReplayTyped, NEW i \in DOMAIN stack
    PROVE  Level(i) \in Int /\ Level(i) <= Len(ctx) /\ (i # Len(stack) => Level(i) <= Len(ctx) - 1)
<1>1. /\ Len(stack) \in Nat /\ Len(ctx) \in Nat /\ i \in 1 .. Len(stack)
  BY ReplayTypes
<1>. QED
  BY <1>1 DEF Level

\* A split: the bounds are stored, and a solution is in its first case or held by its entry
LEMMA PerformSplitReplay ==
    ASSUME ReplayInv, PerformSplit, ~Replaying, UNCHANGED toReplay
    PROVE  ReplayInv'
<1>0. PICK n : n = Len(stack)
  OBVIOUS
<1>1. /\ pc = "solve" /\ PendingValid = {} /\ target \in Active \cup {Interval}
      /\ active' = [c \in Constraints |-> active[c] /\ c # target]
      /\ ctx' = Append(ctx, box)
      /\ UNCHANGED <<query, phase, rootImplied, pc, outcome>>
  BY DEF PerformSplit
<1>2. PICK splits \in CaseSplits :
        /\ box' = box \cap splits[1]
        /\ stack' = Append(stack, [current |-> splits[1], alts |-> Tail(splits),
                                   implied |-> {}, pl |-> [active |-> active', phase |-> phase]])
  BY DEF PerformSplit
<1> DEFINE entry == [current |-> splits[1], alts |-> Tail(splits),
                     implied |-> {}, pl |-> [active |-> active', phase |-> phase]]
<1>3. problem' = problem /\ region' = region /\ Solutions' = Solutions
  BY <1>1, QueryKept
<1>4. ReplayTyped /\ QueryTyped /\ ~Replaying'
  BY DEF ReplayInv, ReplayTyped, Replaying
<1>5. /\ splits[1] \in Regions /\ Tail(splits) \in Seq(Regions)
      /\ \A p \in Whole : p \in splits[1] \/ \E a \in DOMAIN Tail(splits) : p \in Tail(splits)[a]
  BY <1>1, <1>2, <1>4, CasesOfQuery DEF Active
<1>6. /\ active' \in [Constraints -> BOOLEAN]
      /\ \A c \in Constraints : active'[c] <=> (active[c] /\ c # target)
      /\ box' \in Regions /\ box \in Regions /\ phase \in [Constraints -> Phases \cup {NotFixed}]
  BY <1>1, <1>2, <1>4, <1>5, ReplayTypes DEF Regions
<1>7. entry \in Entries
  BY <1>1, <1>5, <1>6 DEF Entries, PLStates
<1>8. /\ stack \in Seq(Entries) /\ n \in Nat /\ DOMAIN stack = 1 .. n
      /\ ctx \in Seq(Regions) /\ Len(ctx) \in Nat /\ Len(ctx) <= n + 1
  BY <1>0, <1>4, ReplayTypes
<1>9. /\ stack' \in Seq(Entries) /\ Len(stack') = n + 1
      /\ \A i \in 1 .. n : stack'[i] = stack[i]
      /\ stack'[n + 1] = entry
  BY <1>0, <1>2, <1>7, <1>8, AppendProperties
<1>10. /\ ctx' \in Seq(Regions) /\ Len(ctx') = Len(ctx) + 1
       /\ \A i \in 1 .. Len(ctx) : ctx'[i] = ctx[i]
       /\ ctx'[Len(ctx) + 1] = box
  BY <1>1, <1>6, <1>8, AppendProperties
<1>11. DOMAIN stack' = 1 .. n + 1 /\ (\A i \in 1 .. n + 1 : i \in 1 .. n \/ i = n + 1) /\ n + 1 \in 1 .. n + 1
       /\ \A i \in 1 .. n : i \in 1 .. n + 1
  BY <1>8, <1>9, LenProperties
<1>12. ReplayTyped'
  <2>1. StateTyped'
    BY <1>1, <1>4, <1>6, <1>9, <1>10 DEF ReplayTyped, StateTyped
  <2>2. Len(ctx') <= Len(stack') + 1
    BY <1>8, <1>9, <1>10
  <2>. QED
    BY <1>3, <1>4, <2>1, <2>2 DEF ReplayTyped, QueryTyped
<1>13. ASSUME NEW i \in 1 .. n PROVE Level(i)' = Level(i) /\ (Level(i) >= 1 => ctx'[Level(i)] = ctx[Level(i)])
  <2>1. Level(i)' = Level(i)
    BY <1>0, <1>8, <1>9, <1>10 DEF Level
  <2>2. Level(i) \in Int /\ Level(i) <= Len(ctx)
    BY <1>4, <1>8, LevelFacts
  <2>. QED
    BY <1>8, <1>10, <2>1, <2>2
<1>14. KeptOrPromised'
  <2>1. SUFFICES ASSUME NEW p \in Solutions
                 PROVE  Present(p)' \/ \E i \in DOMAIN stack' : Brings(p, i)'
    BY <1>3 DEF KeptOrPromised
  <2>2. ASSUME NEW i \in DOMAIN stack, Brings(p, i)
        PROVE  i \in DOMAIN stack' /\ Brings(p, i)'
    <3>1. i \in 1 .. n /\ \A j \in 1 .. i - 1 : j \in 1 .. n
      BY <1>8
    <3>2. stack'[i] = stack[i] /\ \A j \in 1 .. i - 1 : stack'[j] = stack[j]
      BY <1>9, <3>1
    <3>3. Skewed(p, i)'
      BY <1>1, <2>2, <3>2 DEF Brings, Skewed, ImpliedAllow, Allows
    <3>4. PhasesAllow(p, stack[i].pl)'
      BY <1>3, <2>2, <3>2 DEF Brings, PhasesAllow
    <3>5. Level(i)' >= 1 => p \in ctx'[Level(i)']
      BY <1>13, <2>2, <3>1 DEF Brings
    <3>. QED
      BY <1>11, <2>2, <3>1, <3>2, <3>3, <3>4, <3>5 DEF Brings
  <2>3. CASE Present(p)
    <3>0. Compliant(p) /\ p \in box /\ PhasesAllow(p, PLState)
      BY <2>3 DEF Present
    <3>1. p \in Whole
      BY <1>1, <1>6, <3>0, SolutionFacts DEF Whole, Active, Regions
    <3>2. \A j \in 1 .. n : stack'[j] = stack[j]
      BY <1>9
    <3>3. PhasesAllow(p, [active |-> active', phase |-> phase])
      BY <1>6, <3>0 DEF PhasesAllow, PLState
    <3>4. CASE p \in splits[1]
      <4>1. \A j \in 1 .. n + 1 : /\ \A r \in stack'[j].implied : p \in r
                                  /\ p \in stack'[j].current
        BY <1>0, <1>8, <1>9, <1>11, <3>0, <3>2, <3>4, SMTT(30) DEF Compliant, ImpliedAllow, Allows
      <4>2. Compliant(p)'
        BY <1>0, <1>1, <1>9, <1>11, <3>0, <4>1 DEF Compliant, ImpliedAllow, Allows
      <4>3. PhasesAllow(p, PLState)'
        BY <1>1, <1>3, <3>3 DEF PhasesAllow, PLState
      <4>. QED
        BY <1>1, <1>2, <1>4, <3>0, <3>4, <4>2, <4>3 DEF Present
    <3>5. CASE p \notin splits[1]
      <4>1. PICK a \in DOMAIN Tail(splits) : p \in Tail(splits)[a]
        BY <1>5, <3>1, <3>5
      <4>2. Tail(splits) # <<>> /\ (n + 1) - 1 = n
        BY <1>8, <4>1
      <4>3. /\ stack'[n + 1].current = splits[1] /\ stack'[n + 1].alts = Tail(splits)
            /\ stack'[n + 1].pl = [active |-> active', phase |-> phase]
        BY <1>9
      <4>4. Skewed(p, n + 1)'
        BY <1>0, <1>1, <1>8, <3>0, <3>2, <3>5, <4>2, <4>3 DEF Compliant, Skewed, ImpliedAllow, Allows
      <4>5. Level(n + 1)' = Len(ctx) + 1
        BY <1>8, <1>9, <1>10 DEF Level
      <4>6. PhasesAllow(p, stack[n + 1].pl)'
        BY <1>3, <3>3, <4>3 DEF PhasesAllow
      <4>7. Brings(p, n + 1)'
        BY <1>10, <3>0, <4>1, <4>3, <4>4, <4>5, <4>6 DEF Brings
      <4>. QED
        BY <1>11, <4>7
    <3>. QED
      BY <3>4, <3>5
  <2>. QED
    BY <2>2, <2>3 DEF ReplayInv, KeptOrPromised
<1>15. UnsatMeansNone'
  BY <1>1, UnsatKept DEF ReplayInv, outcome
<1>. QED
  BY <1>12, <1>14, <1>15 DEF ReplayInv

\* An exhausted entry holds no solution, and the levels below it stay
LEMMA PopExhaustedReplay ==
    ASSUME ReplayInv, PopExhausted, ~Replaying, UNCHANGED toReplay, ctx # <<>>
    PROVE  ReplayInv'
<1>1. /\ pc = "backtrack" /\ stack # <<>> /\ stack[Len(stack)].alts = <<>>
      /\ ctx' = Front(ctx) /\ stack' = Front(stack)
      /\ UNCHANGED <<query, box, plState, rootImplied, splitState, pc, outcome>>
  BY DEF PopExhausted, Last
<1>2. problem' = problem /\ region' = region /\ Solutions' = Solutions
  BY <1>1, QueryKept
<1>3. ReplayTyped /\ ~Replaying'
  BY DEF ReplayInv, Replaying
<1>4. /\ stack \in Seq(Entries) /\ Len(stack) \in Nat /\ DOMAIN stack = 1 .. Len(stack)
      /\ ctx \in Seq(Regions) /\ Len(ctx) \in Nat /\ Len(ctx) <= Len(stack) + 1
  BY <1>3, ReplayTypes, SMTT(30)
<1>5. PICK n \in Nat : n = Len(stack) - 1
  BY <1>1, <1>4, FrontFacts, ZenonT(40)
<1>6. /\ stack' \in Seq(Entries) /\ Len(stack') = n
      /\ \A i \in 1 .. n : stack'[i] = stack[i]
  BY <1>1, <1>4, <1>5, FrontFacts
<1>7. /\ ctx' \in Seq(Regions) /\ Len(ctx') = Len(ctx) - 1 /\ Len(ctx) - 1 \in Nat
      /\ \A i \in 1 .. Len(ctx) - 1 : ctx'[i] = ctx[i]
  BY <1>1, <1>4, FrontFacts, SMTT(30)
<1>8. /\ DOMAIN stack' = 1 .. n
      /\ \A i \in 1 .. Len(stack) : i = Len(stack) \/ i \in 1 .. n
      /\ \A i \in 1 .. n : i \in 1 .. Len(stack) /\ i # Len(stack)
  <2>1. DOMAIN stack' = 1 .. n
    BY <1>6, LenProperties
  <2>2. /\ \A i \in 1 .. Len(stack) : i = Len(stack) \/ i \in 1 .. n
        /\ \A i \in 1 .. n : i \in 1 .. Len(stack) /\ i # Len(stack)
    <3>1. ASSUME NEW a \in Nat, NEW b \in Nat, b = a - 1
          PROVE  /\ \A i \in 1 .. a : i = a \/ i \in 1 .. b
                 /\ \A i \in 1 .. b : i \in 1 .. a /\ i # a
      BY <3>1
    <3>. QED
      BY <1>4, <1>5, <3>1, ZenonT(40)
  <2>. QED
    BY <2>1, <2>2
<1>9. ReplayTyped'
  <2>1. StateTyped'
    BY <1>1, <1>3, <1>6, <1>7 DEF ReplayTyped, StateTyped, plState
  <2>2. Len(ctx') <= Len(stack') + 1
    BY <1>4, <1>5, <1>6, <1>7
  <2>. QED
    BY <1>2, <1>3, <2>1, <2>2 DEF ReplayTyped, QueryTyped
<1>10. KeptOrPromised'
  <2>1. SUFFICES ASSUME NEW p \in Solutions PROVE \E i \in DOMAIN stack' : Brings(p, i)'
    BY <1>2 DEF KeptOrPromised
  <2>2. PICK i \in DOMAIN stack : Brings(p, i)
    BY <1>1 DEF ReplayInv, KeptOrPromised, Present
  <2>3. i \in 1 .. n
    BY <1>1, <1>4, <1>8, <2>2 DEF Brings, Skewed
  <2>4. \A j \in 1 .. i - 1 : j \in 1 .. n
    BY <1>5, <2>3
  <2>5. stack'[i] = stack[i] /\ \A j \in 1 .. i - 1 : stack'[j] = stack[j]
    BY <1>6, <2>3, <2>4
  <2>6. Skewed(p, i)'
    BY <1>1, <2>2, <2>5 DEF Brings, Skewed, ImpliedAllow, Allows
  <2>7. Level(i)' = Level(i) /\ Level(i) \in Int /\ Level(i) <= Len(ctx) - 1
    <3>1. i # Len(stack)
      BY <1>8, <2>3
    <3>2. Level(i) \in Int /\ Level(i) <= Len(ctx) - 1
      BY <1>3, <3>1, LevelFacts
    <3>3. Level(i)' = Level(i)
      BY <1>4, <1>5, <1>6, <1>7, <2>3 DEF Level
    <3>. QED
      BY <3>2, <3>3
  <2>8. Level(i)' >= 1 => p \in ctx'[Level(i)']
    BY <1>4, <1>7, <2>2, <2>7 DEF Brings
  <2>9. PhasesAllow(p, stack[i].pl)'
    BY <1>2, <2>2, <2>5 DEF Brings, PhasesAllow
  <2>. QED
    BY <1>8, <2>2, <2>3, <2>5, <2>6, <2>8, <2>9 DEF Brings
<1>11. UnsatMeansNone'
  BY <1>1, UnsatKept DEF ReplayInv, outcome
<1>. QED
  BY <1>9, <1>10, <1>11 DEF ReplayInv

\* The first alternative and those after it are all of them
LEMMA AlternativesSplit ==
    ASSUME NEW alts \in Seq(Regions), alts # <<>>
    PROVE  /\ Head(alts) \in Regions /\ Tail(alts) \in Seq(Regions)
           /\ \A a \in DOMAIN alts : alts[a] = Head(alts) \/ \E b \in DOMAIN Tail(alts) : Tail(alts)[b] = alts[a]
<1>1. PICK m \in Nat : m = Len(alts) - 1
  BY EmptySeq
<1>2. /\ Head(alts) \in Regions /\ Tail(alts) \in Seq(Regions) /\ Head(alts) = alts[1]
      /\ DOMAIN Tail(alts) = 1 .. m
      /\ \A a \in 1 .. m : Tail(alts)[a] = alts[a + 1]
  BY <1>1, HeadTailProperties, LenProperties
<1>3. DOMAIN alts = 1 .. m + 1
  BY <1>1, LenProperties
<1>4. ASSUME NEW a \in DOMAIN alts, a # 1
      PROVE  \E b \in DOMAIN Tail(alts) : Tail(alts)[b] = alts[a]
  <2>1. a - 1 \in 1 .. m /\ (a - 1) + 1 = a
    BY <1>3, <1>4
  <2>2. Tail(alts)[a - 1] = alts[(a - 1) + 1]
    BY <1>2, <2>1
  <2>. QED
    BY <1>2, <2>1, <2>2
<1>. QED
  BY <1>2, <1>4

\* An entry that goes on to its next alternative brings back what its level allows
LEMMA TryAlternativeReplay ==
    ASSUME ReplayInv, TryAlternative, ~Replaying, UNCHANGED toReplay, ctx # <<>>
    PROVE  ReplayInv'
<1>1. /\ pc = "backtrack" /\ stack # <<>>
      /\ pc' \in {"solve", "backtrack"} /\ (pc' = "backtrack" => box' = {})
      /\ UNCHANGED <<query, ctx, rootImplied, target, outcome>>
  BY DEF TryAlternative
<1>2. problem' = problem /\ region' = region /\ Solutions' = Solutions
  BY <1>1, QueryKept
<1>3. ReplayTyped /\ ~Replaying'
  BY DEF ReplayInv, Replaying
<1>4. /\ stack \in Seq(Entries) /\ Len(stack) \in Nat /\ DOMAIN stack = 1 .. Len(stack)
      /\ ctx \in Seq(Regions) /\ Len(ctx) \in Nat /\ Len(ctx) <= Len(stack) + 1
  BY <1>3, ReplayTypes
<1>5. PICK n : n = Len(stack)
  OBVIOUS
<1>6. n \in Nat /\ n \in DOMAIN stack /\ Len(ctx) >= 1
  BY <1>1, <1>4, <1>5, EmptySeq
<1>7. PICK old : old = stack[n]
  OBVIOUS
<1>8. /\ old \in Entries /\ old.alts \in Seq(Regions) /\ old.pl \in PLStates
  <2>1. old \in Entries
    BY <1>3, <1>6, <1>7, ReplayTypes
  <2>. QED
    BY <2>1 DEF Entries
<1>9. /\ old.alts # <<>>
      /\ active' = old.pl.active /\ phase' = old.pl.phase
      /\ box' = ctx[Len(ctx)] \cap Head(old.alts)
      /\ stack' = [stack EXCEPT ![n] = [current |-> Head(old.alts), alts |-> Tail(old.alts),
                                        implied |-> {}, pl |-> old.pl]]
  <2>1. /\ old.alts # <<>>
        /\ active' = old.pl.active /\ phase' = old.pl.phase
        /\ box' = ctx[Len(ctx)] \cap Head(old.alts)
        /\ stack' = [stack EXCEPT ![n] =
                        [old EXCEPT !.current = Head(old.alts), !.alts = Tail(old.alts),
                                    !.implied = {}]]
    BY <1>5, <1>7 DEF TryAlternative, Last
  <2>. QED
    BY <1>8, <2>1, EntryNext
<1>10. /\ Head(old.alts) \in Regions /\ Tail(old.alts) \in Seq(Regions)
       /\ \A a \in DOMAIN old.alts : old.alts[a] = Head(old.alts)
                                     \/ \E b \in DOMAIN Tail(old.alts) : Tail(old.alts)[b] = old.alts[a]
  BY <1>8, <1>9, AlternativesSplit
<1> DEFINE new == [current |-> Head(old.alts), alts |-> Tail(old.alts), implied |-> {}, pl |-> old.pl]
<1>11. new \in Entries
  BY <1>8, <1>10 DEF Entries
<1>12. /\ stack' \in Seq(Entries) /\ Len(stack') = Len(stack) /\ DOMAIN stack' = DOMAIN stack
       /\ stack'[n] = new
       /\ \A i \in DOMAIN stack : i # n => stack'[i] = stack[i]
  <2>1. n \in 1 .. Len(stack)
    BY <1>4, <1>6
  <2>2. /\ stack' \in Seq(Entries) /\ Len(stack') = Len(stack)
        /\ \A i \in 1 .. Len(stack) : stack'[i] = IF i = n THEN new ELSE stack[i]
    BY <1>4, <1>9, <1>11, <2>1, ExceptSeq
  <2>. QED
    BY <1>4, <2>1, <2>2, LenProperties
<1>13. \A i \in DOMAIN stack : Level(i)' = Level(i)
  BY <1>1, <1>12 DEF Level
<1>14. Level(n) = Len(ctx)
  BY <1>4, <1>5, <1>6 DEF Level
<1>15. ReplayTyped'
  <2>1. /\ active' \in [Constraints -> BOOLEAN]
        /\ phase' \in [Constraints -> Phases \cup {NotFixed}]
        /\ box' \in Regions
    BY <1>8, <1>9, <1>10 DEF PLStates, Regions
  <2>2. StateTyped'
    BY <1>1, <1>3, <1>12, <2>1 DEF ReplayTyped, StateTyped
  <2>. QED
    BY <1>1, <1>2, <1>3, <1>12, <2>2 DEF ReplayTyped, QueryTyped
<1>16. KeptOrPromised'
  <2>1. SUFFICES ASSUME NEW p \in Solutions
                 PROVE  Present(p)' \/ \E i \in DOMAIN stack' : Brings(p, i)'
    BY <1>2 DEF KeptOrPromised
  <2>2. PICK i \in DOMAIN stack : Brings(p, i)
    BY <1>1, SMTT(30) DEF ReplayInv, KeptOrPromised, Present
  <2>3. \A j \in 1 .. i - 1 : j \in DOMAIN stack /\ j # n
    <3>1. i \in 1 .. n /\ n \in Nat
      BY <1>4, <1>5, <1>6
    <3>2. \A j \in 1 .. i - 1 : j \in 1 .. n /\ j # n
      BY <3>1
    <3>. QED
      BY <1>4, <1>5, <3>2
  <2>4. \A j \in 1 .. i - 1 : stack'[j] = stack[j]
    BY <1>12, <2>3
  <2>5. CASE i # n
    <3>1. stack'[i] = stack[i]
      BY <1>12, <2>5
    <3>2. Skewed(p, i)'
      BY <1>1, <2>2, <2>4, <3>1 DEF Brings, Skewed, ImpliedAllow, Allows
    <3>3. PhasesAllow(p, stack[i].pl)'
      BY <1>2, <2>2, <3>1 DEF Brings, PhasesAllow
    <3>. QED
      BY <1>1, <1>12, <1>13, <2>2, <3>1, <3>2, <3>3 DEF Brings
  <2>6. CASE i = n /\ p \in Head(old.alts)
    <3>1. p \in box'
      BY <1>6, <1>9, <1>14, <2>2, <2>6 DEF Brings
    <3>2. \A j \in DOMAIN stack : j = n \/ j \in 1 .. n - 1
      BY <1>4, <1>5, <1>6
    <3>3. \A j \in DOMAIN stack : /\ \A r \in stack'[j].implied : p \in r
                                  /\ p \in stack'[j].current
      <4>1. \A j \in 1 .. n - 1 : /\ \A r \in stack'[j].implied : p \in r
                                  /\ p \in stack'[j].current
        BY <2>2, <2>4, <2>6 DEF Brings, Skewed, ImpliedAllow, Allows
      <4>2. /\ \A r \in stack'[n].implied : p \in r
            /\ p \in stack'[n].current
        BY <1>12, <2>6
      <4>. QED
        BY <3>2, <4>1, <4>2
    <3>4. \A r \in rootImplied : p \in r
      BY <2>2 DEF Brings, Skewed, ImpliedAllow, Allows
    <3>5. Compliant(p)'
      BY <1>1, <1>4, <1>12, <3>3, <3>4 DEF Compliant, ImpliedAllow, Allows
    <3>6. PhasesAllow(p, PLState)'
      BY <1>2, <1>7, <1>9, <2>2, <2>6 DEF Brings, PhasesAllow, PLState
    <3>. QED
      BY <1>1, <1>3, <3>1, <3>5, <3>6 DEF Present
  <2>7. CASE i = n /\ p \notin Head(old.alts)
    <3>1. PICK a \in DOMAIN old.alts : p \in old.alts[a]
      BY <1>7, <2>2, <2>7 DEF Brings
    <3>2. PICK b \in DOMAIN Tail(old.alts) : p \in Tail(old.alts)[b]
      BY <1>10, <2>7, <3>1
    <3>3. /\ stack'[n].current = Head(old.alts) /\ stack'[n].alts = Tail(old.alts)
          /\ stack'[n].pl = old.pl /\ Tail(old.alts) # <<>>
      BY <1>12, <3>2
    <3>4. Skewed(p, n)'
      BY <1>1, <2>2, <2>4, <2>7, <3>3 DEF Brings, Skewed, ImpliedAllow, Allows
    <3>5. PhasesAllow(p, stack[n].pl)'
      BY <1>2, <1>7, <2>2, <2>7, <3>3 DEF Brings, PhasesAllow
    <3>6. Brings(p, n)'
      BY <1>1, <1>6, <1>13, <2>2, <2>7, <3>2, <3>3, <3>4, <3>5 DEF Brings
    <3>. QED
      BY <1>6, <1>12, <3>6
  <2>. QED
    BY <2>5, <2>6, <2>7
<1>17. UnsatMeansNone'
  BY <1>1, UnsatKept DEF ReplayInv, outcome
<1>. QED
  BY <1>15, <1>16, <1>17 DEF ReplayInv

\* With nothing on the stack there is nothing that could hold a solution
LEMMA PopNothingReplay ==
    ASSUME ReplayInv, PopNothing, ~Replaying, UNCHANGED toReplay
    PROVE  ReplayInv'
<1>1. /\ pc = "backtrack" /\ stack = <<>> /\ pc' = "done" /\ exitCode' = "UNSAT"
      /\ UNCHANGED <<query, box, ctx, plState, stack, rootImplied, splitState>>
  BY DEF PopNothing, Finish
<1>2. Solutions = {} /\ Solutions' = {} /\ problem' = problem /\ region' = region
  <2>1. DOMAIN stack = {}
    BY <1>1
  <2>2. Solutions = {}
    BY <1>1, <2>1 DEF ReplayInv, KeptOrPromised, Present
  <2>. QED
    BY <1>1, <2>2, QueryKept
<1>3. ReplayTyped'
  <2>1. StateTyped'
    BY <1>1 DEF ReplayInv, ReplayTyped, StateTyped, plState
  <2>. QED
    BY <1>1, <1>2, <2>1 DEF ReplayInv, ReplayTyped, QueryTyped, Replaying
<1>. QED
  BY <1>2, <1>3 DEF ReplayInv, KeptOrPromised, UnsatMeansNone

\* Deductions, which may be made between two entries too
LEMMA TightenReplay ==
    ASSUME ReplayInv, Tighten, UNCHANGED toReplay
    PROVE  ReplayInv'
<1>1. /\ box' \in SUBSET box /\ box \cap Solutions \subseteq box' /\ pc \in {"solve", "search", "propose"}
      /\ UNCHANGED <<query, ctx, plState, stack, rootImplied, splitState, pc, outcome>>
  BY DEF Tighten
<1>2. active' = active /\ phase' = phase /\ PLState' = PLState /\ exitCode' = exitCode /\ pc' = pc
      /\ problem' = problem
  BY <1>1 DEF plState, outcome, PLState, query
<1>3. active' \in [Constraints -> BOOLEAN] /\ phase' \in [Constraints -> Phases \cup {NotFixed}]
  BY <1>2 DEF ReplayInv, ReplayTyped, StateTyped
<1>4. \A p \in Solutions : p \in box /\ PhasesAllow(p, PLState) => PhasesAllow(p, PLState)'
  BY <1>2 DEF PhasesAllow
<1>. QED
  BY <1>1, <1>2, <1>3, <1>4, QuietReplay

\* A phase is fixed only if the case of that phase has all the points left
LEMMA FixPhaseReplay ==
    ASSUME ReplayInv, FixPhase, UNCHANGED toReplay
    PROVE  ReplayInv'
<1>1. PICK c \in Candidates, ph \in Phases :
         /\ box \cap Holds(c) \subseteq problem.piece[c][ph]
         /\ phase' = [phase EXCEPT ![c] = ph]
  BY DEF FixPhase
<1>2. UNCHANGED <<query, box, ctx, active, stack, rootImplied, splitState, pc, outcome>>
  BY DEF FixPhase
<1>3. phase \in [Constraints -> Phases \cup {NotFixed}] /\ active \in [Constraints -> BOOLEAN]
  BY DEF ReplayInv, ReplayTyped, StateTyped
<1>4. phase' \in [Constraints -> Phases \cup {NotFixed}]
  BY <1>1, <1>3
<1>5. ASSUME NEW p \in Solutions, p \in box, PhasesAllow(p, PLState)
      PROVE  PhasesAllow(p, PLState)'
  <2>1. \A d \in Constraints : p \in Holds(d)
    BY DEF Solutions
  <2>2. SUFFICES ASSUME NEW d \in Constraints, active[d], phase'[d] # NotFixed
                 PROVE  p \in problem.piece[d][phase'[d]]
    BY <1>2 DEF PhasesAllow, PLState, query
  <2>3. CASE d = c
    BY <1>1, <1>3, <1>5, <2>1, <2>3 DEF Candidates, Active
  <2>4. CASE d # c
    BY <1>1, <1>3, <1>5, <2>2, <2>4 DEF PhasesAllow, PLState
  <2>. QED
    BY <2>3, <2>4
<1>. QED
  BY <1>2, <1>3, <1>4, <1>5, QuietReplay DEF outcome, query

\* The valid splits of the main loop and of the replay
LEMMA ApplyValidSplitsReplay ==
    ASSUME ReplayInv, ApplyValidSplits, UNCHANGED toReplay
    PROVE  ReplayInv'
BY AppliedReplay DEF ApplyValidSplits, outcome

\* Steps that change nothing a solution depends on
LEMMA IdleReplay ==
    ASSUME ReplayInv, ~Replaying,
           UNCHANGED <<query, box, ctx, plState, stack, rootImplied, toReplay>>,
           pc' = "backtrack" => pc = "backtrack" \/ box = {},
           exitCode' = exitCode \/ exitCode' # "UNSAT"
    PROVE  ReplayInv'
<1>1. active' = active /\ phase' = phase /\ PLState' = PLState /\ problem' = problem
  BY DEF plState, PLState, query
<1>2. active' \in [Constraints -> BOOLEAN] /\ phase' \in [Constraints -> Phases \cup {NotFixed}]
  BY <1>1 DEF ReplayInv, ReplayTyped, StateTyped
<1>3. \A p \in Solutions : p \in box /\ PhasesAllow(p, PLState) => PhasesAllow(p, PLState)'
  BY <1>1 DEF PhasesAllow
<1>. QED
  BY <1>1, <1>2, <1>3, QuietReplay

\* A round in which an assignment satisfies the active constraints
LEMMA JudgeReplay ==
    ASSUME ReplayInv, ~Replaying, NEW p, JudgeSatisfying(p), pc \in {"solve", "search", "propose"},
           UNCHANGED <<query, ctx, phase, toReplay>>
    PROVE  ReplayInv'
<1>1. CASE LastRejection /\ pc' = "solve" /\ UNCHANGED outcome
  BY <1>1, AppliedReplay DEF LastRejection, outcome
<1>2. ASSUME NEW code \in {"SAT", "UNKNOWN"}, NEW q, Finish(code, q),
             UNCHANGED <<box, active, stack, rootImplied, splitState>>
      PROVE  ReplayInv'
  BY <1>2, IdleReplay DEF Finish, plState
<1>. QED
  BY <1>1, <1>2 DEF JudgeSatisfying

\* An assignment of the simplex is checked
LEMMA CheckAssignmentReplay ==
    ASSUME ReplayInv, ~Replaying, CheckAssignment, UNCHANGED toReplay
    PROVE  ReplayInv'
<1>1. pc = "solve" /\ UNCHANGED <<query, ctx, phase>>
  BY DEF CheckAssignment
<1>2. CASE \E p \in box : JudgeSatisfying(p)
  BY <1>1, <1>2, JudgeReplay
<1>3. CASE UNCHANGED <<box, active, stack, rootImplied, outcome>> /\ pc' \in {"solve", "search", "propose"}
  BY <1>1, <1>3, IdleReplay DEF plState, outcome
<1>. QED
  BY <1>1, <1>2, <1>3 DEF CheckAssignment

\* The local search
LEMMA LocalSearchReplay ==
    ASSUME ReplayInv, ~Replaying, UNCHANGED toReplay,
           JudgeOptimum \/ LeaveSearch \/ RejectProposal \/ AcceptProposal \/ AbandonSearch
    PROVE  ReplayInv'
<1>1. pc \in {"search", "propose"} /\ UNCHANGED <<query, ctx, phase>>
  BY DEF JudgeOptimum, LeaveSearch, RejectProposal, AcceptProposal, AbandonSearch, plState
<1>2. CASE LastRejection /\ pc' = "solve" /\ UNCHANGED outcome
  BY <1>1, <1>2, AppliedReplay DEF LastRejection, outcome
<1>3. CASE pc' # "backtrack" /\ UNCHANGED <<box, active, stack, rootImplied, outcome>>
  BY <1>1, <1>3, IdleReplay DEF plState, outcome
<1>4. CASE JudgeOptimum
  <2>1. CASE \E p \in box : JudgeSatisfying(p)
    BY <1>1, <2>1, JudgeReplay
  <2>2. CASE pc' = "propose" /\ UNCHANGED <<box, active, stack, rootImplied, outcome>>
    BY <1>3, <2>2
  <2>. QED
    BY <1>4, <2>1, <2>2 DEF JudgeOptimum
<1>5. CASE LeaveSearch \/ RejectProposal
  BY <1>1, <1>2, <1>3, <1>5 DEF LeaveSearch, RejectProposal
<1>6. CASE AcceptProposal \/ AbandonSearch
  BY <1>3, <1>6 DEF AcceptProposal, AbandonSearch, plState
<1>. QED
  BY <1>4, <1>5, <1>6

\* Precision restoration forgets the phases of inactive constraints only
LEMMA RestorePrecisionReplay ==
    ASSUME ReplayInv, ~Replaying, RestorePrecision, UNCHANGED toReplay
    PROVE  ReplayInv'
<1>1. /\ phase' = [c \in Constraints |-> IF active[c] THEN phase[c] ELSE NotFixed]
      /\ pc \in {"solve", "search", "propose"}
      /\ UNCHANGED <<query, box, ctx, active, stack, rootImplied, target, cost, pc, outcome>>
  BY DEF RestorePrecision
<1>2. active \in [Constraints -> BOOLEAN] /\ phase \in [Constraints -> Phases \cup {NotFixed}]
  BY DEF ReplayInv, ReplayTyped, StateTyped
<1>3. active' \in [Constraints -> BOOLEAN] /\ phase' \in [Constraints -> Phases \cup {NotFixed}]
  BY <1>1, <1>2
<1>4. \A p \in Solutions : p \in box /\ PhasesAllow(p, PLState) => PhasesAllow(p, PLState)'
  BY <1>1, <1>2 DEF PhasesAllow, PLState, query
<1>. QED
  BY <1>1, <1>3, <1>4, QuietReplay DEF outcome

\* The stack of the search that timed out holds every solution of the part
LEMMA ResumeReplay ==
    ASSUME ReplayInv, Resume
    PROVE  ReplayInv'
<1>1. /\ pc = "done" /\ exitCode = "TIMEOUT" /\ toReplay' = stack /\ ~Replaying
      /\ region' \in SUBSET region /\ box' = region' \cap AllowedBy(rootImplied)
      /\ ctx' = <<Points>> /\ stack' = <<>>
      /\ active' = [c \in Constraints |-> TRUE] /\ phase' = [c \in Constraints |-> NotFixed]
      /\ pc' = "solve" /\ exitCode' = "NOT_DONE" /\ problem' = problem /\ rootImplied' = rootImplied
  BY DEF Resume, Replaying
<1>2. /\ stack \in Seq(Entries) /\ Len(stack) \in Nat /\ DOMAIN stack = 1 .. Len(stack)
      /\ region \in Regions /\ rootImplied \subseteq Regions
  BY ReplayTypes DEF ReplayInv, ReplayTyped, QueryTyped, StateTyped
<1>3. Solutions' \subseteq Solutions /\ Solutions' \subseteq region'
  BY <1>1 DEF Solutions, Holds
<1>4. ReplayTyped'
  <2>1. /\ box' \in Regions /\ region' \in Regions
        /\ active' \in [Constraints -> BOOLEAN] /\ phase' \in [Constraints -> Phases \cup {NotFixed}]
    BY <1>1, <1>2 DEF Regions
  <2>2. ctx' \in Seq(Regions) /\ Len(ctx') = 1 /\ stack' \in Seq(Entries) /\ Len(stack') = 0
    BY <1>1 DEF Regions
  <2>3. StateTyped'
    BY <1>1, <1>2, <2>1, <2>2 DEF StateTyped
  <2>4. QueryTyped'
    BY <1>1, <2>1 DEF ReplayInv, ReplayTyped, QueryTyped
  <2>. QED
    BY <1>1, <1>2, <2>2, <2>3, <2>4 DEF ReplayTyped
<1>5. KeptOrPromised'
  <2>1. SUFFICES ASSUME NEW p \in Solutions' PROVE Present(p)'
    BY DEF KeptOrPromised
  <2>2. p \in Solutions /\ p \in region' /\ p \in Points
    BY <1>1, <1>2, <1>3, <2>1 DEF Regions
  <2>3. (\A r \in rootImplied : p \in r) /\ Promised(p, stack)
    <3>1. CASE Present(p)
      BY <1>2, <3>1 DEF Present, Compliant, ImpliedAllow, Allows, Promised, EntryAllows
    <3>2. ASSUME NEW i \in DOMAIN stack, Brings(p, i)
          PROVE  (\A r \in rootImplied : p \in r) /\ Promised(p, stack)
      BY <1>2, <3>2 DEF Brings, Skewed, ImpliedAllow, Allows, Promised, EntryAllows
    <3>. QED
      BY <2>2, <3>1, <3>2 DEF ReplayInv, KeptOrPromised
  <2>4. p \in box'
    BY <1>1, <2>2, <2>3 DEF AllowedBy
  <2>5. Compliant(p)'
    <3>1. Len(stack') = 0 /\ DOMAIN stack' = {}
      BY <1>1
    <3>. QED
      BY <1>1, <2>3, <3>1 DEF Compliant, ImpliedAllow, Allows
  <2>6. PhasesAllow(p, PLState)'
    BY <1>1 DEF PhasesAllow, PLState
  <2>7. Promised(p, toReplay)'
    BY <1>1, <2>3 DEF Promised, EntryAllows, Allows
  <2>. QED
    BY <1>1, <2>4, <2>5, <2>6, <2>7 DEF Present
<1>. QED
  BY <1>1, <1>4, <1>5 DEF ReplayInv, UnsatMeansNone

\* What the first entry does not allow it has among its alternatives; what it allows
\* the others hold
LEMMA PromisedNext ==
    ASSUME NEW p, NEW entries \in Seq(Entries), entries # <<>>, Promised(p, entries)
    PROVE  \/ EntryAllows(Head(entries), p) /\ Promised(p, Tail(entries))
           \/ ~Allows(Head(entries).current, p)
              /\ \E a \in DOMAIN Head(entries).alts : p \in Head(entries).alts[a]
<1>1. PICK m \in Nat : m = Len(entries) - 1
  BY EmptySeq
<1>2. /\ Head(entries) = entries[1] /\ DOMAIN Tail(entries) = 1 .. m
      /\ \A j \in 1 .. m : Tail(entries)[j] = entries[j + 1]
  BY <1>1, HeadTailProperties, LenProperties
<1>3. DOMAIN entries = 1 .. m + 1
  BY <1>1, LenProperties
<1>4. CASE \A j \in DOMAIN entries : EntryAllows(entries[j], p)
  <2>1. \A j \in 1 .. m : j + 1 \in 1 .. m + 1
    BY <1>1
  <2>2. 1 \in 1 .. m + 1
    BY <1>1
  <2>. QED
    BY <1>2, <1>3, <1>4, <2>1, <2>2 DEF Promised
<1>5. ASSUME NEW i \in DOMAIN entries,
             \A j \in 1 .. i - 1 : EntryAllows(entries[j], p),
             ~Allows(entries[i].current, p),
             \E a \in DOMAIN entries[i].alts : p \in entries[i].alts[a]
      PROVE  \/ EntryAllows(Head(entries), p) /\ Promised(p, Tail(entries))
             \/ ~Allows(Head(entries).current, p)
                /\ \E a \in DOMAIN Head(entries).alts : p \in Head(entries).alts[a]
  <2>1. CASE i = 1
    BY <1>2, <1>5, <2>1
  <2>2. CASE i # 1
    <3>1. i - 1 \in 1 .. m /\ (i - 1) + 1 = i /\ 1 \in 1 .. i - 1
      BY <1>3, <2>2
    <3>2. \A j \in 1 .. (i - 1) - 1 : j \in 1 .. m /\ j + 1 \in 1 .. i - 1
      BY <1>1, <3>1
    <3>3. Tail(entries)[i - 1] = entries[i]
      BY <1>2, <3>1
    <3>4. \A j \in 1 .. (i - 1) - 1 : EntryAllows(Tail(entries)[j], p)
      BY <1>2, <1>5, <3>2
    <3>. QED
      BY <1>2, <1>5, <3>1, <3>3, <3>4 DEF Promised
  <2>. QED
    BY <2>1, <2>2
<1>. QED
  BY <1>4, <1>5 DEF Promised

\* An entry is replayed: a solution passes on to those after it, or is held by it.  Its
\* bounds are on no level yet but those of the base, and then on none
LEMMA ReplayEntryReplay ==
    ASSUME ReplayInv, ReplayEntry
    PROVE  ReplayInv'
<1>1. PICK first : first = Head(toReplay)
  OBVIOUS
<1> DEFINE new == [first EXCEPT !.pl = PLState]
<1>2. /\ Replaying /\ stack' = Append(stack, new)
      /\ box' = box \cap first.current \cap AllowedBy(first.implied)
      /\ toReplay' = Tail(toReplay)
      /\ UNCHANGED <<query, ctx, plState, rootImplied, splitState, pc, outcome>>
  BY <1>1 DEF ReplayEntry
<1>3. /\ problem' = problem /\ region' = region /\ Solutions' = Solutions
      /\ active' = active /\ phase' = phase /\ PLState' = PLState
      /\ ctx' = ctx /\ rootImplied' = rootImplied /\ pc' = pc /\ exitCode' = exitCode
  BY <1>2, QueryKept DEF plState, PLState, outcome, query
<1>4. ReplayTyped
  BY DEF ReplayInv
<1>5. /\ toReplay \in Seq(Entries) /\ toReplay # <<>> /\ pc = "solve" /\ ctx = <<Points>>
      /\ Len(ctx) = 1 /\ ctx[1] = Points
  BY <1>2, <1>4 DEF ReplayTyped, Replaying
<1>6. first \in Entries /\ Tail(toReplay) \in Seq(Entries)
  BY <1>1, <1>5, HeadTailProperties
<1>7. /\ new \in Entries /\ new.current = first.current /\ new.alts = first.alts
      /\ new.implied = first.implied /\ new.pl = PLState
  <2>1. PLState \in PLStates
    BY <1>4, ReplayTypes DEF PLState, PLStates
  <2>. QED
    BY <1>6, <2>1, SMTT(30) DEF Entries
<1>8. PICK n \in Nat : n = Len(stack)
  BY <1>4, ReplayTypes
<1>9. /\ stack \in Seq(Entries) /\ DOMAIN stack = 1 .. n
      /\ stack' \in Seq(Entries) /\ Len(stack') = n + 1 /\ DOMAIN stack' = 1 .. n + 1
      /\ \A i \in 1 .. n : stack'[i] = stack[i]
      /\ stack'[n + 1] = new
  BY <1>2, <1>4, <1>7, <1>8, ReplayTypes, AppendProperties, LenProperties
<1>10. /\ \A i \in 1 .. n + 1 : i \in 1 .. n \/ i = n + 1
       /\ n + 1 \in 1 .. n + 1 /\ (n + 1) - 1 = n
       /\ \A i \in 1 .. n : i \in 1 .. n + 1
  BY <1>8
<1>11. ReplayTyped'
  <2>1. box' \in Regions
    BY <1>2, <1>4, ReplayTypes DEF Regions
  <2>2. StateTyped'
    BY <1>3, <1>4, <1>9, <2>1 DEF ReplayTyped, StateTyped
  <2>3. Len(ctx') <= Len(stack') + 1
    BY <1>3, <1>5, <1>8, <1>9
  <2>. QED
    BY <1>2, <1>3, <1>4, <1>5, <1>6, <2>2, <2>3 DEF ReplayTyped, QueryTyped
<1>12. KeptOrPromised'
  <2>1. SUFFICES ASSUME NEW p \in Solutions
                 PROVE  Present(p)' \/ \E i \in DOMAIN stack' : Brings(p, i)'
    BY <1>3 DEF KeptOrPromised
  <2>2. ASSUME NEW i \in DOMAIN stack, Brings(p, i)
        PROVE  i \in DOMAIN stack' /\ Brings(p, i)'
    <3>1. i \in 1 .. n /\ \A j \in 1 .. i - 1 : j \in 1 .. n
      BY <1>8, <1>9
    <3>2. stack'[i] = stack[i] /\ \A j \in 1 .. i - 1 : stack'[j] = stack[j]
      BY <1>9, <3>1
    <3>3. Skewed(p, i)'
      BY <1>3, <2>2, <3>2 DEF Brings, Skewed, ImpliedAllow, Allows
    <3>4. ~(Level(i)' >= 1)
      BY <1>3, <1>5, <1>8, <1>9, <3>1 DEF Level
    <3>5. PhasesAllow(p, stack[i].pl)'
      BY <1>3, <2>2, <3>2 DEF Brings, PhasesAllow
    <3>. QED
      BY <1>9, <1>10, <2>2, <3>1, <3>2, <3>3, <3>4, <3>5 DEF Brings
  <2>3. CASE Present(p)
    <3>1. /\ p \in box /\ PhasesAllow(p, PLState) /\ Promised(p, toReplay)
          /\ \A r \in rootImplied : p \in r
          /\ \A j \in 1 .. n : p \in stack'[j].current /\ \A r \in stack'[j].implied : p \in r
      BY <1>2, <1>8, <1>9, <2>3 DEF Present, Compliant, ImpliedAllow, Allows
    <3>2. p \in Points
      BY <1>4, <3>1, ReplayTypes DEF Regions
    <3>3. CASE EntryAllows(first, p) /\ Promised(p, Tail(toReplay))
      <4>1. p \in box'
        BY <1>2, <3>1, <3>2, <3>3 DEF EntryAllows, Allows, AllowedBy
      <4>2. Compliant(p)'
        <5>1. \A j \in 1 .. n + 1 : /\ \A r \in stack'[j].implied : p \in r
                                    /\ p \in stack'[j].current
          BY <1>7, <1>9, <1>10, <3>1, <3>3 DEF EntryAllows, Allows
        <5>. QED
          BY <1>3, <1>9, <3>1, <5>1 DEF Compliant, ImpliedAllow, Allows
      <4>3. PhasesAllow(p, PLState)'
        BY <1>3, <3>1 DEF PhasesAllow
      <4>4. Promised(p, toReplay)'
        BY <1>2, <3>3 DEF Promised, EntryAllows, Allows
      <4>. QED
        BY <1>3, <1>5, <4>1, <4>2, <4>3, <4>4 DEF Present
    <3>4. CASE ~Allows(first.current, p) /\ \E a \in DOMAIN first.alts : p \in first.alts[a]
      <4>1. Skewed(p, n + 1)'
        BY <1>3, <1>7, <1>9, <1>10, <3>1, <3>4 DEF Skewed, ImpliedAllow, Allows
      <4>2. Level(n + 1)' = 1
        BY <1>3, <1>5, <1>8, <1>9 DEF Level
      <4>3. PhasesAllow(p, stack[n + 1].pl)'
        BY <1>3, <1>7, <1>9, <3>1 DEF PhasesAllow
      <4>4. Brings(p, n + 1)'
        BY <1>3, <1>5, <1>7, <1>9, <3>2, <3>4, <4>1, <4>2, <4>3 DEF Brings
      <4>. QED
        BY <1>9, <1>10, <4>4
    <3>. QED
      BY <1>1, <1>5, <3>1, <3>3, <3>4, PromisedNext
  <2>. QED
    BY <2>2, <2>3 DEF ReplayInv, KeptOrPromised
<1>13. UnsatMeansNone'
  BY <1>2, <1>3, UnsatKept DEF ReplayInv
<1>. QED
  BY <1>11, <1>12, <1>13 DEF ReplayInv

\* Empty bounds contain no solution: the entries on the stack hold them all
LEMMA ReplayInfeasibleReplay ==
    ASSUME ReplayInv, ReplayInfeasible
    PROVE  ReplayInv'
<1>1. /\ box = {} /\ pc' = "backtrack" /\ toReplay' = <<>>
      /\ UNCHANGED <<query, box, ctx, plState, stack, rootImplied, splitState, outcome>>
  BY DEF ReplayInfeasible, Infeasible
<1>2. problem' = problem /\ region' = region /\ Solutions' = Solutions
  BY <1>1, QueryKept
<1>3. ReplayTyped'
  <2>1. StateTyped'
    BY <1>1 DEF ReplayInv, ReplayTyped, StateTyped, plState
  <2>. QED
    BY <1>1, <1>2, <2>1 DEF ReplayInv, ReplayTyped, QueryTyped, Replaying
<1>4. KeptOrPromised'
  <2>1. SUFFICES ASSUME NEW p \in Solutions PROVE \E i \in DOMAIN stack' : Brings(p, i)'
    BY <1>2 DEF KeptOrPromised
  <2>2. PICK i \in DOMAIN stack : Brings(p, i)
    BY <1>1 DEF ReplayInv, KeptOrPromised, Present
  <2>3. Brings(p, i)'
    BY <1>1, <1>2, <2>2 DEF Brings, Skewed, ImpliedAllow, Allows, Level, PhasesAllow
  <2>. QED
    BY <1>1, <2>2, <2>3
<1>5. UnsatMeansNone'
  BY <1>1, UnsatKept DEF ReplayInv, outcome
<1>. QED
  BY <1>3, <1>4, <1>5 DEF ReplayInv

\* Every step of a search that is not replaying anything
LEMMA SolveReplay ==
    ASSUME ReplayInv, Solve
    PROVE  ReplayInv'
<1>1. /\ ~Replaying /\ UNCHANGED toReplay /\ (pc = "backtrack" /\ stack # <<>> => ctx # <<>>)
  BY DEF Solve
<1>2. CASE ApplyValidSplits
  BY <1>1, <1>2, ApplyValidSplitsReplay
<1>3. CASE Tighten
  BY <1>1, <1>3, TightenReplay
<1>4. CASE FixPhase
  BY <1>1, <1>4, FixPhaseReplay
<1>5. CASE CheckAssignment
  BY <1>1, <1>5, CheckAssignmentReplay
<1>6. CASE JudgeOptimum \/ LeaveSearch \/ RejectProposal \/ AcceptProposal \/ AbandonSearch
  BY <1>1, <1>6, LocalSearchReplay
<1>7. CASE ForgetTarget \/ SplitOnNull
  BY <1>1, <1>7, IdleReplay DEF ForgetTarget, SplitOnNull, outcome
<1>8. CASE PerformSplit
  BY <1>1, <1>8, PerformSplitReplay
<1>9. CASE Infeasible
  BY <1>1, <1>9, IdleReplay DEF Infeasible, outcome
<1>10. CASE PopExhausted
  BY <1>1, <1>10, PopExhaustedReplay DEF PopExhausted
<1>11. CASE PopNothing
  BY <1>1, <1>11, PopNothingReplay
<1>12. CASE TryAlternative
  BY <1>1, <1>12, TryAlternativeReplay DEF TryAlternative
<1>13. CASE RestorePrecision
  BY <1>1, <1>13, RestorePrecisionReplay
<1>14. CASE Interrupted
  <2>1. /\ pc' = "done" /\ exitCode' \in {"TIMEOUT", "QUIT_REQUESTED", "ERROR"}
        /\ UNCHANGED <<query, box, ctx, plState, stack, rootImplied, splitState>>
    BY <1>14 DEF Interrupted, Finish
  <2>. QED
    BY <1>1, <2>1, IdleReplay
<1>. QED
  BY <1>2, <1>3, <1>4, <1>5, <1>6, <1>7, <1>8, <1>9, <1>10, <1>11, <1>12, <1>13, <1>14
  DEF Solve, Next

\* Before the timeout nothing is replayed
LEMMA InitiallyReplay == InitRestore => ReplayInv
<1>1. SUFFICES ASSUME InitRestore PROVE ReplayInv
  OBVIOUS
<1>2. /\ problem \in [piece : [Constraints -> [Phases -> Regions]], smooth : Regions]
      /\ region \in Regions /\ box = region
      /\ active = [c \in Constraints |-> TRUE] /\ phase = [c \in Constraints |-> NotFixed]
      /\ stack = <<>> /\ rootImplied = {} /\ pc = "solve" /\ exitCode = "NOT_DONE"
      /\ ~Replaying
  BY <1>1 DEF InitRestore, Init, Regions, Replaying
<1>3. ctx \in {<<>>, <<Points>>}
  BY <1>1 DEF InitRestore, Init
<1>4. /\ ctx \in Seq(Regions) /\ Len(ctx) <= Len(stack) + 1
      /\ Len(stack) = 0 /\ DOMAIN stack = {}
  <2>1. Len(stack) = 0 /\ DOMAIN stack = {}
    BY <1>2
  <2>2. CASE ctx = <<>>
    BY <2>1, <2>2
  <2>3. CASE ctx = <<Points>>
    <3>1. Points \in Regions
      BY DEF Regions
    <3>. QED
      BY <2>1, <2>3, <3>1
  <2>. QED
    BY <1>3, <2>1, <2>2, <2>3
<1>5. ReplayTyped
  <2>1. /\ active \in [Constraints -> BOOLEAN] /\ phase \in [Constraints -> Phases \cup {NotFixed}]
        /\ stack \in Seq(Entries) /\ rootImplied \subseteq Regions
    BY <1>2
  <2>2. StateTyped
    BY <1>2, <1>4, <2>1 DEF StateTyped
  <2>. QED
    BY <1>2, <1>4, <2>2 DEF ReplayTyped, QueryTyped
<1>6. KeptOrPromised
  <2>1. SUFFICES ASSUME NEW p \in Solutions PROVE Present(p)
    BY DEF KeptOrPromised
  <2>. QED
    BY <1>2, <1>4 DEF Solutions, Present, Compliant, ImpliedAllow, PhasesAllow, PLState
<1>. QED
  BY <1>2, <1>5, <1>6 DEF ReplayInv, UnsatMeansNone

\* UNSAT is right whatever was replayed: the entries that are popped without their
\* context hold no solution, and those that hold one have their level
\* (Engine::restoreSmtState, SmtCore::replaySmtStackEntry)
THEOREM RestoredAnswerIsRight == SpecRestore => []UnsatMeansNone
<1>1. InitRestore => ReplayInv
  BY InitiallyReplay
<1>2. ReplayInv /\ [NextRestore]_restoreVars => ReplayInv'
  <2>1. SUFFICES ASSUME ReplayInv, [NextRestore]_restoreVars PROVE ReplayInv'
    OBVIOUS
  <2>2. CASE Solve
    BY <2>1, <2>2, SolveReplay
  <2>3. CASE Resume
    BY <2>1, <2>3, ResumeReplay
  <2>4. CASE ReplayEntry
    BY <2>1, <2>4, ReplayEntryReplay
  <2>5. CASE Propagate
    BY <2>1, <2>5, TightenReplay, FixPhaseReplay, ApplyValidSplitsReplay DEF Propagate
  <2>6. CASE ReplayInfeasible
    BY <2>1, <2>6, ReplayInfeasibleReplay
  <2>7. CASE PopBelowZero
    <3>1. ~Replaying
      BY <2>1, <2>7 DEF PopBelowZero, ReplayInv, ReplayTyped
    <3>. QED
      BY <2>1, <2>7, <3>1, IdleReplay DEF PopBelowZero, outcome
  <2>8. CASE UNCHANGED restoreVars
    <3>1. /\ UNCHANGED <<query, box, ctx, plState, stack, rootImplied, pc, outcome, toReplay>>
      BY <2>8 DEF restoreVars, vars
    <3>2. PLState' = PLState /\ active' = active /\ phase' = phase
      BY <3>1 DEF plState, PLState
    <3>3. active' \in [Constraints -> BOOLEAN] /\ phase' \in [Constraints -> Phases \cup {NotFixed}]
      BY <2>1, <3>2 DEF ReplayInv, ReplayTyped, StateTyped
    <3>4. \A p \in Solutions : p \in box /\ PhasesAllow(p, PLState) => PhasesAllow(p, PLState)'
      BY <3>1, <3>2 DEF PhasesAllow, query
    <3>. QED
      BY <2>1, <3>1, <3>2, <3>3, <3>4, QuietReplay DEF outcome
  <2>. QED
    BY <2>1, <2>2, <2>3, <2>4, <2>5, <2>6, <2>7, <2>8 DEF NextRestore
<1>3. ReplayInv => UnsatMeansNone
  BY DEF ReplayInv
<1>. QED
  BY <1>1, <1>2, <1>3, PTL DEF SpecRestore
=============================================================================
