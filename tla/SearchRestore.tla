---------------------------- MODULE SearchRestore ----------------------------
(***************************************************************************)
(* The option restoreTreeStates: a DnC subquery that timed out is divided, *)
(* and each part is given a copy of the stack of splits the timed-out      *)
(* engine had (SmtCore::storeSmtState), which Engine::restoreSmtState      *)
(* replays before it solves the part.  The replay applies the splits and   *)
(* pushes the entries, but not the context.                                *)
(***************************************************************************)
EXTENDS Search

VARIABLE
    toReplay    \* the entries still to be replayed; None before the timeout

restoreVars == <<vars, toReplay>>

Replaying == toReplay \notin {None, <<>>}

InitRestore ==
    /\ Init
    /\ toReplay = None

\* The engine, reset, gets a part of the region that timed out and the stack
\* of the search that did; the splits implied at the root are applied
Resume ==
    /\ pc = "done"
    /\ exitCode = "TIMEOUT"
    /\ toReplay = None
    /\ toReplay' = stack
    /\ region' \in SUBSET region
    /\ box' = region' \cap AllowedBy(rootImplied)
    /\ ctx' = <<Points>>
    /\ active' = [c \in Constraints |-> TRUE]
    /\ phase' = [c \in Constraints |-> NotFixed]
    /\ stack' = <<>>
    /\ needToSplit' = FALSE
    /\ target' = None
    /\ rejected' = 0
    /\ violations' = [c \in Constraints |-> 0]
    /\ pc' = "solve"
    /\ exitCode' = "NOT_DONE"
    /\ UNCHANGED <<problem, rootImplied, witness, cost>>

\* Mutant of ReplayEntry: the split implied by an entry are replayed as its own
ReplayActiveOnly ==
    /\ Replaying
    /\ LET entry == Head(toReplay) IN
        /\ stack' = Append(stack, [entry EXCEPT !.pl = PLState, !.alts = <<>>])
        /\ box' = box \cap entry.current \cap AllowedBy(entry.implied)
    /\ toReplay' = Tail(toReplay)
    /\ UNCHANGED <<query, ctx, plState, rootImplied, splitState, cost, pc, outcome>>

\* replaySmtStackEntry: store the state, apply the active and implied splits
ReplayEntry ==
    /\ Replaying
    /\ LET entry == Head(toReplay) IN
        /\ stack' = Append(stack, [entry EXCEPT !.pl = PLState])
        /\ box' = box \cap entry.current \cap AllowedBy(entry.implied)
    /\ toReplay' = Tail(toReplay)
    /\ UNCHANGED <<query, ctx, plState, rootImplied, splitState, cost, pc, outcome>>

\* Between two entries the bounds are propagated and valid splits applied
Propagate ==
    /\ Replaying
    /\ Tighten \/ FixPhase \/ ApplyValidSplits
    /\ UNCHANGED toReplay

\* An entry makes the bounds infeasible: pop, and forget the entries not replayed
ReplayInfeasible ==
    /\ Replaying
    /\ Infeasible
    /\ toReplay' = <<>>

\* popSplit pops a context that is at level 0
PopBelowZero ==
    /\ pc = "backtrack"
    /\ stack # <<>>
    /\ ctx = <<>>
    /\ pc' = "underflow"
    /\ UNCHANGED <<query, box, ctx, plState, stack, rootImplied, splitState, cost,
                   outcome, toReplay>>

Solve ==
    /\ ~Replaying
    /\ pc = "backtrack" /\ stack # <<>> => ctx # <<>>
    /\ Next
    /\ UNCHANGED toReplay

NextRestore ==
    \/ Solve
    \/ Resume \/ ReplayEntry \/ Propagate \/ ReplayInfeasible
    \/ PopBelowZero

SpecRestore == InitRestore /\ [][NextRestore]_restoreVars
=============================================================================
