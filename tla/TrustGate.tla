----------------------------- MODULE TrustGate -----------------------------
(***************************************************************************)
(* The decision function of engine/trust.py: decide(action, context) is a  *)
(* pure function of a context that load_trust_context() read once and      *)
(* froze.  The reasons list is wording and is left out; what is kept is    *)
(* the level and the window the decision is tagged with.                   *)
(*                                                                         *)
(* Nothing here is a state machine.  CellTrust evolves the cell levels,    *)
(* Executor evolves the windows, the boundaries and the proposals, and     *)
(* asks Decide.                                                            *)
(***************************************************************************)
EXTENDS Integers, FiniteSetsExt

CONSTANTS Windows,      \* ids of elevation windows
          NoWindow      \* "no window": the None of Decision.window_id

ASSUME NoWindowAssumption == NoWindow \notin Windows

(* AUTONOMY_ORDER: a level is its rank, so that "clamp" is a minimum.      *)
BLOCK      == 0
PROPOSE    == 1
CONFIRM    == 2
AUTONOMOUS == 3
Level      == BLOCK .. AUTONOMOUS

(* A host ceiling as the gate sees it.                                     *)
BoundaryView == [ceiling : Level, absolute : BOOLEAN]

(***************************************************************************)
(* The frozen context.  "level" is the cell's level, or its domain's       *)
(* default when the cell has no row yet; "window" is the first open window *)
(* that covers the action (the test against the frozen "now" is made here  *)
(* once, since neither the list nor the clock in the context ever moves).  *)
(***************************************************************************)
TrustContext == [level     : Level,
                 probation : BOOLEAN,
                 max       : Level,
                 absolute  : BOOLEAN,
                 bounds    : SUBSET BoundaryView,
                 window    : Windows \cup {NoWindow},
                 override  : BOOLEAN]

Clamp(level, ceiling) == IF level > ceiling THEN ceiling ELSE level

(* _matching_window: an absolute domain gets none.                         *)
MatchingWindow(ctx) == IF ctx.absolute THEN NoWindow ELSE ctx.window

(* What crosses the soft-hard floors, if anything does: an open window or  *)
(* the owner's override, and neither in an absolute domain.                *)
Lifted(ctx) == \/ MatchingWindow(ctx) # NoWindow
               \/ ctx.override /\ ~ctx.absolute

(* _apply_boundaries: successive clamps are one minimum.  A lift removes   *)
(* the ceilings that are not absolute, and only those.                     *)
BindingCeilings(bounds, lift) ==
    {b.ceiling : b \in {x \in bounds : x.absolute \/ ~lift}}

ApplyBoundaries(level, bounds, lift) ==
    Min({level} \cup BindingCeilings(bounds, lift))

(* The standing floor: probation caps the cell at CONFIRM, then the domain *)
(* caps it, then the hosts do.                                             *)
StandingLevel(ctx) ==
    Clamp(IF ctx.probation THEN Clamp(ctx.level, CONFIRM) ELSE ctx.level, ctx.max)

BoundedLevel(ctx) == ApplyBoundaries(StandingLevel(ctx), ctx.bounds, Lifted(ctx))

(* decide(): the level.  Without a verified rollback, AUTONOMOUS degrades  *)
(* to CONFIRM unless something lifts the floor.                            *)
Decide(ctx, verified) ==
    IF BoundedLevel(ctx) = AUTONOMOUS /\ ~verified /\ ~Lifted(ctx)
    THEN CONFIRM
    ELSE BoundedLevel(ctx)

(* decide(): the window_id the decision carries, load-bearing or not.      *)
DecisionWindow(ctx) == MatchingWindow(ctx)

(* Mutant: only BLOCK is refused.                                          *)
ExecutesProposals(level) == level # BLOCK

(* The levels at which execute_proposal goes on.                           *)
Executes(level) == level \notin {BLOCK, PROPOSE}
=============================================================================
