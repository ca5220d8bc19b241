------------------------- MODULE CellLadder_proofs --------------------------
(***************************************************************************)
(* What decide() guarantees for every context: no ceiling that binds is    *)
(* passed, the pessimistic decision is final downwards, and what lifts a   *)
(* floor lifts no more than that floor.  Those proofs rest on one fact,    *)
(* that a non-empty set of levels has a minimum.  Then, what each          *)
(* operation on a trust cell makes of its row: it stays a row, and below   *)
(* the ceiling of its domain.                                              *)
(***************************************************************************)
EXTENDS CellLadder, TLAPS

(* A non-empty set of levels has a least one.                              *)
LEMMA MinOfLevels ==
    ASSUME NEW S \in SUBSET Level, S # {}
    PROVE  Min(S) \in S /\ \A y \in S : Min(S) <= y
<1>1. \E x \in S : \A y \in S : x <= y
  <2>1. CASE 0 \in S BY <2>1 DEF Level, BLOCK, AUTONOMOUS
  <2>2. CASE 0 \notin S /\ 1 \in S BY <2>2 DEF Level, BLOCK, AUTONOMOUS
  <2>3. CASE 0 \notin S /\ 1 \notin S /\ 2 \in S BY <2>3 DEF Level, BLOCK, AUTONOMOUS
  <2>4. CASE 0 \notin S /\ 1 \notin S /\ 2 \notin S
    <3>1. \A y \in S : y = 3 BY <2>4 DEF Level, BLOCK, AUTONOMOUS
    <3>2. PICK x \in S : TRUE OBVIOUS
    <3>. QED BY <3>1, <3>2
  <2>. QED BY <2>1, <2>2, <2>3, <2>4
<1>. QED BY <1>1 DEF Min

(* Clamping stays within the levels and below both arguments.              *)
LEMMA ClampType ==
    ASSUME NEW l \in Level, NEW c \in Level
    PROVE  Clamp(l, c) \in Level /\ Clamp(l, c) <= l /\ Clamp(l, c) <= c
BY DEF Clamp, Level, BLOCK, AUTONOMOUS

(* The standing level never passes the cell's own level nor its domain's   *)
(* ceiling.                                                                *)
LEMMA StandingBound ==
    ASSUME NEW ctx \in TrustContext
    PROVE  /\ StandingLevel(ctx) \in Level
           /\ StandingLevel(ctx) <= ctx.level
           /\ StandingLevel(ctx) <= ctx.max
<1>1. ctx.level \in Level /\ ctx.max \in Level /\ ctx.probation \in BOOLEAN
  BY DEF TrustContext
<1>2. CONFIRM \in Level BY DEF Level, CONFIRM, BLOCK, AUTONOMOUS
<1>. DEFINE inner == IF ctx.probation THEN Clamp(ctx.level, CONFIRM) ELSE ctx.level
<1>3. inner \in Level /\ inner <= ctx.level
  BY <1>1, <1>2, ClampType DEF Level, BLOCK, AUTONOMOUS
<1>4. StandingLevel(ctx) = Clamp(inner, ctx.max) BY DEF StandingLevel
<1>. HIDE DEF inner
<1>. QED BY <1>1, <1>3, <1>4, ClampType DEF Level, BLOCK, AUTONOMOUS

(* The boundaries only lower the level, and to no more than any ceiling    *)
(* that is absolute, lifted or not.                                        *)
LEMMA BoundariesBound ==
    ASSUME NEW ctx \in TrustContext
    PROVE  /\ BoundedLevel(ctx) \in Level
           /\ BoundedLevel(ctx) <= StandingLevel(ctx)
           /\ \A b \in ctx.bounds : b.absolute => BoundedLevel(ctx) <= b.ceiling
           /\ \A b \in ctx.bounds : ~Lifted(ctx) => BoundedLevel(ctx) <= b.ceiling
<1>. DEFINE S == {StandingLevel(ctx)} \cup BindingCeilings(ctx.bounds, Lifted(ctx))
<1>1. ctx.bounds \in SUBSET BoundaryView BY DEF TrustContext
<1>2. BindingCeilings(ctx.bounds, Lifted(ctx)) \in SUBSET Level
  BY <1>1 DEF BindingCeilings, BoundaryView
<1>3. S \in SUBSET Level /\ S # {}
  BY <1>2, StandingBound
<1>4. BoundedLevel(ctx) = Min(S) BY DEF BoundedLevel, ApplyBoundaries
<1>5. \A b \in ctx.bounds : b.absolute \/ ~Lifted(ctx) => b.ceiling \in S
  BY DEF BindingCeilings
<1>6. StandingLevel(ctx) \in S OBVIOUS
<1>. HIDE DEF S
<1>7. Min(S) \in S /\ \A y \in S : Min(S) <= y BY <1>3, MinOfLevels
<1>. QED BY <1>3, <1>4, <1>5, <1>6, <1>7

(* decide() returns a level, never above the cell's standing level, never  *)
(* above an absolute host ceiling, and never above any host ceiling unless *)
(* a window or an override lifts it.                                       *)
THEOREM DecideBound ==
    ASSUME NEW ctx \in TrustContext, NEW verified \in BOOLEAN
    PROVE  /\ Decide(ctx, verified) \in Level
           /\ Decide(ctx, verified) <= ctx.level
           /\ Decide(ctx, verified) <= ctx.max
           /\ \A b \in ctx.bounds : b.absolute => Decide(ctx, verified) <= b.ceiling
           /\ \A b \in ctx.bounds : ~Lifted(ctx) => Decide(ctx, verified) <= b.ceiling
<1>1. /\ BoundedLevel(ctx) \in Level
      /\ BoundedLevel(ctx) <= StandingLevel(ctx)
      /\ \A b \in ctx.bounds : b.absolute => BoundedLevel(ctx) <= b.ceiling
      /\ \A b \in ctx.bounds : ~Lifted(ctx) => BoundedLevel(ctx) <= b.ceiling
  BY BoundariesBound
<1>2. /\ StandingLevel(ctx) \in Level
      /\ StandingLevel(ctx) <= ctx.level
      /\ StandingLevel(ctx) <= ctx.max
  BY StandingBound
<1>3. /\ ctx.level \in Level /\ ctx.max \in Level
      /\ \A b \in ctx.bounds : b.ceiling \in Level
  BY DEF TrustContext, BoundaryView
<1>4. Decide(ctx, verified) \in Level /\ Decide(ctx, verified) <= BoundedLevel(ctx)
  BY <1>1 DEF Decide, Level, BLOCK, CONFIRM, AUTONOMOUS
<1>. QED BY <1>1, <1>2, <1>3, <1>4 DEF Level, BLOCK, AUTONOMOUS

(* "Verification can only ever raise the outcome ... so a BLOCK or PROPOSE *)
(* here is final": what the pessimistic decision refuses, the one taken    *)
(* after the probe refuses too, and the reverse.                           *)
THEOREM PessimisticIsFinal ==
    ASSUME NEW ctx \in TrustContext
    PROVE  /\ Decide(ctx, FALSE) <= Decide(ctx, TRUE)
           /\ Executes(Decide(ctx, FALSE)) <=> Executes(Decide(ctx, TRUE))
<1>1. BoundedLevel(ctx) \in Level BY BoundariesBound
<1>. QED BY <1>1 DEF Decide, Executes, Level, BLOCK, PROPOSE, CONFIRM, AUTONOMOUS

(* At AUTONOMOUS there is a verified rollback, or something lifted the     *)
(* floor that asks for one.                                                *)
THEOREM AutonomyNeedsReversibility ==
    ASSUME NEW ctx \in TrustContext, NEW verified \in BOOLEAN,
           Decide(ctx, verified) = AUTONOMOUS
    PROVE  verified \/ Lifted(ctx)
BY DEF Decide, CONFIRM, AUTONOMOUS

(* "It never makes a propose-only cell execute": neither a window nor an   *)
(* override executes what stands at PROPOSE, and in an absolute domain     *)
(* neither changes the decision at all.                                    *)
THEOREM LiftsNeverPromote ==
    ASSUME NEW ctx \in TrustContext, NEW verified \in BOOLEAN
    PROVE  /\ StandingLevel(ctx) <= PROPOSE => ~Executes(Decide(ctx, verified))
           /\ ctx.absolute => ~Lifted(ctx) /\ DecisionWindow(ctx) = NoWindow
<1>1. /\ BoundedLevel(ctx) \in Level
      /\ BoundedLevel(ctx) <= StandingLevel(ctx)
  BY BoundariesBound
<1>2. StandingLevel(ctx) \in Level BY StandingBound
<1>3. StandingLevel(ctx) <= PROPOSE => ~Executes(Decide(ctx, verified))
  BY <1>1, <1>2 DEF Decide, Executes, Level, BLOCK, PROPOSE, CONFIRM, AUTONOMOUS
<1>4. ctx.absolute => ~Lifted(ctx) /\ DecisionWindow(ctx) = NoWindow
  BY DEF Lifted, MatchingWindow, DecisionWindow
<1>. QED BY <1>3, <1>4
-----------------------------------------------------------------------------
USE DEF Level, BLOCK, PROPOSE, CONFIRM, AUTONOMOUS

(* A clean outcome.                                                        *)
LEMMA CleanOutcomeRow ==
    ASSUME NEW c \in Cells, NEW row \in CellRow
    PROVE  /\ CleanOutcome(c, row) \in CellRow
           /\ row.level <= MaxLevel[c] => CleanOutcome(c, row).level <= MaxLevel[c]
           /\ CleanOutcome(c, row).probation = row.probation
           /\ row.probation => CleanOutcome(c, row) = [row EXCEPT !.streak = 0]
           /\ \/ CleanOutcome(c, row).level = row.level
                 /\ CleanOutcome(c, row).granted = row.granted
              \/ c \in Promotable /\ c \notin AbsoluteCells
<1>1. PromotionStreak \in Nat \ {0} BY CellAssumption
<1>2. row = [level |-> row.level, streak |-> row.streak,
             probation |-> row.probation, granted |-> row.granted]
      /\ row.level \in Level /\ row.streak \in 0 .. PromotionStreak
      /\ row.probation \in BOOLEAN /\ row.granted \in BOOLEAN
  BY DEF CellRow
<1>3. CASE ~Banks(row)
  BY <1>1, <1>2, <1>3 DEF CleanOutcome, Banks, CellRow
<1>4. CASE Banks(row) /\ row.streak + 1 < PromotionStreak
  BY <1>1, <1>2, <1>4 DEF CleanOutcome, Banks, CellRow
<1>5. CASE Banks(row) /\ ~(row.streak + 1 < PromotionStreak) /\ MayRise(c, row)
  <2>1. CleanOutcome(c, row) = [level |-> NextLevel(row.level), streak |-> 0,
                                probation |-> row.probation, granted |-> FALSE]
    BY <1>2, <1>5 DEF CleanOutcome
  <2>2. NextLevel(row.level) \in Level BY <1>2 DEF NextLevel
  <2>3. /\ c \in Promotable /\ c \notin AbsoluteCells
        /\ NextLevel(row.level) <= MaxLevel[c]
    BY <1>5 DEF MayRise
  <2>4. ~row.probation BY <1>5 DEF Banks
  <2>5. CleanOutcome(c, row) \in CellRow BY <1>1, <1>2, <2>1, <2>2 DEF CellRow
  <2>6. CleanOutcome(c, row).level <= MaxLevel[c] BY <2>1, <2>3
  <2>7. CleanOutcome(c, row).probation = row.probation BY <2>1
  <2>. QED BY <2>3, <2>4, <2>5, <2>6, <2>7
<1>6. CASE Banks(row) /\ ~(row.streak + 1 < PromotionStreak) /\ ~MayRise(c, row)
  BY <1>1, <1>2, <1>6 DEF CleanOutcome, Banks, Held, CellRow
<1>. QED BY <1>3, <1>4, <1>5, <1>6

(* A bad outcome: PROPOSE is below every ceiling.                          *)
LEMMA BadOutcomeRow ==
    ASSUME NEW c \in Cells
    PROVE  /\ BadOutcome \in CellRow
           /\ BadOutcome.level = PROPOSE /\ PROPOSE <= MaxLevel[c]
           /\ BadOutcome.streak = 0 /\ BadOutcome.probation
<1>1. BadOutcome \in CellRow BY CellAssumption DEF BadOutcome, CellRow
<1>2. PROPOSE <= MaxLevel[c] BY CellAssumption
<1>. QED BY <1>1, <1>2 DEF BadOutcome

(* A rejection.                                                            *)
LEMMA RejectionRow ==
    ASSUME NEW row \in CellRow
    PROVE  /\ Rejection(row) \in CellRow /\ Rejection(row).streak = 0
           /\ Rejection(row).level = row.level
           /\ Rejection(row).granted = row.granted
           /\ Rejection(row).probation = row.probation
BY CellAssumption DEF Rejection, CellRow

(* A grant.                                                                *)
LEMMA GrantedRowRow ==
    ASSUME NEW row \in CellRow, NEW level \in Level
    PROVE  /\ GrantedRow(row, level) \in CellRow
           /\ GrantedRow(row, level).level = level
           /\ GrantedRow(row, level).granted /\ ~GrantedRow(row, level).probation
BY DEF GrantedRow, CellRow

(* The row of a cell nothing has happened to.                              *)
LEMMA NewCellRow ==
    ASSUME NEW c \in Cells
    PROVE  NewCell(c) \in CellRow /\ NewCell(c).level <= MaxLevel[c]
BY CellAssumption DEF NewCell, CellRow
=============================================================================
