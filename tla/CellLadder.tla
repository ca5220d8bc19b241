----------------------------- MODULE CellLadder ----------------------------
(***************************************************************************)
(* What the operations of engine/escalation.py, and grant_cell() of        *)
(* engine/trust.py, do to one row of "cell_trust": one trust cell per      *)
(* (domain, action kind, blast radius).  A cell rises one rung per         *)
(* PromotionStreak clean outcomes, falls to PROPOSE on one bad outcome,    *)
(* and goes where an explicit grant puts it.                               *)
(*                                                                         *)
(* A cell whose row does not exist yet is the row _cell_for() would create *)
(* (domain default, no streak, no probation): decide() reads exactly that  *)
(* default when there is no row, so the two cannot be told apart.          *)
(***************************************************************************)
EXTENDS TrustGate

CONSTANTS Cells,            \* the cells (domain/kind/blast keys)
          PromotionStreak,  \* clean approvals that buy one rung (5 in the code)
          Promotable,       \* cells with a reversible kind and a low blast radius
          DefaultLevel,     \* DefaultLevel[c]: default_level of c's domain
          MaxLevel,         \* MaxLevel[c]: max_level of c's domain
          AbsoluteCells     \* cells of a domain with is_absolute

(* Domain rows are written by seed_domains() only: at PROPOSE, under a     *)
(* ceiling of PROPOSE or more.                                             *)
ASSUME CellAssumption ==
    /\ PromotionStreak \in Nat \ {0}
    /\ Promotable \subseteq Cells
    /\ AbsoluteCells \subseteq Cells
    /\ MaxLevel \in [Cells -> PROPOSE .. AUTONOMOUS]
    /\ DefaultLevel \in [Cells -> Level]
    /\ \A c \in Cells : DefaultLevel[c] <= MaxLevel[c]

CellRow == [level     : Level,
            streak    : 0 .. PromotionStreak,
            probation : BOOLEAN,
            granted   : BOOLEAN]     \* granted_by is not None

NewCell(c) == [level |-> DefaultLevel[c], streak |-> 0,
               probation |-> FALSE, granted |-> FALSE]

(* next_level(): the next rung of the ladder, or the rung itself when the  *)
(* cell is at the top or off the ladder (BLOCK).                           *)
NextLevel(l) == IF l \in {PROPOSE, CONFIRM} THEN l + 1 ELSE l

(* Mutant: eligibility forgotten, any kind of action may rise.             *)
MayRiseAnyKind(c, row) ==
    NextLevel(row.level) # row.level /\ NextLevel(row.level) <= MaxLevel[c]

(* _promotion_block() found nothing: the cell may rise.                    *)
MayRise(c, row) ==
    /\ c \in Promotable
    /\ c \notin AbsoluteCells
    /\ NextLevel(row.level) # row.level
    /\ NextLevel(row.level) <= MaxLevel[c]

(* Mutant: a cell on probation banks approvals like any other.             *)
BanksAlways(row) == row \in CellRow

(* On probation nothing is banked.                                         *)
Banks(row) == ~row.probation

(* A blocked cell is held at the threshold.                                *)
Held(row) == [row EXCEPT !.streak = PromotionStreak]

(* record_clean_outcome(): one more clean approval; at the threshold a     *)
(* rung, or a hold if the cell may not rise.                               *)
CleanOutcome(c, row) ==
    IF ~Banks(row)
    THEN [row EXCEPT !.streak = 0]
    ELSE IF row.streak + 1 < PromotionStreak
    THEN [row EXCEPT !.streak = @ + 1]
    ELSE IF MayRise(c, row)
    THEN [row EXCEPT !.level = NextLevel(@), !.streak = 0, !.granted = FALSE]
    ELSE Held(row)

(* record_bad_outcome(): PROPOSE, on probation, whatever the cell was.     *)
BadOutcome == [level |-> PROPOSE, streak |-> 0, probation |-> TRUE, granted |-> FALSE]

(* Mutant: a rejection is not evidence of anything.                        *)
RejectionIgnored(row) == row

(* record_rejection(): the streak breaks, the level stays.                 *)
Rejection(row) == [row EXCEPT !.streak = 0]

(* Mutant: a grant is not checked against the domain's ceiling.            *)
MayGrantAnything(c, level) == level \in Level

(* grant_cell(): refused above the domain's ceiling; clears probation,     *)
(* and leaves the banked streak as it is.                                  *)
MayGrant(c, level) == level <= MaxLevel[c]
GrantedRow(row, level) == [row EXCEPT !.level = level, !.granted = TRUE,
                                      !.probation = FALSE]
=============================================================================
