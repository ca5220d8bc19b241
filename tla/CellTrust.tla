----------------------------- MODULE CellTrust -----------------------------
(***************************************************************************)
(* The abstract specification of the moving floor: what may happen to the  *)
(* rows of "cell_trust", one outcome or one grant at a time.  Executor,    *)
(* whose concurrent sessions write those rows inside their own             *)
(* transactions, implements it.                                            *)
(***************************************************************************)
EXTENDS CellLadder

VARIABLE cell   \* cell[c]: the row of cell c

Init == cell = [c \in Cells |-> NewCell(c)]

Clean(c)  == cell' = [cell EXCEPT ![c] = CleanOutcome(c, @)]
Bad(c)    == cell' = [cell EXCEPT ![c] = BadOutcome]
Reject(c) == cell' = [cell EXCEPT ![c] = Rejection(@)]
Grant(c, level) == /\ MayGrant(c, level)
                   /\ cell' = [cell EXCEPT ![c] = GrantedRow(@, level)]

Next == \E c \in Cells : \/ Clean(c)
                         \/ Bad(c)
                         \/ Reject(c)
                         \/ \E level \in Level : Grant(c, level)

Spec == Init /\ [][Next]_cell
-----------------------------------------------------------------------------
(* Every row has its type; in particular the streak never passes the       *)
(* threshold, however long a blocked cell goes on succeeding.              *)
TypeOK == cell \in [Cells -> CellRow]

(* No cell ever stands above the ceiling of its domain: neither a grant    *)
(* nor a promotion, nor the fixed PROPOSE a demotion writes, passes it.    *)
BelowDomainCeiling == \A c \in Cells : cell[c].level <= MaxLevel[c]

(* A cell that is not promotable, or whose domain is absolute, stands      *)
(* above its default only while an explicit grant holds it there: "every   *)
(* other cell needs an explicit grant to leave PROPOSE, and never rises on *)
(* its own".                                                               *)
OnlyGrantsLiftIneligible ==
    \A c \in Cells :
        (c \notin Promotable \/ c \in AbsoluteCells)
            => cell[c].level <= DefaultLevel[c]
               \/ cell[c].granted \/ cell[c].probation

(* Probation banks nothing: the streak is zero until a grant clears it.    *)
ProbationBanksNothing ==
    \A c \in Cells : cell[c].probation => cell[c].streak = 0 /\ cell[c].level = PROPOSE
=============================================================================
