---------------------------- MODULE CellHistory ----------------------------
(***************************************************************************)
(* CellTrust with the history its rows do not keep: how many clean         *)
(* outcomes a cell has had since its streak was last broken or spent,      *)
(* counted up to PromotionStreak.                                          *)
(***************************************************************************)
EXTENDS CellTrust

VARIABLE approvals   \* clean outcomes since the streak was broken or spent

historyVars == <<cell, approvals>>

HInit == Init /\ approvals = [c \in Cells |-> 0]

Moved(c) == cell'[c].level # cell[c].level

HClean(c) ==
    /\ Clean(c)
    /\ approvals' = [approvals EXCEPT ![c] =
           IF cell[c].probation THEN @ ELSE IF Moved(c) THEN 0 ELSE Clamp(@ + 1, PromotionStreak)]

HBreak(c) ==
    /\ Bad(c) \/ Reject(c)
    /\ approvals' = [approvals EXCEPT ![c] = 0]

HGrant(c, level) == Grant(c, level) /\ UNCHANGED approvals

HNext == \E c \in Cells : \/ HClean(c)
                          \/ HBreak(c)
                          \/ \E level \in Level : HGrant(c, level)

HSpec == HInit /\ [][HNext]_historyVars
-----------------------------------------------------------------------------
RisesByItself(c) == /\ cell'[c].level > cell[c].level
                    /\ ~cell'[c].granted
                    /\ ~cell'[c].probation

(* A level that rises without a grant rises by one rung, and PromotionStreak*)
(* clean approvals that nothing broke and no other rung spent paid for it: *)
(* "five clean approvals buy one step, not a level per approval".          *)
ApprovalsBuyOneRung ==
    [][\A c \in Cells :
          RisesByItself(c) =>
              /\ cell'[c].level = cell[c].level + 1
              /\ approvals[c] + 1 >= PromotionStreak]_historyVars
=============================================================================
