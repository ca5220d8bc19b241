-------------------------- MODULE Listener_proofs ---------------------------
(***************************************************************************)
(* The approval listener, for every number of passes, proposals and cells. *)
(*                                                                         *)
(* Two things are carried by a pass from step to step: what its proposal   *)
(* in hand was let through on, and which proposals it has already run.     *)
(* Both speak of one pass alone (PassOK).  What it has recorded ties it to *)
(* the open transaction (Keeps): a pass that has recorded anything holds   *)
(* the write lock, and the cell of a failed run stays where the failure    *)
(* put it for as long as the lock is held.  The balance of the receipts    *)
(* follows from that: what the open transaction has beyond the database is *)
(* what the one pass that holds the lock has written.                      *)
(***************************************************************************)
EXTENDS Listener, CellLadder_proofs, WellFoundedInduction,
        FiniteSetTheorems

(* A non-empty set of proposals has an oldest one.                         *)
LEMMA Oldest ==
    ASSUME NEW S \in SUBSET Proposals, S # {}
    PROVE  Min(S) \in S /\ \A q \in S : Min(S) <= q
<1>1. S \subseteq Nat BY ListenerAssumption
<1>2. \E p \in S : \A q \in S : ~ (<<q, p>> \in OpToRel(<, Nat))
  BY <1>1, NatLessThanWellFounded, WFMin, Zenon
<1>3. PICK p \in S : \A q \in S : ~ (<<q, p>> \in OpToRel(<, Nat)) BY <1>2
<1>4. \A q \in S : ~ (q < p) BY <1>1, <1>3 DEF OpToRel
<1>5. \A q \in S : p <= q BY <1>1, <1>4
<1>. QED BY <1>5 DEF Min

(* The listener passes no override and no window: decide() is bounded by   *)
(* the cell's level, acts by itself only on a verified rollback, and goes  *)
(* on after the probe wherever it went on before it.                       *)
LEMMA Decided ==
    ASSUME NEW p \in Proposals, NEW l \in Level, NEW b \in BOOLEAN, NEW v \in BOOLEAN
    PROVE  /\ DecideFor(p, l, b, v) \in Level
           /\ l = PROPOSE => ~Executes(DecideFor(p, l, b, v))
           /\ Executes(DecideFor(p, l, b, FALSE)) => Executes(DecideFor(p, l, b, v))
           /\ DecideFor(p, l, b, v) = AUTONOMOUS => v /\ l = AUTONOMOUS
<1>. DEFINE ctx == [level |-> l, probation |-> b, max |-> MaxLevel[CellOf[p]],
                    absolute |-> CellOf[p] \in AbsoluteCells, bounds |-> {},
                    window |-> NoWindow, override |-> FALSE]
<1>1. MaxLevel[CellOf[p]] \in Level
  BY ListenerAssumption, CellAssumption DEF Level, BLOCK, PROPOSE, AUTONOMOUS
<1>2. (CellOf[p] \in AbsoluteCells) \in BOOLEAN OBVIOUS
<1>3. ctx \in TrustContext BY <1>1, <1>2 DEF TrustContext
<1>4. ~Lifted(ctx) BY DEF Lifted, MatchingWindow
<1>5. ctx.level = l OBVIOUS
<1>6. DecideFor(p, l, b, v) = Decide(ctx, v) /\ DecideFor(p, l, b, FALSE) = Decide(ctx, FALSE)
  BY DEF DecideFor
<1>. HIDE DEF ctx
<1>7. Decide(ctx, v) \in Level /\ Decide(ctx, v) <= l BY <1>3, <1>5, DecideBound
<1>8. Decide(ctx, v) = AUTONOMOUS => v BY <1>3, <1>4, AutonomyNeedsReversibility
<1>9. Executes(Decide(ctx, FALSE)) => Executes(Decide(ctx, v))
  BY <1>3, PessimisticIsFinal
<1>10. l = PROPOSE => ~Executes(Decide(ctx, v))
  BY <1>7 DEF Executes, Level, BLOCK, PROPOSE, AUTONOMOUS
<1>11. Decide(ctx, v) = AUTONOMOUS => l = AUTONOMOUS
  BY <1>7 DEF Level, BLOCK, AUTONOMOUS
<1>. QED BY <1>6, <1>7, <1>8, <1>9, <1>10, <1>11
-----------------------------------------------------------------------------
(* What each transaction makes of the database.                            *)
LEMMA AnswerRecorded ==
    ASSUME NEW d \in Database, NEW p \in Proposals, NEW a
    PROVE  LET n == WithAnswer(d, p, a)
           IN  n \in Database /\ n.cell = d.cell /\ n.receipts = d.receipts
<1>1. /\ d.asks \in [Proposals -> Nat] /\ d.fresh \in SUBSET Proposals
      /\ d.answered \in SUBSET Proposals
  BY DEF Database
<1>2. /\ [d.asks EXCEPT ![p] = @ + 1] \in [Proposals -> Nat]
      /\ d.fresh \cup {p} \in SUBSET Proposals /\ d.answered \cup {p} \in SUBSET Proposals
  BY <1>1
<1>. QED BY <1>2 DEF Database, WithAnswer

(* Receipt, outcome and cell of a run.                                     *)
LEMMA RunRecorded ==
    ASSUME NEW d \in Database, NEW p \in Proposals, NEW r \in Result
    PROVE  LET n == Recorded(d, p, r)
           IN  /\ n \in Database
               /\ n.receipts = [d.receipts EXCEPT ![p][r] = @ + 1]
               /\ \A c \in Cells : c # CellOf[p] => n.cell[c] = d.cell[c]
               /\ r = "failed" => n.cell[CellOf[p]].level = PROPOSE
<1>1. /\ d.receipts \in [Proposals -> [Result -> Nat]] /\ d.cell \in [Cells -> CellRow]
      /\ d.outcome \in [Proposals -> {"pending", "accepted", "rejected"}]
      /\ CellOf[p] \in Cells
  BY ListenerAssumption DEF Database
<1>2. [d.receipts EXCEPT ![p][r] = @ + 1] \in [Proposals -> [Result -> Nat]] BY <1>1
<1>3. [d.outcome EXCEPT ![p] = IF r = "succeeded" THEN "accepted" ELSE @]
        \in [Proposals -> {"pending", "accepted", "rejected"}]
  BY <1>1
<1>4. CellAfter(CellOf[p], d.cell[CellOf[p]], r) \in CellRow
  BY <1>1, CleanOutcomeRow, BadOutcomeRow DEF CellAfter, Result
<1>5. r = "failed" => CellAfter(CellOf[p], d.cell[CellOf[p]], r).level = PROPOSE
  BY DEF CellAfter, BadOutcome
<1>6. [d.cell EXCEPT ![CellOf[p]] = CellAfter(CellOf[p], @, r)] \in [Cells -> CellRow]
  BY <1>1, <1>4
<1>. QED BY <1>1, <1>2, <1>3, <1>5, <1>6 DEF Database, Recorded

(* The operator's grant and rejection.                                     *)
LEMMA OperatorTypes ==
    ASSUME NEW d \in Database
    PROVE  /\ \A c \in Cells, l \in Level :
                LET n == [d EXCEPT !.cell[c] = GrantedRow(@, l)]
                IN  n \in Database /\ n.receipts = d.receipts
           /\ \A p \in Proposals :
                LET n == [d EXCEPT !.outcome[p] = "rejected", !.cell[CellOf[p]] = Rejection(@)]
                IN  n \in Database /\ n.receipts = d.receipts
           /\ LET n == [d EXCEPT !.fresh = {}]
              IN  n \in Database /\ n.cell = d.cell /\ n.receipts = d.receipts
<1>1. /\ d.cell \in [Cells -> CellRow]
      /\ d.outcome \in [Proposals -> {"pending", "accepted", "rejected"}]
  BY DEF Database
<1>2. ASSUME NEW c \in Cells, NEW l \in Level
      PROVE  LET n == [d EXCEPT !.cell[c] = GrantedRow(@, l)]
             IN  n \in Database /\ n.receipts = d.receipts
  <2>1. [d.cell EXCEPT ![c] = GrantedRow(@, l)] \in [Cells -> CellRow]
    BY <1>1, GrantedRowRow
  <2>. QED BY <2>1 DEF Database
<1>3. ASSUME NEW p \in Proposals
      PROVE  LET n == [d EXCEPT !.outcome[p] = "rejected", !.cell[CellOf[p]] = Rejection(@)]
             IN  n \in Database /\ n.receipts = d.receipts
  <2>1. CellOf[p] \in Cells BY ListenerAssumption
  <2>2. [d.cell EXCEPT ![CellOf[p]] = Rejection(@)] \in [Cells -> CellRow]
    BY <1>1, <2>1, RejectionRow
  <2>3. [d.outcome EXCEPT ![p] = "rejected"]
          \in [Proposals -> {"pending", "accepted", "rejected"}]
    BY <1>1
  <2>. QED BY <2>2, <2>3 DEF Database
<1>4. LET n == [d EXCEPT !.fresh = {}]
      IN  n \in Database /\ n.cell = d.cell /\ n.receipts = d.receipts
  BY DEF Database
<1>. QED BY <1>2, <1>3, <1>4
-----------------------------------------------------------------------------
(* The states of a pass that has a proposal in hand.                       *)
InHand == {"probing", "cleared", "dispatched"}

(* A pass by itself: what its proposal in hand was let through on, and     *)
(* that it has run the oldest of its proposals and none of the others.     *)
PassOK(x) ==
    LET p == Min(x.todo)
    IN  /\ x \in Pass /\ x.todo \subseteq x.asked
        /\ x.pc \in InHand => x.todo # {}
        /\ x.pc \in {"idle", "asking"} => \A q \in Proposals : x.made[q] = "none"
        /\ x.pc = "probing" => Executes(DecideFor(p, x.level, x.probation, FALSE))
        /\ x.pc \in {"cleared", "dispatched"} /\ (x.level # AUTONOMOUS \/ p \notin Invertible)
             => x.answer[p] = "approve"
        /\ x.pc = "dispatched" => x.made[p] # "none"
        /\ \A q \in x.todo : x.made[q] # "none" => x.pc = "dispatched" /\ q = p
        /\ \A q \in Proposals \ x.todo : x.made[q] # "none" => \A r \in x.todo : q < r

(* A pass at rest.                                                         *)
LEMMA IdleOK == PassOK(Idle)
BY DEF PassOK, Idle, Pass, InHand, Level, BLOCK, AUTONOMOUS

(* A pass that has sent its prompts.                                       *)
LEMMA BeginOK ==
    ASSUME NEW R \in SUBSET Proposals
    PROVE  PassOK([Idle EXCEPT !.pc = "asking", !.asked = R, !.todo = R])
<1>. DEFINE y == [Idle EXCEPT !.pc = "asking", !.asked = R, !.todo = R]
<1>1. Idle \in Pass /\ \A q \in Proposals : Idle.made[q] = "none"
  BY IdleOK DEF PassOK, Idle
<1>2. y \in Pass /\ y.pc = "asking" /\ y.asked = R /\ y.todo = R /\ y.made = Idle.made
  BY <1>1 DEF Pass, Idle
<1>. HIDE DEF y
<1>3. PassOK(y) BY <1>1, <1>2 DEF PassOK, InHand
<1>. QED BY <1>3 DEF y

(* An answer, while prompts are open.                                      *)
LEMMA AnswerOK ==
    ASSUME NEW x, PassOK(x), x.pc = "asking", NEW p \in Proposals, NEW a \in Answer
    PROVE  PassOK([x EXCEPT !.answer[p] = a])
<1>. DEFINE y == [x EXCEPT !.answer[p] = a]
<1>1. x \in Pass BY DEF PassOK
<1>2. [x.answer EXCEPT ![p] = a] \in [Proposals -> Answer \cup {"none"}]
  BY <1>1 DEF Pass
<1>3. /\ y \in Pass /\ y.pc = x.pc /\ y.asked = x.asked /\ y.todo = x.todo
      /\ y.made = x.made
  BY <1>1, <1>2 DEF Pass
<1>. HIDE DEF y
<1>4. PassOK(y) BY <1>3 DEF PassOK, InHand
<1>. QED BY <1>4 DEF y

(* The prompts are answered: a pass begins to run what was.                *)
LEMMA GatheredOK ==
    ASSUME NEW x, PassOK(x), x.pc = "asking", NEW T, T \subseteq x.todo
    PROVE  PassOK([x EXCEPT !.pc = "running", !.todo = T])
<1>. DEFINE y == [x EXCEPT !.pc = "running", !.todo = T]
<1>1. x \in Pass /\ x.todo \subseteq x.asked /\ \A q \in Proposals : x.made[q] = "none"
  BY DEF PassOK
<1>2. y \in Pass /\ y.pc = "running" /\ y.asked = x.asked /\ y.todo = T /\ y.made = x.made
  BY <1>1 DEF Pass
<1>. HIDE DEF y
<1>3. T \subseteq Proposals BY <1>1 DEF Pass
<1>4. PassOK(y) BY <1>1, <1>2, <1>3 DEF PassOK, InHand
<1>. QED BY <1>4 DEF y

(* A pass goes on to its next proposal.                                    *)
LEMMA FollowingOK ==
    ASSUME NEW x, PassOK(x), x.pc \in {"running", "probing", "dispatched"}, x.todo # {}
    PROVE  PassOK(Following(x, Min(x.todo)))
<1>. DEFINE p == Min(x.todo)
            y == Following(x, p)
<1>1. x \in Pass /\ x.todo \subseteq x.asked BY DEF PassOK
<1>2. x.todo \in SUBSET Proposals BY <1>1 DEF Pass
<1>3. p \in x.todo /\ \A q \in x.todo : p <= q BY <1>2, Oldest
<1>4. /\ y \in Pass /\ y.pc = "running" /\ y.asked = x.asked /\ y.todo = x.todo \ {p}
      /\ y.made = x.made
  BY <1>1 DEF Pass, Following
<1>5. /\ \A q \in x.todo : x.made[q] # "none" => q = p
      /\ \A q \in Proposals \ x.todo : x.made[q] # "none" => \A r \in x.todo : q < r
  BY DEF PassOK
<1>. HIDE DEF y, p
<1>6. \A q \in x.todo \ {p} : p < q
  <2>. SUFFICES ASSUME NEW q \in x.todo \ {p} PROVE p < q OBVIOUS
  <2>1. p \in Nat /\ q \in Nat BY <1>2, <1>3, ListenerAssumption
  <2>. QED BY <1>3, <2>1
<1>7. PassOK(y) BY <1>1, <1>2, <1>3, <1>4, <1>5, <1>6 DEF PassOK, InHand
<1>. QED BY <1>7 DEF y, p

(* The gate lets the proposal in hand through.                             *)
LEMMA GateOK ==
    ASSUME NEW x, PassOK(x), x.pc = "running", x.todo # {},
           NEW l \in Level, NEW b \in BOOLEAN,
           Executes(DecideFor(Min(x.todo), l, b, FALSE))
    PROVE  PassOK([x EXCEPT !.pc = "probing", !.level = l, !.probation = b])
<1>. DEFINE y == [x EXCEPT !.pc = "probing", !.level = l, !.probation = b]
<1>1. x \in Pass /\ x.todo \subseteq x.asked BY DEF PassOK
<1>2. /\ y \in Pass /\ y.pc = "probing" /\ y.asked = x.asked /\ y.todo = x.todo
      /\ y.made = x.made /\ y.level = l /\ y.probation = b
  BY <1>1 DEF Pass
<1>3. /\ \A q \in x.todo : x.made[q] = "none"
      /\ \A q \in Proposals \ x.todo : x.made[q] # "none" => \A r \in x.todo : q < r
  BY DEF PassOK
<1>. HIDE DEF y
<1>4. PassOK(y) BY <1>1, <1>2, <1>3 DEF PassOK, InHand
<1>. QED BY <1>4 DEF y

(* The answer, or the verified inverse, lets it run.                       *)
LEMMA ClearedOK ==
    ASSUME NEW x, PassOK(x), x.pc = "probing",
           x.level # AUTONOMOUS \/ Min(x.todo) \notin Invertible
             => x.answer[Min(x.todo)] = "approve"
    PROVE  PassOK([x EXCEPT !.pc = "cleared"])
<1>. DEFINE y == [x EXCEPT !.pc = "cleared"]
<1>1. x \in Pass /\ x.todo \subseteq x.asked /\ x.todo # {} BY DEF PassOK, InHand
<1>2. /\ y \in Pass /\ y.pc = "cleared" /\ y.asked = x.asked /\ y.todo = x.todo
      /\ y.made = x.made /\ y.level = x.level /\ y.answer = x.answer
  BY <1>1 DEF Pass
<1>3. /\ \A q \in x.todo : x.made[q] = "none"
      /\ \A q \in Proposals \ x.todo : x.made[q] # "none" => \A r \in x.todo : q < r
  BY DEF PassOK
<1>. HIDE DEF y
<1>4. PassOK(y) BY <1>1, <1>2, <1>3 DEF PassOK, InHand
<1>. QED BY <1>4 DEF y

(* It has run.                                                             *)
LEMMA DispatchedOK ==
    ASSUME NEW x, PassOK(x), x.pc = "cleared", NEW r \in Result
    PROVE  PassOK([x EXCEPT !.pc = "dispatched", !.made[Min(x.todo)] = r])
<1>. DEFINE p == Min(x.todo)
            y == [x EXCEPT !.pc = "dispatched", !.made[p] = r]
<1>1. x \in Pass /\ x.todo \subseteq x.asked /\ x.todo # {} BY DEF PassOK, InHand
<1>2. x.todo \in SUBSET Proposals BY <1>1 DEF Pass
<1>3. p \in x.todo /\ p \in Proposals BY <1>1, <1>2, Oldest
<1>4. x.made \in [Proposals -> Result \cup {"none"}] BY <1>1 DEF Pass
<1>5. /\ y \in Pass /\ y.pc = "dispatched" /\ y.asked = x.asked /\ y.todo = x.todo
      /\ y.made = [x.made EXCEPT ![p] = r] /\ y.level = x.level /\ y.answer = x.answer
  BY <1>1, <1>3, <1>4 DEF Pass
<1>6. /\ \A q \in x.todo : x.made[q] = "none"
      /\ \A q \in Proposals \ x.todo : x.made[q] # "none" => \A t \in x.todo : q < t
      /\ x.level # AUTONOMOUS \/ p \notin Invertible => x.answer[p] = "approve"
  BY DEF PassOK
<1>7. r # "none" BY DEF Result
<1>. HIDE DEF y, p
<1>8. /\ y.made[p] = r
      /\ \A q \in Proposals \ {p} : y.made[q] = x.made[q]
  BY <1>3, <1>4, <1>5
<1>9. PassOK(y) BY <1>1, <1>2, <1>3, <1>5, <1>6, <1>7, <1>8 DEF PassOK, InHand, p
<1>. QED BY <1>9 DEF y, p
-----------------------------------------------------------------------------
(* A pass and the transaction w is writing in d: whoever has recorded a    *)
(* run holds the lock, and after a failure the cell stays at PROPOSE, so   *)
(* that no later proposal of it is in hand or has run.                     *)
Keeps(s, x, w, d) ==
    /\ \A q \in Proposals \ x.todo : x.made[q] # "none" => w = s
    /\ \A p \in Proposals \ x.todo :
          x.made[p] = "failed" =>
             /\ d.cell[CellOf[p]].level = PROPOSE
             /\ \A q \in Proposals : p < q /\ CellOf[q] = CellOf[p] => x.made[q] = "none"
             /\ x.pc \in InHand => CellOf[Min(x.todo)] # CellOf[p]

(* A pass that has run nothing owes nothing to the transaction.            *)
LEMMA NothingRun ==
    ASSUME NEW s, NEW x, NEW w, NEW d, \A q \in Proposals : x.made[q] = "none"
    PROVE  Keeps(s, x, w, d)
BY DEF Keeps

(* Going on without having run the proposal in hand.                       *)
LEMMA FollowingKeeps ==
    ASSUME NEW s, NEW x, NEW w, NEW d, NEW v, NEW e,
           PassOK(x), Keeps(s, x, w, d), x.pc \in {"running", "probing"}, x.todo # {},
           w = s => v = s, w = s => e.cell = d.cell
    PROVE  Keeps(s, Following(x, Min(x.todo)), v, e)
<1>. DEFINE p == Min(x.todo)
            y == Following(x, p)
<1>1. x \in Pass BY DEF PassOK
<1>2. y.pc = "running" /\ y.todo = x.todo \ {p} /\ y.made = x.made
  BY <1>1 DEF Pass, Following
<1>3. \A q \in x.todo : x.made[q] = "none" BY DEF PassOK
<1>. HIDE DEF y, p
<1>4. \A q \in Proposals \ y.todo : y.made[q] # "none" => q \in Proposals \ x.todo
  BY <1>2, <1>3
<1>5. Keeps(s, y, v, e)
  <2>1. \A q \in Proposals \ y.todo : y.made[q] # "none" => v = s
    BY <1>2, <1>4 DEF Keeps
  <2>2. ASSUME NEW q \in Proposals \ y.todo, y.made[q] = "failed"
        PROVE  /\ e.cell[CellOf[q]].level = PROPOSE
               /\ \A t \in Proposals : q < t /\ CellOf[t] = CellOf[q] => y.made[t] = "none"
    <3>1. q \in Proposals \ x.todo /\ x.made[q] = "failed" /\ x.made[q] # "none"
      BY <1>2, <1>4, <2>2
    <3>2. w = s BY <3>1 DEF Keeps
    <3>. QED BY <1>2, <3>1, <3>2 DEF Keeps
  <2>3. y.pc \notin InHand BY <1>2 DEF InHand
  <2>. QED BY <2>1, <2>2, <2>3 DEF Keeps
<1>. QED BY <1>5 DEF y, p

(* A pass whose runs and queue stay as they are.                           *)
LEMMA SameRuns ==
    ASSUME NEW s, NEW x, NEW y, NEW w, NEW d, NEW v, NEW e,
           Keeps(s, x, w, d), y.made = x.made, y.todo = x.todo,
           w = s => v = s, w = s => e.cell = d.cell,
           y.pc \in InHand =>
             \/ x.pc \in InHand
             \/ \A p \in Proposals \ x.todo :
                   x.made[p] = "failed" => CellOf[Min(x.todo)] # CellOf[p]
    PROVE  Keeps(s, y, v, e)
<1>1. \A q \in Proposals \ y.todo : y.made[q] # "none" => w = s BY DEF Keeps
<1>2. ASSUME NEW p \in Proposals \ y.todo, y.made[p] = "failed"
      PROVE  /\ e.cell[CellOf[p]].level = PROPOSE
             /\ \A q \in Proposals : p < q /\ CellOf[q] = CellOf[p] => y.made[q] = "none"
             /\ y.pc \in InHand => CellOf[Min(y.todo)] # CellOf[p]
  <2>1. w = s BY <1>1, <1>2
  <2>2. e.cell = d.cell BY <2>1
  <2>. QED BY <1>2, <2>2 DEF Keeps
<1>. QED BY <1>1, <1>2 DEF Keeps

(* A run is made of the proposal in hand.                                  *)
LEMMA DispatchedKeeps ==
    ASSUME NEW s, NEW x, NEW w, NEW d,
           PassOK(x), Keeps(s, x, w, d), x.pc = "cleared", NEW r \in Result
    PROVE  Keeps(s, [x EXCEPT !.pc = "dispatched", !.made[Min(x.todo)] = r], w, d)
<1>. DEFINE p == Min(x.todo)
            y == [x EXCEPT !.pc = "dispatched", !.made[p] = r]
<1>1. x \in Pass /\ x.todo # {} BY DEF PassOK, InHand
<1>2. x.todo \in SUBSET Proposals BY <1>1 DEF Pass
<1>3. p \in x.todo /\ p \in Proposals BY <1>1, <1>2, Oldest
<1>4. x.made \in [Proposals -> Result \cup {"none"}] BY <1>1 DEF Pass
<1>5. y.pc = "dispatched" /\ y.todo = x.todo /\ y.made = [x.made EXCEPT ![p] = r]
  BY <1>1 DEF Pass
<1>. HIDE DEF y
<1>6. \A q \in Proposals \ {p} : y.made[q] = x.made[q] BY <1>4, <1>5
<1>7. \A q \in Proposals \ y.todo : y.made[q] = x.made[q] /\ q \in Proposals \ x.todo
  BY <1>3, <1>5, <1>6
<1>8. Keeps(s, y, w, d)
  <2>1. \A q \in Proposals \ y.todo : y.made[q] # "none" => w = s BY <1>7 DEF Keeps
  <2>2. ASSUME NEW q \in Proposals \ y.todo, y.made[q] = "failed"
        PROVE  /\ d.cell[CellOf[q]].level = PROPOSE
               /\ \A t \in Proposals : q < t /\ CellOf[t] = CellOf[q] => y.made[t] = "none"
               /\ CellOf[p] # CellOf[q]
    <3>1. q \in Proposals \ x.todo /\ x.made[q] = "failed" BY <1>7, <2>2
    <3>2. /\ d.cell[CellOf[q]].level = PROPOSE
          /\ \A t \in Proposals : q < t /\ CellOf[t] = CellOf[q] => x.made[t] = "none"
          /\ CellOf[p] # CellOf[q]
      BY <3>1 DEF Keeps, InHand
    <3>. QED BY <1>6, <3>2
  <2>. QED BY <1>5, <2>1, <2>2 DEF Keeps
<1>. QED BY <1>8 DEF y

(* The run is recorded: if it failed its cell falls here, and only here    *)
(* does the cell of an earlier failure escape being written again.         *)
LEMMA RecordedKeeps ==
    ASSUME NEW s, NEW x, NEW w, NEW d \in Database,
           PassOK(x), Keeps(s, x, w, d), x.pc = "dispatched"
    PROVE  LET p == Min(x.todo)
           IN  Keeps(s, Following(x, p), s, Recorded(d, p, x.made[p]))
<1>. DEFINE p == Min(x.todo)
            r == x.made[p]
            y == Following(x, p)
            e == Recorded(d, p, r)
<1>1. x \in Pass /\ x.todo # {} /\ r # "none" BY DEF PassOK, InHand
<1>2. x.todo \in SUBSET Proposals BY <1>1 DEF Pass
<1>3. p \in x.todo /\ p \in Proposals BY <1>1, <1>2, Oldest
<1>4. r \in Result BY <1>1, <1>3 DEF Pass
<1>5. y.pc = "running" /\ y.todo = x.todo \ {p} /\ y.made = x.made
  BY <1>1 DEF Pass, Following
<1>6. /\ \A c \in Cells : c # CellOf[p] => e.cell[c] = d.cell[c]
      /\ r = "failed" => e.cell[CellOf[p]].level = PROPOSE
  BY <1>3, <1>4, RunRecorded
<1>7. /\ \A q \in x.todo : x.made[q] # "none" => q = p
      /\ \A q \in Proposals \ x.todo : x.made[q] # "none" => \A t \in x.todo : q < t
  BY DEF PassOK
<1>. HIDE DEF y, e, r, p
<1>8. Keeps(s, y, s, e)
  <2>1. y.pc \notin InHand BY <1>5 DEF InHand
  <2>2. ASSUME NEW q \in Proposals \ y.todo, y.made[q] = "failed"
        PROVE  /\ e.cell[CellOf[q]].level = PROPOSE
               /\ \A t \in Proposals : q < t /\ CellOf[t] = CellOf[q] => y.made[t] = "none"
    <3>1. CASE q = p
      <4>1. r = "failed" BY <1>5, <2>2, <3>1 DEF r
      <4>2. ASSUME NEW t \in Proposals, p < t PROVE y.made[t] = "none"
        <5>1. CASE t \in x.todo BY <1>3, <1>5, <1>7, <4>2, <5>1, ListenerAssumption
        <5>2. CASE t \notin x.todo
          <6>1. ~(t < p) BY <1>3, <4>2, ListenerAssumption
          <6>. QED BY <1>3, <1>5, <1>7, <5>2, <6>1
        <5>. QED BY <5>1, <5>2
      <4>. QED BY <1>6, <3>1, <4>1, <4>2
    <3>2. CASE q # p
      <4>1. q \in Proposals \ x.todo /\ x.made[q] = "failed" BY <1>5, <2>2, <3>2
      <4>2. /\ d.cell[CellOf[q]].level = PROPOSE
            /\ \A t \in Proposals : q < t /\ CellOf[t] = CellOf[q] => x.made[t] = "none"
            /\ CellOf[p] # CellOf[q]
        BY <4>1 DEF Keeps, InHand, p
      <4>3. CellOf[q] \in Cells BY ListenerAssumption
      <4>. QED BY <1>5, <1>6, <4>2, <4>3
    <3>. QED BY <3>1, <3>2
  <2>. QED BY <2>1, <2>2 DEF Keeps
<1>. QED BY <1>8 DEF y, e, r, p
-----------------------------------------------------------------------------
(* The inductive invariant.                                                *)
Stores ==
    /\ db \in Database /\ draft \in Database /\ writer \in Passes \cup {NoPass}
    /\ writer = NoPass => draft = db
    /\ ran \in [Proposals -> [Result -> Nat]] /\ lost \in [Proposals -> [Result -> Nat]]
    /\ overlapped \subseteq Proposals

(* The stores are typed, and every pass is in order and keeps to the       *)
(* transaction that is open.                                               *)
PassInv ==
    /\ Stores
    /\ pass \in [Passes -> Pass]
    /\ \A s \in Passes : PassOK(pass[s]) /\ Keeps(s, pass[s], writer, draft)

(* What a pass reads is a database, and the one it writes if it writes.    *)
LEMMA ViewType ==
    ASSUME PassInv, NEW s \in Passes
    PROVE  View(s) \in Database /\ (writer = s => View(s) = draft)
BY DEF PassInv, Stores, View

(* A flush takes the lock, which nobody else had.                          *)
LEMMA FlushStep ==
    ASSUME NEW s \in Passes, NEW d, Flush(s, d)
    PROVE  writer \in {s, NoPass} /\ writer' = s /\ s # NoPass /\ draft' = d
BY ListenerAssumption DEF Flush, MayWrite

(* A step of one pass: the others owe what they owed, since one of them    *)
(* that has recorded anything holds the lock, and then nobody writes.      *)
LEMMA OnePassMoves ==
    ASSUME PassInv, NEW s \in Passes, NEW x, Move(s, x), PassOK(x),
           Keeps(s, x, writer', draft'), Stores',
           \/ writer \in {s, NoPass}
           \/ writer' = writer /\ draft' = draft
    PROVE  PassInv'
<1>1. /\ pass \in [Passes -> Pass] /\ pass' = [pass EXCEPT ![s] = x]
      /\ \A t \in Passes : PassOK(pass[t]) /\ Keeps(t, pass[t], writer, draft)
  BY DEF PassInv, Move
<1>2. x \in Pass BY DEF PassOK
<1>3. pass' \in [Passes -> Pass] /\ pass'[s] = x BY <1>1, <1>2
<1>4. ASSUME NEW t \in Passes, t # s
      PROVE  PassOK(pass'[t]) /\ Keeps(t, pass'[t], writer', draft')
  <2>1. pass'[t] = pass[t] BY <1>1, <1>4
  <2>2. CASE writer' = writer /\ draft' = draft BY <1>1, <2>1, <2>2
  <2>3. CASE writer \in {s, NoPass}
    <3>1. writer # t BY <1>4, <2>3, ListenerAssumption
    <3>2. \A q \in Proposals \ pass[t].todo : pass[t].made[q] = "none"
      BY <1>1, <3>1 DEF Keeps
    <3>3. Keeps(t, pass[t], writer', draft') BY <3>2 DEF Keeps
    <3>. QED BY <1>1, <2>1, <3>3
  <2>. QED BY <2>2, <2>3
<1>. QED BY <1>3, <1>4 DEF PassInv

(* A pass in hand of a proposal.                                           *)
LEMMA InHandFacts ==
    ASSUME PassInv, NEW s \in Passes, pass[s].todo # {}
    PROVE  /\ pass[s] \in Pass /\ PassOK(pass[s]) /\ Keeps(s, pass[s], writer, draft)
           /\ Current(s) = Min(pass[s].todo)
           /\ Current(s) \in pass[s].todo /\ Current(s) \in Proposals
           /\ CellOf[Current(s)] \in Cells
<1>1. pass[s] \in Pass /\ PassOK(pass[s]) /\ Keeps(s, pass[s], writer, draft)
  BY DEF PassInv
<1>2. pass[s].todo \in SUBSET Proposals BY <1>1 DEF Pass
<1>3. Min(pass[s].todo) \in pass[s].todo BY <1>2, Oldest
<1>. QED BY <1>1, <1>2, <1>3, ListenerAssumption DEF Current

(* A pass begins with nothing run.                                         *)
LEMMA BeginStep ==
    ASSUME PassInv, NEW s \in Passes, Begin(s)
    PROVE  PassInv'
<1>1. Ready(db) \in SUBSET Proposals BY DEF Ready, Candidates
<1>. DEFINE x == [Idle EXCEPT !.pc = "asking", !.asked = Ready(db), !.todo = Ready(db)]
<1>2. PassOK(x) BY <1>1, BeginOK
<1>3. Move(s, x) /\ UNCHANGED <<db, draft, writer, ran, lost>> BY DEF Begin
<1>4. \A q \in Proposals : x.made[q] = "none"
  <2>1. x.made = Idle.made BY DEF Idle
  <2>. QED BY <2>1 DEF Idle
<1>. HIDE DEF x
<1>5. Keeps(s, x, writer', draft') BY <1>4, NothingRun
<1>6. overlapped' \subseteq Proposals BY <1>1 DEF Begin, PassInv, Stores
<1>7. Stores' BY <1>3, <1>6 DEF PassInv, Stores
<1>. QED BY <1>2, <1>3, <1>5, <1>7, OnePassMoves

(* A tap is heard by every pass that waits: none of them has run anything. *)
LEMMA TapStep ==
    ASSUME PassInv, NEW p \in Proposals, NEW a \in {"approve", "deny"}, Tap(p, a)
    PROVE  PassInv'
<1>1. /\ pass \in [Passes -> Pass]
      /\ \A s \in Passes : PassOK(pass[s]) /\ Keeps(s, pass[s], writer, draft)
  BY DEF PassInv
<1>2. /\ pass' = [s \in Passes |-> IF Waits(s, p) THEN [pass[s] EXCEPT !.answer[p] = a]
                                   ELSE pass[s]]
      /\ UNCHANGED <<db, draft, writer, ran, lost, overlapped>>
  BY DEF Tap
<1>3. ASSUME NEW s \in Passes
      PROVE  PassOK(pass'[s]) /\ Keeps(s, pass'[s], writer, draft)
  <2>1. CASE ~Waits(s, p) BY <1>1, <1>2, <2>1
  <2>2. CASE Waits(s, p)
    <3>1. pass[s].pc = "asking" /\ a \in Answer BY <2>2 DEF Waits, Answer
    <3>2. pass'[s] = [pass[s] EXCEPT !.answer[p] = a] BY <1>2, <2>2
    <3>3. PassOK(pass'[s]) BY <1>1, <3>1, <3>2, AnswerOK
    <3>4. pass'[s].made = pass[s].made BY <1>1, <3>2 DEF Pass
    <3>5. PassOK(pass[s]) BY <1>1
    <3>6. \A q \in Proposals : pass[s].made[q] = "none" BY <3>1, <3>5 DEF PassOK
    <3>7. Keeps(s, pass'[s], writer, draft) BY <3>4, <3>6, NothingRun
    <3>. QED BY <3>3, <3>7
  <2>. QED BY <2>1, <2>2
<1>4. pass' \in [Passes -> Pass]
  <2>1. \A s \in Passes : pass'[s] \in Pass BY <1>3 DEF PassOK
  <2>. QED BY <1>2, <2>1
<1>5. Stores' BY <1>2 DEF PassInv, Stores
<1>. QED BY <1>2, <1>3, <1>4, <1>5 DEF PassInv

(* A prompt expires, or its channel fails, while prompts are open.         *)
LEMMA ExpiresStep ==
    ASSUME PassInv, NEW s \in Passes, NEW p \in Proposals, Expires(s, p)
    PROVE  PassInv'
<1>1. PICK a \in {"timeout", "channel failed"} : Move(s, [pass[s] EXCEPT !.answer[p] = a])
  BY DEF Expires
<1>. DEFINE x == [pass[s] EXCEPT !.answer[p] = a]
<1>2. /\ PassOK(pass[s]) /\ pass[s] \in Pass /\ pass[s].pc = "asking"
      /\ UNCHANGED <<db, draft, writer, ran, lost, overlapped>>
  BY DEF Expires, Waits, PassInv
<1>3. PassOK(x) BY <1>2, AnswerOK DEF Answer
<1>4. x.made = pass[s].made BY <1>2 DEF Pass
<1>. HIDE DEF x
<1>5. \A q \in Proposals : x.made[q] = "none" BY <1>2, <1>4 DEF PassOK
<1>6. Keeps(s, x, writer', draft') BY <1>5, NothingRun
<1>7. Stores' BY <1>2 DEF PassInv, Stores
<1>8. Move(s, x) BY <1>1 DEF x
<1>. QED BY <1>2, <1>3, <1>6, <1>7, <1>8, OnePassMoves

(* The prompts are answered before anything has run.                       *)
LEMMA GatheredStep ==
    ASSUME PassInv, NEW s \in Passes, Gathered(s)
    PROVE  PassInv'
<1>. DEFINE T == {p \in pass[s].todo : pass[s].answer[p] # "channel failed"}
            x == [pass[s] EXCEPT !.pc = "running", !.todo = T]
<1>1. /\ PassOK(pass[s]) /\ pass[s] \in Pass /\ pass[s].pc = "asking" /\ Move(s, x)
      /\ UNCHANGED <<db, draft, writer, ran, lost, overlapped>>
  BY DEF Gathered, PassInv
<1>2. T \subseteq pass[s].todo OBVIOUS
<1>. HIDE DEF T
<1>3. PassOK(x) BY <1>1, <1>2, GatheredOK
<1>4. x.made = pass[s].made BY <1>1 DEF Pass
<1>. HIDE DEF x
<1>5. \A q \in Proposals : x.made[q] = "none" BY <1>1, <1>4 DEF PassOK
<1>6. Keeps(s, x, writer', draft') BY <1>5, NothingRun
<1>7. Stores' BY <1>1 DEF PassInv, Stores
<1>. QED BY <1>1, <1>3, <1>6, <1>7, OnePassMoves

(* The gate: a proposal whose cell a failure of this pass has demoted is   *)
(* declined, for the pass reads the row it has itself written.             *)
LEMMA GateStep ==
    ASSUME PassInv, NEW s \in Passes, Gate(s)
    PROVE  PassInv'
<1>. DEFINE p   == Current(s)
            row == View(s).cell[CellOf[p]]
            x   == [pass[s] EXCEPT !.pc = "probing", !.level = row.level,
                                   !.probation = row.probation]
<1>1. /\ pass[s].pc = "running" /\ pass[s].todo # {}
      /\ UNCHANGED <<db, draft, writer, ran, lost, overlapped>>
  BY DEF Gate
<1>2. /\ pass[s] \in Pass /\ PassOK(pass[s]) /\ Keeps(s, pass[s], writer, draft)
      /\ p = Min(pass[s].todo) /\ p \in Proposals /\ CellOf[p] \in Cells
  BY <1>1, InHandFacts
<1>3. View(s) \in Database /\ (writer = s => View(s) = draft) BY ViewType
<1>4. row \in CellRow BY <1>2, <1>3 DEF Database
<1>5. row.level \in Level /\ row.probation \in BOOLEAN BY <1>4 DEF CellRow
<1>6. Stores' BY <1>1 DEF PassInv, Stores
<1>7. Pessimistic(View(s), p) = DecideFor(p, row.level, row.probation, FALSE)
  BY DEF Pessimistic
<1>8. CASE Executes(Pessimistic(View(s), p))
  <2>1. Move(s, x) BY <1>8 DEF Gate
  <2>2. PassOK(x) BY <1>1, <1>2, <1>5, <1>7, <1>8, GateOK, ZenonT(40)
  <2>3. x.made = pass[s].made /\ x.todo = pass[s].todo BY <1>2 DEF Pass
  <2>4. row.level # PROPOSE
    <3>1. row.level = PROPOSE => ~Executes(DecideFor(p, row.level, row.probation, FALSE))
      <4>. HIDE DEF row, p
      <4>. QED BY <1>2, <1>5, Decided
    <3>. QED BY <1>7, <1>8, <3>1
  <2>5. ASSUME NEW q \in Proposals \ pass[s].todo, pass[s].made[q] = "failed"
        PROVE  CellOf[Min(pass[s].todo)] # CellOf[q]
    <3>1. writer = s /\ draft.cell[CellOf[q]].level = PROPOSE BY <1>2, <2>5 DEF Keeps
    <3>. QED BY <1>2, <1>3, <2>4, <3>1
  <2>. HIDE DEF x
  <2>6. Keeps(s, x, writer', draft') BY <1>1, <1>2, <2>3, <2>5, SameRuns
  <2>. QED BY <1>1, <1>6, <2>1, <2>2, <2>6, OnePassMoves
<1>9. CASE ~Executes(Pessimistic(View(s), p))
  <2>1. Move(s, Following(pass[s], p)) BY <1>9 DEF Gate
  <2>2. PassOK(Following(pass[s], p)) BY <1>1, <1>2, FollowingOK
  <2>3. Keeps(s, Following(pass[s], p), writer', draft')
    BY <1>1, <1>2, FollowingKeeps
  <2>. QED BY <1>1, <1>6, <2>1, <2>2, <2>3, OnePassMoves
<1>. QED BY <1>8, <1>9

(* The answer is recorded and obeyed at CONFIRM; what goes on without one  *)
(* is at AUTONOMOUS, and so has its verified inverse.                      *)
LEMMA ConfirmStep ==
    ASSUME PassInv, NEW s \in Passes, NEW v \in BOOLEAN, Confirm(s, v)
    PROVE  PassInv'
<1>. DEFINE p == Current(s)
            a == pass[s].answer[p]
            x == [pass[s] EXCEPT !.pc = "cleared"]
            decision == DecideFor(p, pass[s].level, pass[s].probation, v)
<1>1. /\ pass[s].pc = "probing" /\ (v => p \in Invertible)
      /\ UNCHANGED <<db, ran, lost, overlapped>>
  BY DEF Confirm
<1>2. /\ pass[s] \in Pass /\ PassOK(pass[s]) /\ pass[s].todo # {}
      /\ Keeps(s, pass[s], writer, draft)
      /\ p = Min(pass[s].todo) /\ p \in Proposals
  <2>1. pass[s].todo # {} BY <1>1 DEF PassInv, PassOK, InHand
  <2>. QED BY <2>1, InHandFacts
<1>3. View(s) \in Database /\ (writer = s => View(s) = draft) BY ViewType
<1>4. x.made = pass[s].made /\ x.todo = pass[s].todo BY <1>2 DEF Pass
<1>5. pass[s].pc \in InHand BY <1>1 DEF InHand
<1>6. CASE decision = CONFIRM
  <2>. DEFINE d == WithAnswer(View(s), p, a)
  <2>1. Flush(s, d) BY <1>6 DEF Confirm
  <2>2. d \in Database /\ d.cell = View(s).cell BY <1>2, <1>3, AnswerRecorded
  <2>. HIDE DEF d
  <2>3. writer \in {s, NoPass} /\ writer' = s /\ s # NoPass /\ draft' = d
    BY <2>1, FlushStep
  <2>4. Stores' BY <1>1, <2>2, <2>3 DEF PassInv, Stores
  <2>5. writer = s => writer' = s /\ draft'.cell = draft.cell BY <1>3, <2>2, <2>3
  <2>6. CASE Consents(a)
    <3>1. Move(s, x) BY <1>6, <2>6 DEF Confirm
    <3>2. PassOK(x) BY <1>1, <1>2, <2>6, ClearedOK DEF Consents
    <3>. HIDE DEF x
    <3>3. Keeps(s, x, writer', draft') BY <1>2, <1>4, <1>5, <2>5, SameRuns
    <3>. QED BY <2>3, <2>4, <3>1, <3>2, <3>3, OnePassMoves
  <2>7. CASE ~Consents(a)
    <3>1. Move(s, Following(pass[s], p)) BY <1>6, <2>7 DEF Confirm
    <3>2. PassOK(Following(pass[s], p)) BY <1>1, <1>2, FollowingOK
    <3>3. Keeps(s, Following(pass[s], p), writer', draft')
      BY <1>1, <1>2, <2>5, FollowingKeeps
    <3>. QED BY <2>3, <2>4, <3>1, <3>2, <3>3, OnePassMoves
  <2>. QED BY <2>6, <2>7
<1>7. CASE decision # CONFIRM
  <2>1. Move(s, x) /\ UNCHANGED <<draft, writer>> BY <1>7 DEF Confirm
  <2>2. pass[s].level \in Level /\ pass[s].probation \in BOOLEAN BY <1>2 DEF Pass
  <2>3. Executes(DecideFor(p, pass[s].level, pass[s].probation, FALSE))
    BY <1>1, <1>2 DEF PassOK
  <2>4. /\ decision \in Level /\ Executes(decision)
        /\ decision = AUTONOMOUS => v /\ pass[s].level = AUTONOMOUS
    BY <1>2, <2>2, <2>3, Decided
  <2>5. decision = AUTONOMOUS
    <3>. HIDE DEF decision
    <3>. QED BY <1>7, <2>4 DEF Executes, Level, BLOCK, PROPOSE, CONFIRM, AUTONOMOUS
  <2>6. PassOK(x) BY <1>1, <1>2, <2>4, <2>5, ClearedOK
  <2>. HIDE DEF x
  <2>7. Keeps(s, x, writer', draft') BY <1>2, <1>4, <1>5, <2>1, SameRuns
  <2>8. Stores' BY <1>1, <2>1 DEF PassInv, Stores
  <2>. QED BY <2>1, <2>6, <2>7, <2>8, OnePassMoves
<1>. QED BY <1>6, <1>7

(* The proposal in hand runs: nothing is recorded of it yet.               *)
LEMMA DispatchStep ==
    ASSUME PassInv, NEW s \in Passes, Dispatch(s)
    PROVE  PassInv'
<1>. DEFINE p == Current(s)
<1>1. PICK r \in Result : /\ Move(s, [pass[s] EXCEPT !.pc = "dispatched", !.made[p] = r])
                          /\ ran' = [ran EXCEPT ![p][r] = @ + 1]
  BY DEF Dispatch
<1>2. pass[s].pc = "cleared" /\ UNCHANGED <<db, draft, writer, lost, overlapped>>
  BY DEF Dispatch
<1>3. /\ PassOK(pass[s]) /\ Keeps(s, pass[s], writer, draft)
      /\ p = Min(pass[s].todo) /\ p \in Proposals
  <2>1. pass[s].todo # {} BY <1>2 DEF PassInv, PassOK, InHand
  <2>. QED BY <2>1, InHandFacts
<1>. DEFINE x == [pass[s] EXCEPT !.pc = "dispatched", !.made[p] = r]
<1>4. PassOK(x) BY <1>2, <1>3, DispatchedOK
<1>5. Keeps(s, x, writer', draft')
  <2>1. Keeps(s, x, writer, draft) BY <1>2, <1>3, DispatchedKeeps
  <2>. HIDE DEF x
  <2>. QED BY <1>2, <2>1
<1>6. ran' \in [Proposals -> [Result -> Nat]] BY <1>1, <1>3 DEF PassInv, Stores
<1>7. Stores' BY <1>2, <1>6 DEF PassInv, Stores
<1>. QED BY <1>1, <1>2, <1>4, <1>5, <1>7, OnePassMoves

(* Its record takes the lock, or adds to what the lock already guards.     *)
LEMMA RecordStep ==
    ASSUME PassInv, NEW s \in Passes, Record(s)
    PROVE  PassInv'
<1>. DEFINE p == Current(s)
            x == Following(pass[s], p)
            d == Recorded(View(s), p, pass[s].made[p])
<1>1. /\ pass[s].pc = "dispatched" /\ Flush(s, d) /\ Move(s, x)
      /\ UNCHANGED <<db, ran, lost, overlapped>>
  BY DEF Record
<1>2. /\ PassOK(pass[s]) /\ Keeps(s, pass[s], writer, draft) /\ pass[s].todo # {}
      /\ p = Min(pass[s].todo) /\ p \in Proposals /\ pass[s] \in Pass
  <2>1. pass[s].todo # {} BY <1>1 DEF PassInv, PassOK, InHand
  <2>. QED BY <2>1, InHandFacts
<1>3. View(s) \in Database /\ (writer = s => View(s) = draft) BY ViewType
<1>4. pass[s].made[p] \in Result BY <1>1, <1>2 DEF PassOK, Pass
<1>5. d \in Database BY <1>2, <1>3, <1>4, RunRecorded
<1>6. PassOK(x) BY <1>1, <1>2, FollowingOK
<1>7. writer \in {s, NoPass} /\ writer' = s /\ s # NoPass /\ draft' = d
  BY <1>1, FlushStep
<1>8. Keeps(s, pass[s], writer, View(s))
  <2>1. CASE writer = s BY <1>2, <1>3, <2>1
  <2>2. CASE writer # s
    <3>1. \A q \in Proposals \ pass[s].todo : pass[s].made[q] = "none"
      BY <1>2, <2>2 DEF Keeps
    <3>. QED BY <3>1 DEF Keeps
  <2>. QED BY <2>1, <2>2
<1>9. Keeps(s, x, writer', draft') BY <1>1, <1>2, <1>3, <1>7, <1>8, RecordedKeeps
<1>10. Stores' BY <1>1, <1>5, <1>7 DEF PassInv, Stores
<1>. HIDE DEF x, d
<1>. QED BY <1>1, <1>6, <1>7, <1>9, <1>10, OnePassMoves

(* A pass that rests has run nothing.                                      *)
LEMMA IdleKeeps ==
    ASSUME NEW s, NEW w, NEW d
    PROVE  Keeps(s, Idle, w, d)
<1>1. \A q \in Proposals : Idle.made[q] = "none" BY DEF Idle
<1>. QED BY <1>1, NothingRun

(* A pass that commits gives the lock back and rests.                      *)
LEMMA CommitStep ==
    ASSUME PassInv, NEW s \in Passes, Commit(s)
    PROVE  PassInv'
<1>1. Move(s, Idle) /\ UNCHANGED <<draft, ran, lost, overlapped>> BY DEF Commit
<1>2. Keeps(s, Idle, writer', draft') /\ PassOK(Idle) BY IdleKeeps, IdleOK
<1>3. CASE writer = s
  <2>1. db' = draft /\ writer' = NoPass BY <1>3 DEF Commit
  <2>2. Stores' BY <1>1, <2>1 DEF PassInv, Stores
  <2>. QED BY <1>1, <1>2, <1>3, <2>2, OnePassMoves
<1>4. CASE writer # s
  <2>1. UNCHANGED <<db, writer>> BY <1>4 DEF Commit
  <2>2. Stores' BY <1>1, <2>1 DEF PassInv, Stores
  <2>. QED BY <1>1, <1>2, <2>1, <2>2, OnePassMoves
<1>. QED BY <1>3, <1>4

(* A death, or a database that stays locked: all that the pass recorded    *)
(* goes with its lock.                                                     *)
LEMMA AbortStep ==
    ASSUME PassInv, NEW s \in Passes, Abort(s)
    PROVE  PassInv'
<1>1. /\ Move(s, Idle) /\ UNCHANGED <<db, ran, overlapped>>
      /\ lost' = [p \in Proposals |->
                    [r \in Result |-> lost[p][r] + IF pass[s].made[p] = r THEN 1 ELSE 0]]
  BY DEF Abort
<1>2. Keeps(s, Idle, writer', draft') /\ PassOK(Idle) BY IdleKeeps, IdleOK
<1>3. lost' \in [Proposals -> [Result -> Nat]] BY <1>1 DEF PassInv, Stores
<1>4. CASE writer = s
  <2>1. draft' = db /\ writer' = NoPass BY <1>4 DEF Abort, RollBack
  <2>2. Stores' BY <1>1, <1>3, <2>1 DEF PassInv, Stores
  <2>. QED BY <1>1, <1>2, <1>4, <2>2, OnePassMoves
<1>5. CASE writer # s
  <2>1. UNCHANGED <<draft, writer>> BY <1>5 DEF Abort, RollBack
  <2>2. Stores' BY <1>1, <1>3, <2>1 DEF PassInv, Stores
  <2>. QED BY <1>1, <1>2, <2>1, <2>2, OnePassMoves
<1>. QED BY <1>4, <1>5

(* An operator's command needs the lock, so that no pass has recorded      *)
(* anything: a grant never comes between a failure and the commit.         *)
LEMMA OperatorStep ==
    ASSUME PassInv, NEW d \in Database, Operator(d)
    PROVE  PassInv'
<1>1. /\ writer = NoPass /\ db' = d /\ draft' = d
      /\ UNCHANGED <<writer, pass, ran, lost, overlapped>>
  BY DEF Operator
<1>2. ASSUME NEW s \in Passes PROVE Keeps(s, pass[s], writer', draft')
  <2>1. writer # s BY <1>1, ListenerAssumption
  <2>2. \A q \in Proposals \ pass[s].todo : pass[s].made[q] = "none"
    BY <2>1 DEF PassInv, Keeps
  <2>. QED BY <2>2 DEF Keeps
<1>. QED BY <1>1, <1>2 DEF PassInv, Stores

(* The clock touches no cell.                                              *)
LEMMA ElapseStep ==
    ASSUME PassInv, Elapse
    PROVE  PassInv'
<1>1. /\ db' = [db EXCEPT !.fresh = {}] /\ draft' = [draft EXCEPT !.fresh = {}]
      /\ UNCHANGED <<writer, pass, ran, lost, overlapped>>
  BY DEF Elapse
<1>2. /\ db' \in Database /\ draft' \in Database /\ draft'.cell = draft.cell
  BY <1>1, OperatorTypes DEF PassInv, Stores
<1>3. ASSUME NEW s \in Passes PROVE Keeps(s, pass'[s], writer', draft')
  BY <1>1, <1>2 DEF PassInv, Keeps
<1>. QED BY <1>1, <1>2, <1>3 DEF PassInv, Stores

(* The initial states.                                                     *)
LEMMA InitInv == Init => PassInv
<1>. SUFFICES ASSUME Init PROVE PassInv OBVIOUS
<1>1. [c \in Cells |-> NewCell(c)] \in [Cells -> CellRow] BY NewCellRow
<1>2. db \in Database /\ draft = db /\ writer = NoPass BY <1>1 DEF Init, Database
<1>3. Stores BY <1>2 DEF Init, Stores
<1>4. pass = [s \in Passes |-> Idle] BY DEF Init
<1>5. pass \in [Passes -> Pass] BY <1>4, IdleOK DEF PassOK
<1>6. \A s \in Passes : PassOK(pass[s]) /\ Keeps(s, pass[s], writer, draft)
  BY <1>4, IdleOK, IdleKeeps
<1>. QED BY <1>3, <1>5, <1>6 DEF PassInv

(* Every step.                                                             *)
LEMMA NextInv == PassInv /\ [Next]_vars => PassInv'
<1>. SUFFICES ASSUME PassInv, [Next]_vars PROVE PassInv' OBVIOUS
<1>1. ASSUME NEW s \in Passes, Begin(s) PROVE PassInv' BY <1>1, BeginStep
<1>2. ASSUME NEW s \in Passes, Handler(s) PROVE PassInv'
  BY <1>2, ExpiresStep, GatheredStep, GateStep, ConfirmStep, DispatchStep, RecordStep,
     CommitStep, AbortStep
     DEF Handler, Busy
<1>3. ASSUME NEW p \in Proposals, NEW a \in {"approve", "deny"}, Tap(p, a) PROVE PassInv'
  BY <1>3, TapStep
<1>4. ASSUME NEW p \in Proposals, Reject(p) PROVE PassInv'
  BY <1>4, OperatorStep, OperatorTypes DEF Reject, PassInv, Stores
<1>5. ASSUME NEW c \in Cells, NEW l \in GrantLevels, Grant(c, l) PROVE PassInv'
  BY <1>5, OperatorStep, OperatorTypes, ListenerAssumption DEF Grant, PassInv, Stores
<1>6. CASE Elapse BY <1>6, ElapseStep
<1>7. ASSUME NEW s \in Passes, Crash(s) PROVE PassInv' BY <1>7, AbortStep DEF Crash
<1>8. CASE UNCHANGED vars
  BY <1>8 DEF vars, PassInv, Stores
<1>. QED BY <1>1, <1>2, <1>3, <1>4, <1>5, <1>6, <1>7, <1>8 DEF Next, NextUp
-----------------------------------------------------------------------------
(* The invariant holds in every state.                                     *)
LEMMA PassInvariant == Spec => []PassInv
BY InitInv, NextInv, PTL DEF Spec

(* Types, and the discipline of the one write transaction.                 *)
THEOREM ListenerTypes == Spec => []TypeOK
<1>1. PassInv => TypeOK
  <2>. SUFFICES ASSUME PassInv PROVE TypeOK OBVIOUS
  <2>1. \A s \in Passes : /\ pass[s].todo \subseteq pass[s].asked
                          /\ pass[s].pc \in {"probing", "cleared", "dispatched"}
                               => pass[s].todo # {}
    BY DEF PassInv, PassOK, InHand
  <2>. QED BY <2>1 DEF PassInv, Stores, TypeOK
<1>. QED BY <1>1, PassInvariant, PTL

(* Where the cell does not act by itself, nothing runs without a yes: what *)
(* let the proposal in hand through has not changed since.                 *)
THEOREM ListenerConfirms == Spec => []ConfirmedRuns
<1>1. PassInv => ConfirmedRuns
  <2>. SUFFICES ASSUME PassInv, NEW s \in Passes,
                       pass[s].pc \in {"cleared", "dispatched"},
                       pass[s].level # AUTONOMOUS \/ Current(s) \notin Invertible
                PROVE  pass[s].answer[Current(s)] = "approve"
    BY DEF ConfirmedRuns
  <2>. QED BY DEF PassInv, PassOK, Current
<1>. QED BY <1>1, PassInvariant, PTL

(* A failure stops its cell for the rest of the pass: the pass reads the   *)
(* row it has written, and holds the lock that a grant would need.         *)
THEOREM FailureStops == Spec => []FailureStopsCell
<1>1. PassInv => FailureStopsCell
  BY DEF PassInv, Keeps, FailureStopsCell
<1>. QED BY <1>1, PassInvariant, PTL
-----------------------------------------------------------------------------
(* The passes that carry a run of p that ended in r.                       *)
Carriers(p, r) == {s \in Passes : pass[s].made[p] = r}

(* A pass that has gone past a run of its own has written its receipt.     *)
Written(x, p, r) == x.made[p] = r /\ p \notin x.todo

(* The balance, in the database and inside the open transaction.           *)
Balanced ==
    \A p \in Proposals, r \in Result :
        /\ ran[p][r] = db.receipts[p][r] + lost[p][r] + Cardinality(Carriers(p, r))
        /\ writer = NoPass => draft.receipts[p][r] = db.receipts[p][r]
        /\ writer # NoPass =>
             draft.receipts[p][r] =
               db.receipts[p][r] + IF Written(pass[writer], p, r) THEN 1 ELSE 0

(* Only the pass that holds the lock has written a receipt.                *)
LEMMA WriterWrote ==
    ASSUME PassInv, NEW s \in Passes, NEW p \in Proposals, NEW r \in Result,
           Written(pass[s], p, r)
    PROVE  writer = s
<1>1. r # "none" BY DEF Result
<1>. QED BY <1>1 DEF PassInv, Keeps, Written

(* The numbers that are balanced are numbers.                              *)
LEMMA Counts ==
    ASSUME PassInv, NEW p \in Proposals, NEW r \in Result
    PROVE  /\ ran[p][r] \in Nat /\ lost[p][r] \in Nat
           /\ db.receipts[p][r] \in Nat /\ draft.receipts[p][r] \in Nat
           /\ IsFiniteSet(Carriers(p, r)) /\ Cardinality(Carriers(p, r)) \in Nat
<1>1. IsFiniteSet(Passes) /\ Carriers(p, r) \subseteq Passes BY ListenerAssumption DEF Carriers
<1>2. IsFiniteSet(Carriers(p, r)) BY <1>1, FS_Subset
<1>3. Cardinality(Carriers(p, r)) \in Nat BY <1>2, FS_CardinalityType
<1>. QED BY <1>2, <1>3 DEF PassInv, Stores, Database

(* A step by which no run is made, recorded, kept or lost.                 *)
LEMMA NothingMoves ==
    ASSUME PassInv, PassInv', Balanced,
           \A s \in Passes : pass'[s].made = pass[s].made,
           \A s \in Passes, p \in Proposals, r \in Result :
              Written(pass'[s], p, r) <=> Written(pass[s], p, r),
           db'.receipts = db.receipts, draft'.receipts = draft.receipts,
           ran' = ran, lost' = lost,
           writer' = writer \/ writer = NoPass
    PROVE  Balanced'
<1>. SUFFICES ASSUME NEW p \in Proposals, NEW r \in Result
              PROVE  /\ ran'[p][r] = db'.receipts[p][r] + lost'[p][r] + Cardinality(Carriers(p, r)')
                     /\ writer' = NoPass => draft'.receipts[p][r] = db'.receipts[p][r]
                     /\ writer' # NoPass =>
                          draft'.receipts[p][r] =
                            db'.receipts[p][r] + IF Written(pass'[writer'], p, r) THEN 1 ELSE 0
  BY DEF Balanced
<1>1. Carriers(p, r)' = Carriers(p, r) BY DEF Carriers
<1>2. ran'[p][r] = db'.receipts[p][r] + lost'[p][r] + Cardinality(Carriers(p, r)')
  BY <1>1 DEF Balanced
<1>3. writer' \in Passes \cup {NoPass} /\ writer \in Passes \cup {NoPass}
  BY DEF PassInv, Stores
<1>4. CASE writer = NoPass
  <2>1. draft'.receipts[p][r] = db'.receipts[p][r] BY <1>4 DEF Balanced
  <2>2. ASSUME writer' # NoPass PROVE ~Written(pass'[writer'], p, r)
    <3>1. writer' \in Passes BY <1>3, <2>2
    <3>2. ~Written(pass[writer'], p, r) BY <1>4, <2>2, <3>1, WriterWrote
    <3>. QED BY <3>1, <3>2
  <2>3. db'.receipts[p][r] \in Nat BY DEF PassInv, Stores, Database
  <2>. QED BY <1>2, <2>1, <2>2, <2>3
<1>5. CASE writer # NoPass
  <2>1. writer' = writer /\ writer \in Passes BY <1>3, <1>5
  <2>2. Written(pass'[writer'], p, r) <=> Written(pass[writer], p, r) BY <2>1
  <2>. QED BY <1>2, <1>5, <2>1, <2>2 DEF Balanced
<1>. QED BY <1>4, <1>5

(* A step of one pass that makes, records, keeps and loses no run.         *)
LEMMA QuietStep ==
    ASSUME PassInv, PassInv', Balanced, NEW s \in Passes, NEW x, Move(s, x),
           x.made = pass[s].made,
           \A q \in Proposals : x.made[q] # "none" => (q \in x.todo <=> q \in pass[s].todo),
           db'.receipts = db.receipts, draft'.receipts = draft.receipts,
           ran' = ran, lost' = lost,
           writer' = writer \/ writer = NoPass
    PROVE  Balanced'
<1>1. pass \in [Passes -> Pass] /\ pass' = [pass EXCEPT ![s] = x] BY DEF PassInv, Move
<1>2. pass'[s] = x /\ \A t \in Passes \ {s} : pass'[t] = pass[t] BY <1>1
<1>3. \A t \in Passes : pass'[t].made = pass[t].made BY <1>2
<1>4. \A q \in Proposals, r \in Result : Written(x, q, r) <=> Written(pass[s], q, r)
  BY DEF Written, Result
<1>5. \A t \in Passes, q \in Proposals, r \in Result :
         Written(pass'[t], q, r) <=> Written(pass[t], q, r)
  BY <1>2, <1>4
<1>. QED BY <1>3, <1>5, NothingMoves

(* The carriers of a run, when one pass moves.                             *)
LEMMA CarriersOf ==
    ASSUME PassInv, NEW s \in Passes, NEW x, Move(s, x),
           NEW p \in Proposals, NEW r \in Result
    PROVE  LET n == Cardinality(Carriers(p, r))
           IN  /\ x.made[p] = r /\ pass[s].made[p] # r
                    => Cardinality(Carriers(p, r)') = n + 1
               /\ x.made[p] # r /\ pass[s].made[p] = r
                    => Cardinality(Carriers(p, r)') = n - 1
               /\ (x.made[p] = r) = (pass[s].made[p] = r)
                    => Cardinality(Carriers(p, r)') = n
<1>1. pass' = [pass EXCEPT ![s] = x] /\ pass \in [Passes -> Pass] BY DEF PassInv, Move
<1>2. pass'[s] = x /\ \A t \in Passes \ {s} : pass'[t] = pass[t] BY <1>1
<1>3. s \in Carriers(p, r) <=> pass[s].made[p] = r BY DEF Carriers
<1>4. IsFiniteSet(Carriers(p, r)) BY Counts
<1>5. CASE x.made[p] = r /\ pass[s].made[p] # r
  <2>1. Carriers(p, r)' = Carriers(p, r) \cup {s} BY <1>2, <1>5 DEF Carriers
  <2>2. s \notin Carriers(p, r) BY <1>3, <1>5
  <2>3. Cardinality(Carriers(p, r) \cup {s}) = Cardinality(Carriers(p, r)) + 1
    BY <1>4, <2>2, FS_AddElement
  <2>. QED BY <1>5, <2>1, <2>3
<1>6. CASE x.made[p] # r /\ pass[s].made[p] = r
  <2>1. Carriers(p, r)' = Carriers(p, r) \ {s} BY <1>2, <1>6 DEF Carriers
  <2>2. s \in Carriers(p, r) BY <1>3, <1>6
  <2>3. Cardinality(Carriers(p, r) \ {s}) = Cardinality(Carriers(p, r)) - 1
    BY <1>4, <2>2, FS_RemoveElement
  <2>. QED BY <1>6, <2>1, <2>3
<1>7. CASE (x.made[p] = r) = (pass[s].made[p] = r)
  <2>1. Carriers(p, r)' = Carriers(p, r) BY <1>2, <1>7 DEF Carriers
  <2>. QED BY <1>7, <2>1
<1>. QED BY <1>5, <1>6, <1>7
-----------------------------------------------------------------------------
(* Until its prompts are answered a pass has made no run.                  *)
LEMMA BeginBalance ==
    ASSUME PassInv, PassInv', Balanced, NEW s \in Passes, Begin(s)
    PROVE  Balanced'
<1>. DEFINE x == [Idle EXCEPT !.pc = "asking", !.asked = Ready(db), !.todo = Ready(db)]
<1>1. pass[s].pc = "idle" /\ Move(s, x) /\ UNCHANGED <<db, draft, writer, ran, lost>>
  BY DEF Begin
<1>2. x.made = [q \in Proposals |-> "none"] BY DEF Idle
<1>. HIDE DEF x
<1>3. pass[s].made \in [Proposals -> Result \cup {"none"}]
  BY DEF PassInv, Pass
<1>4. \A q \in Proposals : pass[s].made[q] = "none" BY <1>1 DEF PassInv, PassOK
<1>5. x.made = pass[s].made BY <1>2, <1>3, <1>4
<1>. QED BY <1>1, <1>4, <1>5, QuietStep

(* A tap changes answers alone.                                            *)
LEMMA TapBalance ==
    ASSUME PassInv, PassInv', Balanced,
           NEW p \in Proposals, NEW a \in {"approve", "deny"}, Tap(p, a)
    PROVE  Balanced'
<1>1. pass \in [Passes -> Pass] BY DEF PassInv
<1>2. pass' = [s \in Passes |-> IF Waits(s, p) THEN [pass[s] EXCEPT !.answer[p] = a]
                                ELSE pass[s]]
  BY DEF Tap
<1>3. \A s \in Passes : pass'[s].made = pass[s].made /\ pass'[s].todo = pass[s].todo
  BY <1>1, <1>2 DEF Pass
<1>4. UNCHANGED <<db, draft, writer, ran, lost>> BY DEF Tap
<1>. QED BY <1>3, <1>4, NothingMoves DEF Written

(* So does a prompt that expires.                                          *)
LEMMA ExpiresBalance ==
    ASSUME PassInv, PassInv', Balanced, NEW s \in Passes, NEW p \in Proposals, Expires(s, p)
    PROVE  Balanced'
<1>1. PICK a \in {"timeout", "channel failed"} : Move(s, [pass[s] EXCEPT !.answer[p] = a])
  BY DEF Expires
<1>. DEFINE x == [pass[s] EXCEPT !.answer[p] = a]
<1>2. x.made = pass[s].made /\ x.todo = pass[s].todo BY ZenonT(40) DEF PassInv, Pass
<1>3. UNCHANGED <<db, draft, writer, ran, lost>> BY DEF Expires
<1>4. Move(s, x) BY <1>1
<1>. HIDE DEF x
<1>. QED BY <1>2, <1>3, <1>4, QuietStep

(* What is dropped when the prompts are answered has not run.              *)
LEMMA GatheredBalance ==
    ASSUME PassInv, PassInv', Balanced, NEW s \in Passes, Gathered(s)
    PROVE  Balanced'
<1>. DEFINE x == [pass[s] EXCEPT
                    !.pc = "running",
                    !.todo = {p \in @ : pass[s].answer[p] # "channel failed"}]
<1>1. /\ pass[s].pc = "asking" /\ Move(s, x)
      /\ UNCHANGED <<db, draft, writer, ran, lost>>
  BY DEF Gathered
<1>2. x.made = pass[s].made BY DEF PassInv, Pass
<1>3. \A q \in Proposals : pass[s].made[q] = "none" BY <1>1 DEF PassInv, PassOK
<1>. HIDE DEF x
<1>. QED BY <1>1, <1>2, <1>3, QuietStep

(* Nor has what a pass goes by without running.                            *)
LEMMA FollowingBalance ==
    ASSUME PassInv, PassInv', Balanced, NEW s \in Passes,
           pass[s].pc \in {"running", "probing"}, pass[s].todo # {},
           Move(s, Following(pass[s], Current(s))),
           db'.receipts = db.receipts, draft'.receipts = draft.receipts,
           ran' = ran, lost' = lost,
           writer' = writer \/ writer = NoPass
    PROVE  Balanced'
<1>. DEFINE x == Following(pass[s], Current(s))
<1>1. pass[s] \in Pass BY DEF PassInv
<1>2. x.made = pass[s].made /\ x.todo = pass[s].todo \ {Current(s)}
  BY <1>1 DEF Pass, Following
<1>3. \A q \in pass[s].todo : pass[s].made[q] = "none" BY DEF PassInv, PassOK
<1>. HIDE DEF x
<1>4. \A q \in Proposals : x.made[q] # "none" => (q \in x.todo <=> q \in pass[s].todo)
  BY <1>2, <1>3
<1>5. Move(s, x) BY DEF x
<1>. QED BY <1>2, <1>4, <1>5, QuietStep

(* The gate lets a proposal through, or goes by it.                        *)
LEMMA GateBalance ==
    ASSUME PassInv, PassInv', Balanced, NEW s \in Passes, Gate(s)
    PROVE  Balanced'
<1>. DEFINE p   == Current(s)
            row == View(s).cell[CellOf[p]]
            x   == [pass[s] EXCEPT !.pc = "probing", !.level = row.level,
                                   !.probation = row.probation]
<1>1. /\ pass[s].pc = "running" /\ pass[s].todo # {}
      /\ UNCHANGED <<db, draft, writer, ran, lost>>
  BY DEF Gate
<1>2. CASE Executes(Pessimistic(View(s), p))
  <2>1. Move(s, x) BY <1>2 DEF Gate
  <2>2. x.made = pass[s].made /\ x.todo = pass[s].todo BY DEF PassInv, Pass
  <2>. HIDE DEF x
  <2>. QED BY <1>1, <2>1, <2>2, QuietStep
<1>3. CASE ~Executes(Pessimistic(View(s), p))
  <2>1. Move(s, Following(pass[s], Current(s))) BY <1>3 DEF Gate
  <2>. QED BY <1>1, <2>1, FollowingBalance
<1>. QED BY <1>2, <1>3

(* An answer leaves the receipts as they are.                              *)
LEMMA ConfirmBalance ==
    ASSUME PassInv, PassInv', Balanced, NEW s \in Passes, NEW v \in BOOLEAN, Confirm(s, v)
    PROVE  Balanced'
<1>. DEFINE p == Current(s)
            a == pass[s].answer[p]
            x == [pass[s] EXCEPT !.pc = "cleared"]
            decision == DecideFor(p, pass[s].level, pass[s].probation, v)
<1>1. pass[s].pc = "probing" /\ UNCHANGED <<db, ran, lost>> BY DEF Confirm
<1>2. pass[s].todo # {} BY <1>1 DEF PassInv, PassOK, InHand
<1>3. p \in Proposals BY <1>2, InHandFacts
<1>4. x.made = pass[s].made /\ x.todo = pass[s].todo BY DEF PassInv, Pass
<1>5. draft'.receipts = draft.receipts /\ (writer' = writer \/ writer = NoPass)
  <2>1. CASE decision = CONFIRM
    <3>. DEFINE d == WithAnswer(View(s), p, a)
    <3>1. Flush(s, d) BY <2>1 DEF Confirm
    <3>2. View(s) \in Database BY ViewType
    <3>3. d.receipts = View(s).receipts BY <1>3, <3>2, AnswerRecorded
    <3>. HIDE DEF d
    <3>4. writer \in {s, NoPass} /\ writer' = s /\ draft' = d BY <3>1, FlushStep
    <3>5. View(s).receipts = draft.receipts BY <3>4 DEF View, PassInv, Stores
    <3>. QED BY <3>3, <3>4, <3>5
  <2>2. CASE decision # CONFIRM
    <3>1. UNCHANGED <<draft, writer>> BY <2>2 DEF Confirm
    <3>. QED BY <3>1
  <2>. QED BY <2>1, <2>2
<1>6. Move(s, x) \/ Move(s, Following(pass[s], p)) BY DEF Confirm
<1>7. CASE Move(s, x)
  <2>. HIDE DEF x
  <2>. QED BY <1>1, <1>4, <1>5, <1>7, QuietStep
<1>8. CASE Move(s, Following(pass[s], p)) BY <1>1, <1>2, <1>5, <1>8, FollowingBalance
<1>. QED BY <1>6, <1>7, <1>8

(* A dispatch: one more run, and one more pass that carries it.            *)
LEMMA DispatchBalance ==
    ASSUME PassInv, PassInv', Balanced, NEW s \in Passes, Dispatch(s)
    PROVE  Balanced'
<1>. DEFINE p == Current(s)
<1>1. PICK o \in Result : /\ Move(s, [pass[s] EXCEPT !.pc = "dispatched", !.made[p] = o])
                          /\ ran' = [ran EXCEPT ![p][o] = @ + 1]
  BY DEF Dispatch
<1>. DEFINE x == [pass[s] EXCEPT !.pc = "dispatched", !.made[p] = o]
<1>2. pass[s].pc = "cleared" /\ UNCHANGED <<db, draft, writer, lost>> BY DEF Dispatch
<1>3. p \in pass[s].todo /\ p \in Proposals /\ pass[s].made[p] = "none" /\ pass[s] \in Pass
  <2>1. pass[s].todo # {} BY <1>2 DEF PassInv, PassOK, InHand
  <2>. QED BY <1>2, <2>1, InHandFacts DEF PassOK
<1>4. /\ x.todo = pass[s].todo /\ x.made[p] = o
      /\ \A q \in Proposals \ {p} : x.made[q] = pass[s].made[q]
  BY <1>3 DEF Pass
<1>5. Move(s, x) BY <1>1
<1>6. pass \in [Passes -> Pass] /\ ran \in [Proposals -> [Result -> Nat]]
  BY DEF PassInv, Stores
<1>. HIDE DEF x, p
<1>7. pass'[s] = x /\ \A t \in Passes \ {s} : pass'[t] = pass[t] BY <1>5, <1>6 DEF Move
<1>8. ASSUME NEW q \in Proposals, NEW r \in Result
      PROVE  /\ ran'[q][r] = db'.receipts[q][r] + lost'[q][r] + Cardinality(Carriers(q, r)')
             /\ writer' = NoPass => draft'.receipts[q][r] = db'.receipts[q][r]
             /\ writer' # NoPass =>
                  draft'.receipts[q][r] =
                    db'.receipts[q][r] + IF Written(pass'[writer'], q, r) THEN 1 ELSE 0
  <2>. DEFINE n == Cardinality(Carriers(q, r))
  <2>1. /\ ran[q][r] = db.receipts[q][r] + lost[q][r] + n
        /\ db.receipts[q][r] \in Nat /\ lost[q][r] \in Nat /\ n \in Nat
    BY Counts DEF Balanced
  <2>2. r # "none" BY DEF Result
  <2>3. ran'[q][r] = db.receipts[q][r] + lost[q][r] + Cardinality(Carriers(q, r)')
    <3>1. CASE q = p /\ r = o
      <4>1. ran'[q][r] = ran[q][r] + 1 BY <1>1, <1>6, <3>1
      <4>2. Cardinality(Carriers(q, r)') = n + 1
        BY <1>3, <1>4, <1>5, <2>2, <3>1, CarriersOf
      <4>. HIDE DEF n
      <4>. QED BY <2>1, <4>1, <4>2
    <3>2. CASE ~(q = p /\ r = o)
      <4>1. ran'[q][r] = ran[q][r] BY <1>1, <1>3, <1>6, <3>2
      <4>2. (x.made[q] = r) = (pass[s].made[q] = r) BY <1>3, <1>4, <2>2, <3>2
      <4>3. Cardinality(Carriers(q, r)') = n BY <1>5, <4>2, CarriersOf
      <4>. QED BY <2>1, <4>1, <4>3
    <3>. QED BY <3>1, <3>2
  <2>4. \A t \in Passes : Written(pass'[t], q, r) <=> Written(pass[t], q, r)
    <3>1. Written(x, q, r) <=> Written(pass[s], q, r) BY <1>3, <1>4 DEF Written
    <3>. QED BY <1>7, <3>1
  <2>5. writer \in Passes \cup {NoPass} BY DEF PassInv, Stores
  <2>6. writer # NoPass => (Written(pass'[writer], q, r) <=> Written(pass[writer], q, r))
    BY <2>4, <2>5
  <2>. QED BY <1>2, <2>3, <2>6 DEF Balanced
<1>. QED BY <1>8 DEF Balanced

(* A record: the run's receipt is in the open transaction.                 *)
LEMMA RecordBalance ==
    ASSUME PassInv, PassInv', Balanced, NEW s \in Passes, Record(s)
    PROVE  Balanced'
<1>. DEFINE p == Current(s)
            o == pass[s].made[p]
            x == Following(pass[s], p)
            d == Recorded(View(s), p, o)
<1>1. /\ pass[s].pc = "dispatched" /\ Flush(s, d) /\ Move(s, x)
      /\ UNCHANGED <<db, ran, lost>>
  BY DEF Record
<1>2. /\ p \in pass[s].todo /\ p \in Proposals /\ o \in Result /\ pass[s] \in Pass
      /\ \A q \in pass[s].todo : pass[s].made[q] # "none" => q = p
  <2>1. pass[s].todo # {} BY <1>1 DEF PassInv, PassOK, InHand
  <2>2. /\ PassOK(pass[s]) /\ pass[s] \in Pass /\ p = Min(pass[s].todo)
        /\ p \in pass[s].todo /\ p \in Proposals
    BY <2>1, InHandFacts
  <2>3. o # "none" /\ o \in Result \cup {"none"} BY <1>1, <2>2 DEF PassOK, Pass
  <2>. QED BY <2>2, <2>3 DEF PassOK
<1>3. x.made = pass[s].made /\ x.todo = pass[s].todo \ {p}
  BY <1>2 DEF Pass, Following
<1>4. View(s) \in Database BY ViewType
<1>5. d.receipts = [View(s).receipts EXCEPT ![p][o] = @ + 1] BY <1>2, <1>4, RunRecorded
<1>6. writer \in {s, NoPass} /\ writer' = s /\ s # NoPass /\ draft' = d BY <1>1, FlushStep
<1>7. View(s).receipts = draft.receipts BY <1>6 DEF View, PassInv, Stores
<1>8. draft.receipts \in [Proposals -> [Result -> Nat]] BY DEF PassInv, Stores, Database
<1>9. pass'[s] = x BY <1>1 DEF Move, PassInv
<1>. HIDE DEF x, d, o, p
<1>10. ASSUME NEW q \in Proposals, NEW r \in Result
       PROVE  /\ ran'[q][r] = db'.receipts[q][r] + lost'[q][r] + Cardinality(Carriers(q, r)')
              /\ draft'.receipts[q][r] =
                   db'.receipts[q][r] + IF Written(x, q, r) THEN 1 ELSE 0
  <2>1. Cardinality(Carriers(q, r)') = Cardinality(Carriers(q, r))
    BY <1>1, <1>3, CarriersOf
  <2>2. draft.receipts[q][r] = db.receipts[q][r] + IF Written(pass[s], q, r) THEN 1 ELSE 0
    <3>1. CASE writer = s BY <1>6, <3>1 DEF Balanced
    <3>2. CASE writer # s
      <4>1. ~Written(pass[s], q, r) BY <3>2, WriterWrote
      <4>2. draft.receipts[q][r] = db.receipts[q][r] BY <1>6, <3>2 DEF Balanced
      <4>. QED BY <4>1, <4>2, Counts
    <3>. QED BY <3>1, <3>2
  <2>3. db.receipts[q][r] \in Nat BY Counts
  <2>4. CASE q = p /\ r = o
    <3>1. draft'.receipts[q][r] = draft.receipts[q][r] + 1
      BY <1>5, <1>6, <1>7, <1>8, <2>4
    <3>2. ~Written(pass[s], q, r) /\ Written(x, q, r)
      BY <1>2, <1>3, <2>4 DEF Written, o
    <3>3. draft.receipts[q][r] = db.receipts[q][r] BY <2>2, <2>3, <3>2
    <3>4. draft'.receipts[q][r] = db'.receipts[q][r] + 1 BY <1>1, <3>1, <3>3
    <3>. QED BY <1>1, <2>1, <3>2, <3>4 DEF Balanced
  <2>5. CASE ~(q = p /\ r = o)
    <3>1. draft'.receipts[q][r] = draft.receipts[q][r]
      BY <1>2, <1>5, <1>6, <1>7, <1>8, <2>5
    <3>2. r # "none" BY DEF Result
    <3>3. Written(pass[s], q, r) <=> Written(x, q, r)
      BY <1>2, <1>3, <2>5, <3>2 DEF Written, o
    <3>. QED BY <1>1, <2>1, <2>2, <3>1, <3>3 DEF Balanced
  <2>. QED BY <2>4, <2>5
<1>. QED BY <1>6, <1>9, <1>10 DEF Balanced

(* The pass is over: what it wrote is committed, and it carries it no      *)
(* longer.                                                                 *)
LEMMA CommitBalance ==
    ASSUME PassInv, PassInv', Balanced, NEW s \in Passes, Commit(s)
    PROVE  Balanced'
<1>1. /\ pass[s].todo = {} /\ Move(s, Idle) /\ UNCHANGED <<draft, ran, lost>>
  BY DEF Commit
<1>2. Idle.made = [q \in Proposals |-> "none"] BY DEF Idle
<1>3. CASE writer = s
  <2>1. db' = draft /\ writer' = NoPass BY <1>3 DEF Commit
  <2>2. ASSUME NEW q \in Proposals, NEW r \in Result
        PROVE  ran'[q][r] = db'.receipts[q][r] + lost'[q][r] + Cardinality(Carriers(q, r)')
    <3>. DEFINE n == Cardinality(Carriers(q, r))
    <3>1. /\ ran[q][r] = db.receipts[q][r] + lost[q][r] + n
          /\ db.receipts[q][r] \in Nat /\ lost[q][r] \in Nat /\ n \in Nat
      BY Counts DEF Balanced
    <3>2. draft.receipts[q][r] = db.receipts[q][r] + IF Written(pass[s], q, r) THEN 1 ELSE 0
      BY <1>3, ListenerAssumption DEF Balanced
    <3>3. Idle.made[q] # r BY <1>2 DEF Result
    <3>4. CASE pass[s].made[q] = r
      <4>1. Cardinality(Carriers(q, r)') = n - 1 BY <1>1, <3>3, <3>4, CarriersOf
      <4>2. draft.receipts[q][r] = db.receipts[q][r] + 1 BY <1>1, <3>2, <3>4 DEF Written
      <4>. HIDE DEF n
      <4>. QED BY <1>1, <2>1, <3>1, <4>1, <4>2
    <3>5. CASE pass[s].made[q] # r
      <4>1. Cardinality(Carriers(q, r)') = n BY <1>1, <3>3, <3>5, CarriersOf
      <4>2. draft.receipts[q][r] = db.receipts[q][r] BY <3>1, <3>2, <3>5 DEF Written
      <4>. QED BY <1>1, <2>1, <3>1, <4>1, <4>2
    <3>. QED BY <3>4, <3>5
  <2>. QED BY <1>1, <2>1, <2>2 DEF Balanced
<1>4. CASE writer # s
  <2>1. UNCHANGED <<db, writer>> BY <1>4 DEF Commit
  <2>2. \A q \in Proposals : pass[s].made[q] = "none" BY <1>1, <1>4 DEF PassInv, Keeps
  <2>3. pass[s].made \in [Proposals -> Result \cup {"none"}] BY DEF PassInv, Pass
  <2>4. Idle.made = pass[s].made BY <1>2, <2>2, <2>3
  <2>. QED BY <1>1, <2>1, <2>2, <2>4, QuietStep
<1>. QED BY <1>3, <1>4

(* What a pass that ends otherwise carried is lost, and its receipts with  *)
(* it, written or not.                                                     *)
LEMMA AbortBalance ==
    ASSUME PassInv, PassInv', Balanced, NEW s \in Passes, Abort(s)
    PROVE  Balanced'
<1>1. /\ Move(s, Idle) /\ UNCHANGED <<db, ran>>
      /\ lost' = [p \in Proposals |->
                    [r \in Result |-> lost[p][r] + IF pass[s].made[p] = r THEN 1 ELSE 0]]
  BY DEF Abort
<1>2. \A q \in Proposals, r \in Result : Idle.made[q] # r BY DEF Idle, Result
<1>3. \A t \in Passes \ {s} : pass'[t] = pass[t] BY <1>1 DEF Move, PassInv
<1>4. ASSUME NEW q \in Proposals, NEW r \in Result
      PROVE  ran'[q][r] = db'.receipts[q][r] + lost'[q][r] + Cardinality(Carriers(q, r)')
  <2>. DEFINE n == Cardinality(Carriers(q, r))
  <2>1. /\ ran[q][r] = db.receipts[q][r] + lost[q][r] + n
        /\ db.receipts[q][r] \in Nat /\ lost[q][r] \in Nat /\ n \in Nat
    BY Counts DEF Balanced
  <2>0. ran'[q][r] = ran[q][r] /\ db'.receipts[q][r] = db.receipts[q][r] BY <1>1
  <2>2. CASE pass[s].made[q] = r
    <3>1. Cardinality(Carriers(q, r)') = n - 1 BY <1>1, <1>2, <2>2, CarriersOf
    <3>2. lost'[q][r] = lost[q][r] + 1 BY <1>1, <2>2
    <3>. HIDE DEF n
    <3>3. n = (n - 1) + 1 BY <2>1
    <3>. QED BY <2>1, <2>0, <3>1, <3>2, <3>3
  <2>3. CASE pass[s].made[q] # r
    <3>1. Cardinality(Carriers(q, r)') = n BY <1>1, <1>2, <2>3, CarriersOf
    <3>2. lost'[q][r] = lost[q][r] BY <1>1, <2>1, <2>3
    <3>. HIDE DEF n
    <3>. QED BY <2>1, <2>0, <3>1, <3>2
  <2>. QED BY <2>2, <2>3
<1>5. CASE writer = s
  <2>1. draft' = db /\ writer' = NoPass BY <1>5 DEF Abort, RollBack
  <2>. QED BY <1>1, <1>4, <2>1 DEF Balanced
<1>6. CASE writer # s
  <2>1. UNCHANGED <<draft, writer>> BY <1>6 DEF Abort, RollBack
  <2>2. writer # NoPass => pass'[writer] = pass[writer] BY <1>3, <1>6 DEF PassInv, Stores
  <2>. QED BY <1>1, <1>4, <2>1, <2>2 DEF Balanced, Written
<1>. QED BY <1>5, <1>6

(* An operator's command writes no receipt.                                *)
LEMMA OperatorBalance ==
    ASSUME PassInv, PassInv', Balanced,
           NEW d, Operator(d), d.receipts = db.receipts
    PROVE  Balanced'
<1>1. /\ writer = NoPass /\ db' = d /\ draft' = d
      /\ UNCHANGED <<writer, pass, ran, lost>>
  BY DEF Operator
<1>2. draft = db BY <1>1 DEF PassInv, Stores
<1>3. draft'.receipts = draft.receipts /\ db'.receipts = db.receipts BY <1>1, <1>2
<1>4. \A s \in Passes, p \in Proposals, r \in Result :
         Written(pass'[s], p, r) <=> Written(pass[s], p, r)
  BY <1>1
<1>. QED BY <1>1, <1>3, <1>4, NothingMoves

(* Nor does the clock.                                                     *)
LEMMA ElapseBalance ==
    ASSUME PassInv, PassInv', Balanced, Elapse
    PROVE  Balanced'
<1>1. /\ db' = [db EXCEPT !.fresh = {}] /\ draft' = [draft EXCEPT !.fresh = {}]
      /\ UNCHANGED <<writer, pass, ran, lost>>
  BY DEF Elapse
<1>2. db'.receipts = db.receipts /\ draft'.receipts = draft.receipts
  BY <1>1, OperatorTypes DEF PassInv, Stores
<1>3. \A s \in Passes, p \in Proposals, r \in Result :
         Written(pass'[s], p, r) <=> Written(pass[s], p, r)
  BY <1>1
<1>. QED BY <1>1, <1>2, <1>3, NothingMoves

(* Nothing has run yet.                                                    *)
LEMMA InitBalance == Init => Balanced
<1>. SUFFICES ASSUME Init, NEW p \in Proposals, NEW r \in Result
              PROVE  /\ ran[p][r] = db.receipts[p][r] + lost[p][r] + Cardinality(Carriers(p, r))
                     /\ draft.receipts[p][r] = db.receipts[p][r]
                     /\ writer = NoPass
  BY DEF Balanced, Init
<1>1. \A s \in Passes : pass[s].made[p] = "none" BY DEF Init, Idle
<1>2. Carriers(p, r) = {} BY <1>1 DEF Carriers, Result
<1>3. Cardinality(Carriers(p, r)) = 0 BY <1>2, FS_EmptySet
<1>4. ran[p][r] = 0 /\ lost[p][r] = 0 /\ db.receipts[p][r] = 0 /\ draft = db
  BY DEF Init
<1>. QED BY <1>3, <1>4 DEF Init

(* Every step keeps the balance.                                           *)
LEMMA NextBalance == PassInv /\ PassInv' /\ Balanced /\ [Next]_vars => Balanced'
<1>. SUFFICES ASSUME PassInv, PassInv', Balanced, [Next]_vars PROVE Balanced' OBVIOUS
<1>1. ASSUME NEW s \in Passes, Begin(s) PROVE Balanced' BY <1>1, BeginBalance
<1>2. ASSUME NEW s \in Passes, Handler(s) PROVE Balanced'
  BY <1>2, ExpiresBalance, GatheredBalance, GateBalance, ConfirmBalance, DispatchBalance,
     RecordBalance, CommitBalance, AbortBalance
     DEF Handler, Busy
<1>3. ASSUME NEW p \in Proposals, NEW a \in {"approve", "deny"}, Tap(p, a) PROVE Balanced'
  BY <1>3, TapBalance
<1>4. ASSUME NEW p \in Proposals, Reject(p) PROVE Balanced'
  BY <1>4, OperatorBalance, OperatorTypes DEF Reject, PassInv, Stores
<1>5. ASSUME NEW c \in Cells, NEW l \in GrantLevels, Grant(c, l) PROVE Balanced'
  <2>. DEFINE d == [db EXCEPT !.cell[c] = GrantedRow(@, l)]
  <2>1. Operator(d) BY <1>5 DEF Grant
  <2>2. d.receipts = db.receipts
    <3>1. db \in Database /\ l \in Level BY ListenerAssumption DEF PassInv, Stores
    <3>. QED BY <3>1 DEF Database
  <2>. HIDE DEF d
  <2>. QED BY <2>1, <2>2, OperatorBalance
<1>6. CASE Elapse BY <1>6, ElapseBalance
<1>7. ASSUME NEW s \in Passes, Crash(s) PROVE Balanced' BY <1>7, AbortBalance DEF Crash
<1>8. CASE UNCHANGED vars
  <2>1. UNCHANGED <<db, draft, writer, pass, ran, lost>> BY <1>8 DEF vars
  <2>2. \A s \in Passes, p \in Proposals, r \in Result :
           Written(pass'[s], p, r) <=> Written(pass[s], p, r)
    BY <2>1
  <2>. QED BY <2>1, <2>2, NothingMoves
<1>. QED BY <1>1, <1>2, <1>3, <1>4, <1>5, <1>6, <1>7, <1>8 DEF Next, NextUp

(* Every dispatch of every pass is accounted for once: in the database,    *)
(* with a pass that has not committed, or lost with one.  What is not yet  *)
(* committed is what the pass that holds the lock has written.             *)
THEOREM ReceiptsOfPasses == Spec => []PassesBalance
<1>1. Spec => []Balanced BY InitBalance, NextBalance, PassInvariant, PTL DEF Spec
<1>2. Balanced => PassesBalance BY DEF Balanced, PassesBalance, Carriers
<1>. QED BY <1>1, <1>2, PTL
-----------------------------------------------------------------------------
(* The passes that have p still to settle: each may yet record one more    *)
(* prompt nobody answered.                                                 *)
Askers(p) == {s \in Passes : p \in pass[s].todo}

(* Only the pass that holds the lock has recorded anything, each proposal  *)
(* once and no longer in its queue; what is recorded and what may still be *)
(* recorded stay together within the bound; and unless two passes asked    *)
(* about it at once, a proposal belongs to one pass, which has not settled *)
(* it in the database.                                                     *)
Asking ==
    /\ \A s \in Passes : pass[s].pc = "idle" => pass[s].asked = {}
    /\ writer # NoPass => pass[writer].pc # "idle"
    /\ \A p \in Proposals :
          /\ \/ draft.asks[p] = db.asks[p]
             \/ /\ draft.asks[p] = db.asks[p] + 1
                /\ writer # NoPass /\ p \notin pass[writer].todo
          /\ draft.asks[p] + Cardinality(Askers(p)) <= MaxAsks + Cardinality(Passes) - 1
    /\ \A p \in draft.answered :
          p \in db.answered \/ (writer # NoPass /\ p \in pass[writer].asked)
    /\ \A p \in Proposals \ overlapped, s \in Passes :
          /\ \A t \in Passes : p \in pass[s].asked /\ p \in pass[t].asked => s = t
          /\ p \in pass[s].todo => p \notin db.answered

(* The asks on record are numbers, and so are those who may add to them.   *)
LEMMA AskCounts ==
    ASSUME PassInv, NEW p \in Proposals
    PROVE  /\ db.asks[p] \in Nat /\ draft.asks[p] \in Nat
           /\ IsFiniteSet(Askers(p)) /\ Cardinality(Askers(p)) \in Nat
           /\ Cardinality(Passes) \in Nat
<1>1. db.asks[p] \in Nat /\ draft.asks[p] \in Nat BY DEF PassInv, Stores, Database
<1>2. IsFiniteSet(Passes) /\ Askers(p) \subseteq Passes BY ListenerAssumption DEF Askers
<1>3. IsFiniteSet(Askers(p)) BY <1>2, FS_Subset
<1>. QED BY <1>1, <1>2, <1>3, FS_CardinalityType

(* A step in which passes only go on: queues shrink, and what is written,  *)
(* the pass that holds the lock writes of its own proposals.               *)
LEMMA PassesGoOn ==
    ASSUME PassInv, PassInv', Asking,
           \A t \in Passes : /\ pass'[t].asked = pass[t].asked
                             /\ pass'[t].todo \subseteq pass[t].todo
                             /\ pass'[t].pc = "idle" => pass[t].pc = "idle",
           db'.asks = db.asks, db'.answered = db.answered, overlapped' = overlapped,
           writer' = writer \/ (writer = NoPass /\ pass'[writer'].pc # "idle"),
           \A p \in draft'.answered :
              p \in draft.answered \/ (writer' # NoPass /\ p \in pass[writer'].asked),
           \A p \in Proposals :
              \/ draft'.asks[p] = draft.asks[p]
              \/ /\ draft'.asks[p] = draft.asks[p] + 1 /\ writer' # NoPass
                 /\ p \in pass[writer'].todo /\ p \notin pass'[writer'].todo
    PROVE  Asking'
<1>1. /\ writer \in Passes \cup {NoPass} /\ writer' \in Passes \cup {NoPass}
      /\ draft.answered \subseteq Proposals
      /\ writer = NoPass => draft = db
  BY DEF PassInv, Stores, Database
<1>2. \A s \in Passes : pass'[s].pc = "idle" => pass'[s].asked = {} BY DEF Asking
<1>3. writer' # NoPass => pass'[writer'].pc # "idle" BY <1>1 DEF Asking
<1>4. ASSUME NEW p \in Proposals
      PROVE  \/ draft'.asks[p] = db'.asks[p]
             \/ /\ draft'.asks[p] = db'.asks[p] + 1
                /\ writer' # NoPass /\ p \notin pass'[writer'].todo
  <2>1. CASE draft'.asks[p] = draft.asks[p]
    <3>1. CASE draft.asks[p] = db.asks[p] BY <2>1, <3>1
    <3>2. CASE draft.asks[p] # db.asks[p]
      <4>1. /\ draft.asks[p] = db.asks[p] + 1 /\ writer # NoPass
            /\ p \notin pass[writer].todo
        BY <3>2 DEF Asking
      <4>2. writer' = writer /\ writer \in Passes BY <1>1, <4>1
      <4>. QED BY <2>1, <4>1, <4>2
    <3>. QED BY <3>1, <3>2
  <2>2. CASE draft'.asks[p] # draft.asks[p]
    <3>1. /\ draft'.asks[p] = draft.asks[p] + 1 /\ writer' # NoPass
          /\ p \in pass[writer'].todo /\ p \notin pass'[writer'].todo
      BY <2>2
    <3>2. draft.asks[p] = db.asks[p] BY <1>1, <3>1 DEF Asking
    <3>. QED BY <3>1, <3>2
  <2>. QED BY <2>1, <2>2
<1>5. ASSUME NEW p \in Proposals
      PROVE  draft'.asks[p] + Cardinality(Askers(p)')
               <= MaxAsks + Cardinality(Passes) - 1
  <2>1. Askers(p)' \subseteq Askers(p) BY DEF Askers
  <2>2. draft.asks[p] + Cardinality(Askers(p)) <= MaxAsks + Cardinality(Passes) - 1
    BY DEF Asking
  <2>3. /\ draft.asks[p] \in Nat /\ IsFiniteSet(Askers(p))
        /\ Cardinality(Askers(p)) \in Nat /\ Cardinality(Passes) \in Nat
    BY AskCounts
  <2>4. Cardinality(Askers(p)') <= Cardinality(Askers(p)) BY <2>1, <2>3, FS_Subset
  <2>5. Cardinality(Askers(p)') \in Nat BY <2>1, <2>3, FS_Subset, FS_CardinalityType
  <2>6. CASE draft'.asks[p] = draft.asks[p]
    BY <2>2, <2>3, <2>4, <2>5, <2>6, ListenerAssumption
  <2>7. CASE draft'.asks[p] # draft.asks[p]
    <3>1. /\ draft'.asks[p] = draft.asks[p] + 1 /\ writer' \in Passes
          /\ p \in pass[writer'].todo /\ p \notin pass'[writer'].todo
      BY <1>1, <2>7
    <3>2. writer' \in Askers(p) /\ Askers(p)' \subseteq Askers(p) \ {writer'}
      BY <2>1, <3>1 DEF Askers
    <3>3. /\ IsFiniteSet(Askers(p) \ {writer'})
          /\ Cardinality(Askers(p) \ {writer'}) = Cardinality(Askers(p)) - 1
      BY <2>3, <3>2, FS_RemoveElement
    <3>4. Cardinality(Askers(p)') <= Cardinality(Askers(p)) - 1
      BY <3>2, <3>3, FS_Subset
    <3>. QED BY <2>2, <2>3, <2>5, <3>1, <3>4, ListenerAssumption
  <2>. QED BY <2>6, <2>7
<1>6. ASSUME NEW p \in draft'.answered
      PROVE  p \in db'.answered \/ (writer' # NoPass /\ p \in pass'[writer'].asked)
  <2>1. CASE writer' # NoPass /\ p \in pass[writer'].asked BY <1>1, <2>1
  <2>2. CASE p \in draft.answered
    <3>1. CASE p \in db.answered BY <3>1
    <3>2. CASE p \notin db.answered
      <4>1. writer # NoPass /\ p \in pass[writer].asked BY <2>2, <3>2 DEF Asking
      <4>. QED BY <1>1, <4>1
    <3>. QED BY <3>1, <3>2
  <2>. QED BY <2>1, <2>2
<1>7. ASSUME NEW p \in Proposals \ overlapped', NEW s \in Passes
      PROVE  /\ \A t \in Passes : p \in pass'[s].asked /\ p \in pass'[t].asked => s = t
             /\ p \in pass'[s].todo => p \notin db'.answered
  BY <1>7 DEF Asking
<1>. QED BY <1>2, <1>3, <1>4, <1>5, <1>6, <1>7 DEF Asking

(* One pass goes on, and writes nothing about prompts.                     *)
LEMMA OnePassGoesOn ==
    ASSUME PassInv, PassInv', Asking, NEW s \in Passes, NEW x, Move(s, x),
           x.asked = pass[s].asked, x.todo \subseteq pass[s].todo, x.pc # "idle",
           db'.asks = db.asks, db'.answered = db.answered, overlapped' = overlapped,
           writer' = writer \/ (writer = NoPass /\ writer' = s),
           \A p \in draft'.answered :
              p \in draft.answered \/ (writer' = s /\ p \in pass[s].asked),
           \A p \in Proposals :
              \/ draft'.asks[p] = draft.asks[p]
              \/ /\ draft'.asks[p] = draft.asks[p] + 1 /\ writer' = s
                 /\ p \in pass[s].todo /\ p \notin x.todo
    PROVE  Asking'
<1>1. pass'[s] = x /\ \A t \in Passes \ {s} : pass'[t] = pass[t] BY DEF Move, PassInv
<1>2. s # NoPass BY ListenerAssumption
<1>3. \A t \in Passes : /\ pass'[t].asked = pass[t].asked
                        /\ pass'[t].todo \subseteq pass[t].todo
                        /\ pass'[t].pc = "idle" => pass[t].pc = "idle"
  BY <1>1
<1>. QED BY <1>1, <1>2, <1>3, PassesGoOn

(* A pass begins to ask: of what it takes, the asks on record are below    *)
(* the limit, and one more at most is in the open transaction, whose pass  *)
(* has no more of its own to come.                                         *)
LEMMA BeginAsking ==
    ASSUME PassInv, PassInv', Asking, NEW s \in Passes, Begin(s)
    PROVE  Asking'
<1>. DEFINE R == Ready(db)
            x == [Idle EXCEPT !.pc = "asking", !.asked = R, !.todo = R]
<1>1. /\ pass[s].pc = "idle" /\ Move(s, x)
      /\ overlapped' = overlapped \cup
                         {p \in R : \E t \in Passes \ {s} : p \in pass[t].asked}
      /\ UNCHANGED <<db, draft, writer>>
  BY DEF Begin
<1>2. x.pc = "asking" /\ x.asked = R /\ x.todo = R BY DEF Idle
<1>3. /\ R \subseteq Proposals
      /\ \A p \in R : p \notin db.answered /\ db.asks[p] < MaxAsks
  BY DEF Ready, Candidates, MayAsk, AsksLeft
<1>4. pass[s].asked = {} /\ pass[s].todo = {} BY <1>1 DEF Asking, PassInv, PassOK
<1>. HIDE DEF x, R
<1>5. pass'[s] = x /\ \A t \in Passes \ {s} : pass'[t] = pass[t]
  BY <1>1 DEF Move, PassInv
<1>6. /\ writer \in Passes \cup {NoPass} /\ s # NoPass
      /\ writer # s /\ (writer # NoPass => pass'[writer] = pass[writer])
  BY <1>1, <1>5, ListenerAssumption DEF PassInv, Stores, Asking
<1>7. ASSUME NEW p \in Proposals
      PROVE  draft.asks[p] + Cardinality(Askers(p)')
               <= MaxAsks + Cardinality(Passes) - 1
  <2>1. /\ draft.asks[p] \in Nat /\ db.asks[p] \in Nat /\ MaxAsks \in Nat
        /\ Cardinality(Passes) \in Nat /\ IsFiniteSet(Passes)
    BY AskCounts, ListenerAssumption
  <2>0. /\ Askers(p)' \subseteq Passes /\ Cardinality(Askers(p)') \in Nat
    <3>1. Askers(p)' \subseteq Passes BY DEF Askers
    <3>. QED BY <2>1, <3>1, FS_Subset, FS_CardinalityType
  <2>2. CASE p \in R
    <3>1. db.asks[p] < MaxAsks BY <1>3, <2>2
    <3>2. CASE draft.asks[p] = db.asks[p]
      <4>1. Cardinality(Askers(p)') <= Cardinality(Passes) BY <2>0, <2>1, FS_Subset
      <4>. QED BY <2>0, <2>1, <3>1, <3>2, <4>1
    <3>3. CASE draft.asks[p] # db.asks[p]
      <4>1. /\ draft.asks[p] = db.asks[p] + 1 /\ writer \in Passes
            /\ p \notin pass[writer].todo
        BY <1>6, <3>3 DEF Asking
      <4>2. Askers(p)' \subseteq Passes \ {writer}
        BY <1>6, <4>1, ListenerAssumption DEF Askers
      <4>3. /\ IsFiniteSet(Passes \ {writer})
            /\ Cardinality(Passes \ {writer}) = Cardinality(Passes) - 1
        BY <2>1, <4>1, FS_RemoveElement
      <4>4. Cardinality(Askers(p)') <= Cardinality(Passes) - 1
        BY <4>2, <4>3, FS_Subset
      <4>. QED BY <2>0, <2>1, <3>1, <4>1, <4>4
    <3>. QED BY <3>2, <3>3
  <2>3. CASE p \notin R
    <3>1. Askers(p)' = Askers(p) BY <1>2, <1>4, <1>5, <2>3 DEF Askers
    <3>. QED BY <3>1 DEF Asking
  <2>. QED BY <2>2, <2>3
<1>8. ASSUME NEW p \in Proposals \ overlapped', NEW t \in Passes
      PROVE  /\ \A u \in Passes : p \in pass'[t].asked /\ p \in pass'[u].asked => t = u
             /\ p \in pass'[t].todo => p \notin db.answered
  <2>1. p \notin overlapped /\ (p \in R => \A u \in Passes \ {s} : p \notin pass[u].asked)
    BY <1>1, <1>8
  <2>. QED BY <1>2, <1>3, <1>5, <2>1 DEF Asking
<1>9. /\ \A t \in Passes : pass'[t].pc = "idle" => pass'[t].asked = {}
      /\ writer # NoPass => pass'[writer].pc # "idle"
      /\ \A p \in Proposals :
            \/ draft.asks[p] = db.asks[p]
            \/ /\ draft.asks[p] = db.asks[p] + 1
               /\ writer # NoPass /\ p \notin pass'[writer].todo
      /\ \A p \in draft.answered :
            p \in db.answered \/ (writer # NoPass /\ p \in pass'[writer].asked)
  BY <1>2, <1>5, <1>6 DEF Asking
<1>. QED BY <1>1, <1>7, <1>8, <1>9 DEF Asking

(* An answer changes no queue.                                             *)
LEMMA TapAsking ==
    ASSUME PassInv, PassInv', Asking, NEW p \in Proposals, NEW a, Tap(p, a)
    PROVE  Asking'
<1>1. ASSUME NEW t \in Passes
      PROVE  pass'[t].asked = pass[t].asked /\ pass'[t].todo = pass[t].todo
             /\ pass'[t].pc = pass[t].pc
  <2>1. pass[t] \in Pass BY DEF PassInv
  <2>. QED BY <2>1 DEF Tap, Pass
<1>2. UNCHANGED <<db, draft, writer, overlapped>> BY DEF Tap
<1>. QED BY <1>1, <1>2, PassesGoOn

(* Nor does a prompt that expires.                                         *)
LEMMA ExpiresAsking ==
    ASSUME PassInv, PassInv', Asking, NEW s \in Passes, NEW p \in Proposals, Expires(s, p)
    PROVE  Asking'
<1>1. PICK a \in {"timeout", "channel failed"} : Move(s, [pass[s] EXCEPT !.answer[p] = a])
  BY DEF Expires
<1>. DEFINE x == [pass[s] EXCEPT !.answer[p] = a]
<1>2. x.asked = pass[s].asked /\ x.todo = pass[s].todo /\ x.pc = "asking"
  BY DEF PassInv, Pass, Expires, Waits
<1>3. Move(s, x) BY <1>1
<1>4. UNCHANGED <<db, draft, writer, overlapped>> BY DEF Expires
<1>. HIDE DEF x
<1>. QED BY <1>2, <1>3, <1>4, OnePassGoesOn

(* What the channel never sent leaves the queue.                           *)
LEMMA GatheredAsking ==
    ASSUME PassInv, PassInv', Asking, NEW s \in Passes, Gathered(s)
    PROVE  Asking'
<1>. DEFINE T == {p \in pass[s].todo : pass[s].answer[p] # "channel failed"}
            x == [pass[s] EXCEPT !.pc = "running", !.todo = T]
<1>1. Move(s, x) /\ UNCHANGED <<db, draft, writer, overlapped>> BY DEF Gathered
<1>2. T \subseteq pass[s].todo OBVIOUS
<1>. HIDE DEF T
<1>3. x.asked = pass[s].asked /\ x.todo = T /\ x.pc = "running" BY DEF PassInv, Pass
<1>. HIDE DEF x
<1>. QED BY <1>1, <1>2, <1>3, OnePassGoesOn

(* So does what the gate declines.                                         *)
LEMMA GateAsking ==
    ASSUME PassInv, PassInv', Asking, NEW s \in Passes, Gate(s)
    PROVE  Asking'
<1>. DEFINE row == View(s).cell[CellOf[Current(s)]]
            x == [pass[s] EXCEPT !.pc = "probing", !.level = row.level,
                                 !.probation = row.probation]
            y == Following(pass[s], Current(s))
<1>1. /\ Move(s, x) \/ Move(s, y)
      /\ UNCHANGED <<db, draft, writer, overlapped>>
  BY DEF Gate
<1>2. x.asked = pass[s].asked /\ x.todo = pass[s].todo /\ x.pc # "idle"
  BY DEF PassInv, Pass
<1>3. y.asked = pass[s].asked /\ y.todo \subseteq pass[s].todo /\ y.pc # "idle"
  BY DEF PassInv, Pass, Following
<1>. HIDE DEF x, y
<1>. QED BY <1>1, <1>2, <1>3, OnePassGoesOn

(* A dispatch leaves the queue to the record.                              *)
LEMMA DispatchAsking ==
    ASSUME PassInv, PassInv', Asking, NEW s \in Passes, Dispatch(s)
    PROVE  Asking'
<1>1. PICK o \in Result :
        Move(s, [pass[s] EXCEPT !.pc = "dispatched", !.made[Current(s)] = o])
  BY DEF Dispatch
<1>. DEFINE x == [pass[s] EXCEPT !.pc = "dispatched", !.made[Current(s)] = o]
<1>2. x.asked = pass[s].asked /\ x.todo = pass[s].todo /\ x.pc = "dispatched"
  BY DEF PassInv, Pass
<1>3. Move(s, x) BY <1>1
<1>4. UNCHANGED <<db, draft, writer, overlapped>> BY DEF Dispatch
<1>. HIDE DEF x
<1>. QED BY <1>2, <1>3, <1>4, OnePassGoesOn

(* An answer is recorded of a proposal the pass has asked about; if nobody *)
(* gave one, the pass drops the proposal from its queue.                   *)
LEMMA ConfirmAsking ==
    ASSUME PassInv, PassInv', Asking, NEW s \in Passes, NEW v \in BOOLEAN, Confirm(s, v)
    PROVE  Asking'
<1>. DEFINE p == Current(s)
            a == pass[s].answer[p]
            x == [pass[s] EXCEPT !.pc = "cleared"]
            y == Following(pass[s], p)
            d == WithAnswer(View(s), p, a)
<1>1. pass[s].pc = "probing" /\ UNCHANGED <<db, overlapped>> BY DEF Confirm
<1>2. /\ pass[s] \in Pass /\ pass[s].todo \subseteq pass[s].asked
      /\ p \in pass[s].todo /\ p \in Proposals
  <2>1. pass[s].todo # {} BY <1>1 DEF PassInv, PassOK, InHand
  <2>. QED BY <2>1, InHandFacts DEF PassOK
<1>3. /\ x.asked = pass[s].asked /\ x.todo = pass[s].todo /\ x.pc # "idle"
      /\ y.asked = pass[s].asked /\ y.todo = pass[s].todo \ {p} /\ y.pc # "idle"
  BY <1>2 DEF Pass, Following
<1>4. CASE Flush(s, d) /\ Move(s, IF Consents(a) THEN x ELSE y)
  <2>1. writer \in {s, NoPass} /\ writer' = s /\ draft' = d BY <1>4, FlushStep
  <2>2. View(s) = draft /\ draft \in Database BY <2>1 DEF View, PassInv, Stores
  <2>3. CASE a = "timeout"
    <3>1. Move(s, y) BY <1>4, <2>3 DEF Consents
    <3>2. /\ draft'.answered = draft.answered
          /\ draft'.asks = [draft.asks EXCEPT ![p] = @ + 1]
      BY <2>1, <2>2, <2>3 DEF WithAnswer, Database
    <3>3. draft.asks \in [Proposals -> Nat] BY <2>2 DEF Database
    <3>4. \A q \in Proposals :
             \/ draft'.asks[q] = draft.asks[q]
             \/ /\ draft'.asks[q] = draft.asks[q] + 1 /\ writer' = s
                /\ q \in pass[s].todo /\ q \notin y.todo
      BY <1>2, <1>3, <2>1, <3>2, <3>3
    <3>. HIDE DEF y, d, a, p
    <3>. QED BY <1>1, <1>3, <2>1, <3>1, <3>2, <3>4, OnePassGoesOn
  <2>4. CASE a # "timeout"
    <3>1. draft'.asks = draft.asks /\ draft'.answered = draft.answered \cup {p}
      BY <2>1, <2>2, <2>4 DEF WithAnswer, Database
    <3>2. Move(s, x) \/ Move(s, y) BY <1>4
    <3>3. \A q \in draft'.answered :
             q \in draft.answered \/ (writer' = s /\ q \in pass[s].asked)
      BY <1>2, <2>1, <3>1
    <3>. HIDE DEF x, y, d, a, p
    <3>. QED BY <1>1, <1>3, <2>1, <3>1, <3>2, <3>3, OnePassGoesOn
  <2>. QED BY <2>3, <2>4
<1>5. CASE Move(s, x) /\ UNCHANGED <<draft, writer>>
  <2>. HIDE DEF x, y, d, a, p
  <2>. QED BY <1>1, <1>3, <1>5, OnePassGoesOn
<1>. QED BY <1>4, <1>5 DEF Confirm

(* A record says nothing about prompts.                                    *)
LEMMA RecordAsking ==
    ASSUME PassInv, PassInv', Asking, NEW s \in Passes, Record(s)
    PROVE  Asking'
<1>. DEFINE y == Following(pass[s], Current(s))
            d == Recorded(View(s), Current(s), pass[s].made[Current(s)])
<1>1. Flush(s, d) /\ Move(s, y) /\ UNCHANGED <<db, overlapped>> BY DEF Record
<1>2. y.asked = pass[s].asked /\ y.todo \subseteq pass[s].todo /\ y.pc # "idle"
  BY DEF PassInv, Pass, Following
<1>3. writer \in {s, NoPass} /\ writer' = s /\ draft' = d BY <1>1, FlushStep
<1>4. View(s) = draft /\ draft \in Database BY <1>3 DEF View, PassInv, Stores
<1>5. d.asks = draft.asks /\ d.answered = draft.answered
  BY <1>4 DEF Recorded, Database
<1>. HIDE DEF y, d
<1>. QED BY <1>1, <1>2, <1>3, <1>5, OnePassGoesOn

(* The pass is over: its answers and its unanswered prompts are on record, *)
(* and they are of its own proposals.                                      *)
LEMMA CommitAsking ==
    ASSUME PassInv, PassInv', Asking, NEW s \in Passes, Commit(s)
    PROVE  Asking'
<1>1. /\ pass[s].todo = {} /\ Move(s, Idle) /\ UNCHANGED <<draft, overlapped>>
      /\ IF writer = s THEN db' = draft /\ writer' = NoPass ELSE UNCHANGED <<db, writer>>
  BY DEF Commit
<1>2. Idle.pc = "idle" /\ Idle.asked = {} /\ Idle.todo = {} BY DEF Idle
<1>3. pass'[s] = Idle /\ \A t \in Passes \ {s} : pass'[t] = pass[t]
  BY <1>1 DEF Move, PassInv
<1>4. /\ writer \in Passes \cup {NoPass} /\ s # NoPass
      /\ draft.answered \subseteq Proposals
  BY ListenerAssumption DEF PassInv, Stores, Database
<1>5. \A p \in Proposals : Askers(p)' = Askers(p) BY <1>1, <1>2, <1>3 DEF Askers
<1>6. \A t \in Passes : pass'[t].pc = "idle" => pass'[t].asked = {}
  BY <1>2, <1>3 DEF Asking
<1>7. \A p \in Proposals : draft'.asks[p] + Cardinality(Askers(p)')
                             <= MaxAsks + Cardinality(Passes) - 1
  BY <1>1, <1>5 DEF Asking
<1>8. ASSUME NEW p \in Proposals \ overlapped', NEW t \in Passes
      PROVE  \A u \in Passes : p \in pass'[t].asked /\ p \in pass'[u].asked => t = u
  BY <1>1, <1>2, <1>3, <1>8 DEF Asking
<1>9. CASE writer = s
  <2>1. db' = draft /\ writer' = NoPass /\ draft' = draft BY <1>1, <1>9
  <2>2. ASSUME NEW p \in Proposals \ overlapped', NEW t \in Passes, p \in pass'[t].todo
        PROVE  p \notin draft.answered
    <3>1. t # s /\ p \in pass[t].todo BY <1>2, <1>3, <2>2
    <3>2. p \in pass[t].asked BY <3>1 DEF PassInv, PassOK
    <3>3. p \notin pass[s].asked /\ p \notin db.answered
      BY <1>1, <2>2, <3>1, <3>2 DEF Asking
    <3>. QED BY <1>9, <3>3 DEF Asking
  <2>. QED BY <1>6, <1>7, <1>8, <2>1, <2>2 DEF Asking
<1>10. CASE writer # s
  <2>1. UNCHANGED <<db, draft, writer>> BY <1>1, <1>10
  <2>2. writer # NoPass => pass'[writer] = pass[writer] BY <1>3, <1>4, <1>10
  <2>3. ASSUME NEW p \in Proposals \ overlapped', NEW t \in Passes, p \in pass'[t].todo
        PROVE  p \notin db.answered
    BY <1>1, <1>2, <1>3, <2>3 DEF Asking
  <2>. QED BY <1>6, <1>7, <1>8, <2>1, <2>2, <2>3 DEF Asking
<1>. QED BY <1>9, <1>10

(* What a pass that ends otherwise had recorded is off the record again.   *)
LEMMA AbortAsking ==
    ASSUME PassInv, PassInv', Asking, NEW s \in Passes, Abort(s)
    PROVE  Asking'
<1>1. Move(s, Idle) /\ UNCHANGED <<db, overlapped>> /\ RollBack(s) BY DEF Abort
<1>2. Idle.pc = "idle" /\ Idle.asked = {} /\ Idle.todo = {} BY DEF Idle
<1>3. pass'[s] = Idle /\ \A t \in Passes \ {s} : pass'[t] = pass[t]
  BY <1>1 DEF Move, PassInv
<1>4. writer \in Passes \cup {NoPass} /\ s # NoPass
  BY ListenerAssumption DEF PassInv, Stores
<1>5. /\ writer' # NoPass => pass'[writer'] = pass[writer']
      /\ writer' = NoPass \/ writer' = writer
      /\ (writer' = NoPass /\ draft' = db) \/ (writer' = writer /\ draft' = draft)
  BY <1>1, <1>3, <1>4 DEF RollBack
<1>6. ASSUME NEW p \in Proposals
      PROVE  /\ \/ draft'.asks[p] = db.asks[p]
                \/ /\ draft'.asks[p] = db.asks[p] + 1
                   /\ writer' # NoPass /\ p \notin pass'[writer'].todo
             /\ draft'.asks[p] <= draft.asks[p]
  BY <1>5, AskCounts DEF Asking
<1>7. ASSUME NEW p \in Proposals
      PROVE  draft'.asks[p] + Cardinality(Askers(p)')
               <= MaxAsks + Cardinality(Passes) - 1
  <2>1. Askers(p)' \subseteq Askers(p) BY <1>2, <1>3 DEF Askers
  <2>2. /\ IsFiniteSet(Askers(p)) /\ Cardinality(Askers(p)) \in Nat
        /\ draft.asks[p] \in Nat /\ Cardinality(Passes) \in Nat
    BY AskCounts
  <2>3. /\ Cardinality(Askers(p)') <= Cardinality(Askers(p))
        /\ Cardinality(Askers(p)') \in Nat
    BY <2>1, <2>2, FS_Subset, FS_CardinalityType
  <2>4. draft'.asks[p] \in Nat BY DEF PassInv, Stores, Database
  <2>5. draft.asks[p] + Cardinality(Askers(p)) <= MaxAsks + Cardinality(Passes) - 1
    BY DEF Asking
  <2>. QED BY <1>6, <2>2, <2>3, <2>4, <2>5, ListenerAssumption
<1>8. \A p \in draft'.answered :
         p \in db.answered \/ (writer' # NoPass /\ p \in pass'[writer'].asked)
  BY <1>5 DEF Asking
<1>9. /\ \A t \in Passes : pass'[t].pc = "idle" => pass'[t].asked = {}
      /\ writer' # NoPass => pass'[writer'].pc # "idle"
  BY <1>2, <1>3, <1>5 DEF Asking
<1>10. ASSUME NEW p \in Proposals \ overlapped', NEW t \in Passes
       PROVE  /\ \A u \in Passes : p \in pass'[t].asked /\ p \in pass'[u].asked => t = u
              /\ p \in pass'[t].todo => p \notin db.answered
  BY <1>1, <1>2, <1>3, <1>10 DEF Asking
<1>. QED BY <1>1, <1>6, <1>7, <1>8, <1>9, <1>10 DEF Asking

(* An operator's command is about cells and outcomes.                      *)
LEMMA OperatorAsking ==
    ASSUME PassInv, PassInv', Asking, NEW d, Operator(d),
           d.asks = db.asks, d.answered = db.answered
    PROVE  Asking'
<1>1. writer = NoPass /\ db' = d /\ draft' = d /\ UNCHANGED <<writer, pass, overlapped>>
  BY DEF Operator
<1>2. draft = db BY <1>1 DEF PassInv, Stores
<1>3. \A t \in Passes : /\ pass'[t].asked = pass[t].asked
                        /\ pass'[t].todo \subseteq pass[t].todo
                        /\ pass'[t].pc = "idle" => pass[t].pc = "idle"
  BY <1>1
<1>. QED BY <1>1, <1>2, <1>3, PassesGoOn

(* The clock takes no answer back.                                         *)
LEMMA ElapseAsking ==
    ASSUME PassInv, PassInv', Asking, Elapse
    PROVE  Asking'
<1>1. /\ db' = [db EXCEPT !.fresh = {}] /\ draft' = [draft EXCEPT !.fresh = {}]
      /\ UNCHANGED <<writer, pass, overlapped>>
  BY DEF Elapse
<1>2. /\ db'.asks = db.asks /\ draft'.asks = draft.asks
      /\ db'.answered = db.answered /\ draft'.answered = draft.answered
  BY <1>1 DEF PassInv, Stores, Database
<1>3. \A t \in Passes : /\ pass'[t].asked = pass[t].asked
                        /\ pass'[t].todo \subseteq pass[t].todo
                        /\ pass'[t].pc = "idle" => pass[t].pc = "idle"
  BY <1>1
<1>. QED BY <1>1, <1>2, <1>3, PassesGoOn

(* Nobody has been asked yet.                                              *)
LEMMA InitAsking == Init => Asking
<1>. SUFFICES ASSUME Init PROVE Asking OBVIOUS
<1>1. /\ \A s \in Passes : /\ pass[s].pc = "idle"
                           /\ pass[s].asked = {} /\ pass[s].todo = {}
      /\ writer = NoPass /\ draft = db /\ db.answered = {}
      /\ \A p \in Proposals : db.asks[p] = 0
  BY DEF Init, Idle
<1>2. ASSUME NEW p \in Proposals
      PROVE  draft.asks[p] + Cardinality(Askers(p)) <= MaxAsks + Cardinality(Passes) - 1
  <2>1. Askers(p) = {} BY <1>1 DEF Askers
  <2>2. Cardinality(Askers(p)) = 0 BY <2>1, FS_EmptySet
  <2>3. Cardinality(Passes) \in Nat BY ListenerAssumption, FS_CardinalityType
  <2>. QED BY <1>1, <2>2, <2>3, ListenerAssumption
<1>. QED BY <1>1, <1>2 DEF Asking

(* Every step keeps to it.                                                 *)
LEMMA NextAsking == PassInv /\ PassInv' /\ Asking /\ [Next]_vars => Asking'
<1>. SUFFICES ASSUME PassInv, PassInv', Asking, [Next]_vars PROVE Asking' OBVIOUS
<1>1. ASSUME NEW s \in Passes, Begin(s) PROVE Asking' BY <1>1, BeginAsking
<1>2. ASSUME NEW s \in Passes, Handler(s) PROVE Asking'
  BY <1>2, ExpiresAsking, GatheredAsking, GateAsking, ConfirmAsking, DispatchAsking,
     RecordAsking, CommitAsking, AbortAsking
     DEF Handler, Busy
<1>3. ASSUME NEW p \in Proposals, NEW a \in {"approve", "deny"}, Tap(p, a) PROVE Asking'
  BY <1>3, TapAsking
<1>4. ASSUME NEW p \in Proposals, Reject(p) PROVE Asking'
  <2>. DEFINE d == [db EXCEPT !.outcome[p] = "rejected", !.cell[CellOf[p]] = Rejection(@)]
  <2>1. Operator(d) BY <1>4 DEF Reject
  <2>2. d.asks = db.asks /\ d.answered = db.answered BY DEF PassInv, Stores, Database
  <2>. HIDE DEF d
  <2>. QED BY <2>1, <2>2, OperatorAsking
<1>5. ASSUME NEW c \in Cells, NEW l \in GrantLevels, Grant(c, l) PROVE Asking'
  <2>. DEFINE d == [db EXCEPT !.cell[c] = GrantedRow(@, l)]
  <2>1. Operator(d) BY <1>5 DEF Grant
  <2>2. d.asks = db.asks /\ d.answered = db.answered BY DEF PassInv, Stores, Database
  <2>. HIDE DEF d
  <2>. QED BY <2>1, <2>2, OperatorAsking
<1>6. CASE Elapse BY <1>6, ElapseAsking
<1>7. ASSUME NEW s \in Passes, Crash(s) PROVE Asking' BY <1>7, AbortAsking DEF Crash
<1>8. CASE UNCHANGED vars
  <2>1. UNCHANGED <<db, draft, writer, pass, overlapped>> BY <1>8 DEF vars
  <2>. QED BY <2>1 DEF Asking, Askers
<1>. QED BY <1>1, <1>2, <1>3, <1>4, <1>5, <1>6, <1>7, <1>8 DEF Next, NextUp

(* Asking ends: however passes overlap and die, the prompts of a proposal  *)
(* that nobody answered exceed MAX_ASKS by no more than the passes that    *)
(* asked together, and an answer on record closes it for every pass,       *)
(* unless two had asked about it at once.                                  *)
THEOREM AskingEnds == Spec => []AskingStops
<1>1. Spec => []Asking BY InitAsking, NextAsking, PassInvariant, PTL DEF Spec
<1>2. PassInv /\ Asking => AskingStops
  <2>. SUFFICES ASSUME PassInv, Asking PROVE AskingStops OBVIOUS
  <2>1. ASSUME NEW p \in Proposals
        PROVE  db.asks[p] <= MaxAsks + Cardinality(Passes) - 1
    <3>1. draft.asks[p] + Cardinality(Askers(p)) <= MaxAsks + Cardinality(Passes) - 1
      BY DEF Asking
    <3>2. db.asks[p] <= draft.asks[p] BY AskCounts DEF Asking
    <3>. QED BY <3>1, <3>2, AskCounts, ListenerAssumption
  <2>. QED BY <2>1 DEF Asking, AskingStops, AsksBounded, AnswerIsFinal
<1>. QED BY <1>1, <1>2, PassInvariant, PTL
=============================================================================
