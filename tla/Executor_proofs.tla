-------------------------- MODULE Executor_proofs ---------------------------
(***************************************************************************)
(* The execution spine, for every number of sessions, proposals, cells,    *)
(* hosts and windows.                                                      *)
(***************************************************************************)
EXTENDS Executor, CellLadder_proofs, FiniteSetTheorems

(* What a step may make of a session, field by field.                      *)
LEMMA MovePc ==
    ASSUME NEW x \in Session, NEW a \in PC
    PROVE  LET y == [x EXCEPT !.pc = a]
           IN  /\ y \in Session /\ y.pc = a /\ y.kind = x.kind
               /\ y.proposal = x.proposal /\ y.ctx = x.ctx
               /\ y.verified = x.verified /\ y.answer = x.answer
               /\ y.result = x.result
BY DEF Session

(* A session at rest.                                                      *)
LEMMA IdleType == Idle \in Session
<1>1. NoContext \in TrustContext
  BY DEF NoContext, TrustContext, Level, BLOCK, AUTONOMOUS
<1>. QED BY <1>1 DEF Idle, Session, PC, AllKinds

-----------------------------------------------------------------------------
(* The context a session freezes is a context of decide().                 *)
LEMMA ContextType ==
    ASSUME NEW d \in Database, NEW p \in Proposals,
           NEW w \in Windows \cup {NoWindow}, NEW o \in BOOLEAN
    PROVE  LET ctx == LoadContext(d, p, w, o)
           IN  ctx \in TrustContext /\ ctx.override = o
<1>1. CellOf[p] \in Cells /\ HostsOf[p] \subseteq Hosts BY ExecutorAssumption
<1>2. d.cell[CellOf[p]] \in CellRow /\ d.bound \in [Hosts -> SUBSET BoundaryView]
  BY <1>1 DEF Database
<1>3. d.cell[CellOf[p]].level \in Level /\ d.cell[CellOf[p]].probation \in BOOLEAN
  BY <1>2 DEF CellRow
<1>4. MaxLevel[CellOf[p]] \in Level
  BY <1>1, CellAssumption DEF Level, PROPOSE, AUTONOMOUS, BLOCK
<1>5. UNION {d.bound[h] : h \in HostsOf[p]} \in SUBSET BoundaryView BY <1>1, <1>2
<1>6. (CellOf[p] \in AbsoluteCells) \in BOOLEAN OBVIOUS
<1>. QED BY <1>3, <1>4, <1>5, <1>6 DEF LoadContext, TrustContext
-----------------------------------------------------------------------------
(* What each transaction makes of the database.                            *)
LEMMA OverrideLogged ==
    ASSUME NEW d \in Database, NEW p \in Proposals
    PROVE  LET n == [d EXCEPT !.overrides = @ \cup {p}]
           IN  /\ n \in Database /\ n.outcome = d.outcome /\ n.cell = d.cell
               /\ n.window = d.window /\ n.receipts = d.receipts
               /\ n.approvals = d.approvals
               /\ n.overrides = d.overrides \cup {p}
<1>1. d.overrides \cup {p} \in SUBSET Proposals BY DEF Database
<1>. DEFINE o == d.overrides \cup {p}
<1>. HIDE DEF o
<1>2. o \in SUBSET Proposals BY <1>1 DEF o
<1>3. [d EXCEPT !.overrides = o] \in Database BY <1>2 DEF Database
<1>4. LET n == [d EXCEPT !.overrides = o]
      IN  /\ n.outcome = d.outcome /\ n.cell = d.cell
          /\ n.window = d.window /\ n.receipts = d.receipts
          /\ n.approvals = d.approvals /\ n.overrides = o
  BY DEF Database
<1>. QED BY <1>3, <1>4 DEF o

(* The approval event of a channel's answer.                               *)
LEMMA AnswerLogged ==
    ASSUME NEW d \in Database, NEW p \in Proposals, NEW a \in Answer
    PROVE  LET n == WithAnswer(d, p, a)
           IN  /\ n \in Database /\ n.outcome = d.outcome /\ n.cell = d.cell
               /\ n.window = d.window /\ n.receipts = d.receipts
               /\ n.overrides = d.overrides
<1>1. d.approvals \in [Proposals -> [Answer -> Nat]] BY DEF Database
<1>2. [d.approvals EXCEPT ![p][a] = @ + 1] \in [Proposals -> [Answer -> Nat]] BY <1>1
<1>. QED BY <1>1, <1>2 DEF Database, WithAnswer

(* The cell's row after a dispatch.                                        *)
LEMMA CellAfterRow ==
    ASSUME NEW c \in Cells, NEW row \in CellRow, NEW r \in Result
    PROVE  CellAfter(c, row, r) \in CellRow
BY CleanOutcomeRow, BadOutcomeRow DEF CellAfter, Result

(* Receipt, outcome and cell of a dispatch.                                *)
LEMMA RecordedType ==
    ASSUME NEW d \in Database, NEW p \in Proposals, NEW r \in Result
    PROVE  LET n == Recorded(d, p, r)
           IN  /\ n \in Database
               /\ n.outcome  = [d.outcome EXCEPT ![p] = OutcomeAfter(@, r)]
               /\ n.receipts = [d.receipts EXCEPT ![p][r] = @ + 1]
               /\ n.cell     = [d.cell EXCEPT ![CellOf[p]] = CellAfter(CellOf[p], @, r)]
               /\ n.window = d.window /\ n.overrides = d.overrides
               /\ n.approvals = d.approvals
<1>1. /\ d.receipts \in [Proposals -> [Result -> Nat]]
      /\ d.outcome \in [Proposals -> Outcome]
      /\ d.cell \in [Cells -> CellRow]
      /\ CellOf[p] \in Cells
  BY ExecutorAssumption DEF Database
<1>2. [d.receipts EXCEPT ![p][r] = @ + 1] \in [Proposals -> [Result -> Nat]] BY <1>1
<1>3. [d.outcome EXCEPT ![p] = OutcomeAfter(@, r)] \in [Proposals -> Outcome]
  BY <1>1 DEF OutcomeAfter, Outcome
<1>4. [d.cell EXCEPT ![CellOf[p]] = CellAfter(CellOf[p], @, r)] \in [Cells -> CellRow]
  BY <1>1, CellAfterRow
<1>. QED BY <1>2, <1>3, <1>4 DEF Database, Recorded

(* Outcome and cell of `helper exec accept|reject`.                        *)
LEMMA JudgedType ==
    ASSUME NEW d \in Database, NEW p \in Proposals, NEW k \in {"accept", "reject"}
    PROVE  LET n == Judged(d, p, k)
               o == IF k = "accept" THEN "accepted" ELSE "rejected"
           IN  /\ n \in Database
               /\ n.outcome = [d.outcome EXCEPT ![p] = o]
               /\ n.receipts = d.receipts
               /\ n.cell = [d.cell EXCEPT ![CellOf[p]] =
                               IF k = "accept" THEN CleanOutcome(CellOf[p], @)
                                               ELSE Rejection(@)]
               /\ n.window = d.window /\ n.overrides = d.overrides
               /\ n.approvals = d.approvals
<1>1. /\ d.outcome \in [Proposals -> Outcome]
      /\ d.cell \in [Cells -> CellRow]
      /\ CellOf[p] \in Cells
  BY ExecutorAssumption DEF Database
<1>2. CASE k = "accept"
  <2>1. [d.cell EXCEPT ![CellOf[p]] = CleanOutcome(CellOf[p], @)] \in [Cells -> CellRow]
    BY <1>1, CleanOutcomeRow
  <2>2. [d.outcome EXCEPT ![p] = "accepted"] \in [Proposals -> Outcome]
    BY <1>1 DEF Outcome
  <2>. QED BY <1>2, <2>1, <2>2 DEF Database, Judged
<1>3. CASE k = "reject"
  <2>1. [d.cell EXCEPT ![CellOf[p]] = Rejection(@)] \in [Cells -> CellRow]
    BY <1>1, RejectionRow
  <2>2. [d.outcome EXCEPT ![p] = "rejected"] \in [Proposals -> Outcome]
    BY <1>1 DEF Outcome
  <2>. QED BY <1>3, <2>1, <2>2 DEF Database, Judged
<1>. QED BY <1>2, <1>3

(* The operator's commands.                                                *)
LEMMA GrantedType ==
    ASSUME NEW d \in Database, NEW c \in Cells, NEW level \in Level
    PROVE  LET n == [d EXCEPT !.cell[c] = GrantedRow(@, level)]
           IN  /\ n \in Database /\ n.outcome = d.outcome /\ n.receipts = d.receipts
               /\ n.cell = [d.cell EXCEPT ![c] = GrantedRow(@, level)]
<1>1. d.cell \in [Cells -> CellRow] BY DEF Database
<1>2. [d.cell EXCEPT ![c] = GrantedRow(@, level)] \in [Cells -> CellRow]
  BY <1>1, GrantedRowRow
<1>. QED BY <1>2 DEF Database

(* A ceiling set on a host.                                                *)
LEMMA BoundaryType ==
    ASSUME NEW d \in Database, NEW h \in Hosts, NEW b \in BoundaryView
    PROVE  LET n == [d EXCEPT !.bound[h] = {b}]
           IN  /\ n \in Database /\ n.outcome = d.outcome /\ n.receipts = d.receipts
               /\ n.cell = d.cell
BY DEF Database

WindowState == {"unopened", "open", "revoked"}

(* Windows opened, revoked or killed.                                      *)
LEMMA WindowType ==
    ASSUME NEW d \in Database, NEW f \in [Windows -> WindowState]
    PROVE  LET n == [d EXCEPT !.window = f]
           IN  /\ n \in Database /\ n.outcome = d.outcome /\ n.receipts = d.receipts
               /\ n.cell = d.cell
BY DEF Database, WindowState
-----------------------------------------------------------------------------
(* The states of a session the gate has let through.                       *)
Gated == {"probing", "decided", "asking", "answered", "cleared",
          "capturing", "dispatched"}

(* What each session owes to the steps it has taken: the strengthening     *)
(* that makes Authorised inductive.  It speaks of the session alone, so a  *)
(* step disturbs it for the session that takes the step and no other.      *)
GateInv(x) ==
    /\ x \in Session
    /\ x.pc # "idle" => x.proposal \in Proposals
    /\ x.pc \in Gated \/ x.result # "none" =>
          /\ Executes(DecidedLevel(x))
          /\ x.ctx.override = (x.kind = "override")
          /\ x.ctx.max = MaxLevel[CellOf[x.proposal]]
    /\ x.pc \in {"resolved", "probing"} => x.verified = FALSE
    /\ x.pc \in {"asking", "answered"} => DecidedLevel(x) = CONFIRM
    /\ x.pc = "answered" => x.answer \in Answer
    /\ PastGate(x) /\ DecidedLevel(x) = CONFIRM => x.answer = "approve"
    /\ x.result # "none" => x.pc \in {"dispatched", "closing"}
    /\ x.pc = "dispatched" => x.result # "none"
    /\ x.pc = "judging" => x.kind \in {"accept", "reject"}

TypeInv == TypeOK /\ \A e \in Sessions : GateInv(session[e])

(* A session at rest owes nothing.                                         *)
LEMMA IdleGate == GateInv(Idle)
BY IdleType DEF GateInv, Idle, Gated, PastGate

(* A step that moves one session to a state that keeps GateInv.            *)
LEMMA SessionStep ==
    ASSUME TypeInv, NEW e \in Sessions, NEW x, GateInv(x), Move(e, x)
    PROVE  /\ session' \in [Sessions -> Session]
           /\ \A f \in Sessions : GateInv(session'[f])
<1>1. session \in [Sessions -> Session] /\ \A f \in Sessions : GateInv(session[f])
  BY DEF TypeInv, TypeOK
<1>2. x \in Session BY DEF GateInv
<1>3. session' = [session EXCEPT ![e] = x] BY DEF Move
<1>. QED BY <1>1, <1>2, <1>3

(* A flush takes the lock and leaves a database in the draft.              *)
LEMMA FlushStep ==
    ASSUME TypeInv, NEW e \in Sessions, NEW d \in Database, Flush(e, d)
    PROVE  writer' = e /\ e # NoSession /\ draft' = d
BY ExecutorAssumption DEF Flush

(* What a session reads is a database.                                     *)
LEMMA ViewType ==
    ASSUME TypeInv, NEW e \in Sessions PROVE View(e) \in Database
BY DEF View, TypeInv, TypeOK

(* The operator's commands leave every session alone.                      *)
LEMMA OperatorStep ==
    ASSUME TypeInv, NEW d \in Database, Operator(d) PROVE TypeInv'
BY DEF Operator, TypeInv, TypeOK

(* A session refused, or that ends, after the gate has been asked or not:  *)
(* nothing has been dispatched.                                            *)
LEMMA CloseGate ==
    ASSUME NEW x, GateInv(x), x.pc # "idle", x.result = "none"
    PROVE  GateInv([x EXCEPT !.pc = "closing"])
<1>1. x \in Session /\ "closing" \in PC BY DEF GateInv, PC
<1>. DEFINE y == [x EXCEPT !.pc = "closing"]
<1>2. /\ y \in Session /\ y.pc = "closing" /\ y.proposal = x.proposal
      /\ y.result = "none"
  BY <1>1, MovePc
<1>. HIDE DEF y
<1>3. GateInv(y) BY <1>2 DEF GateInv, Gated, PastGate
<1>. QED BY <1>3 DEF y
-----------------------------------------------------------------------------
(* The actions that only move their session.                               *)
LEMMA ResolveGate ==
    ASSUME NEW p \in Proposals, NEW k \in AllKinds
    PROVE  GateInv([Idle EXCEPT !.pc = IF k \in {"accept", "reject"}
                                       THEN "judging" ELSE "resolved",
                                !.kind = k, !.proposal = p])
<1>. DEFINE a == IF k \in {"accept", "reject"} THEN "judging" ELSE "resolved"
<1>1. a \in PC BY DEF PC
<1>2. a \in {"judging", "resolved"} /\ (a = "judging" => k \in {"accept", "reject"})
  OBVIOUS
<1>. HIDE DEF a
<1>. DEFINE y == [Idle EXCEPT !.pc = a, !.kind = k, !.proposal = p]
<1>3. /\ y \in Session /\ y.pc = a /\ y.kind = k /\ y.proposal = p
      /\ y.result = "none" /\ y.verified = FALSE
  BY <1>1, IdleType DEF Session, Idle
<1>. HIDE DEF y
<1>4. GateInv(y) BY <1>2, <1>3 DEF GateInv, Gated, PastGate
<1>. QED BY <1>4 DEF y, a

(* The gate: what the pessimistic decision lets through executes.          *)
LEMMA GateGate ==
    ASSUME NEW d \in Database, NEW x, GateInv(x), x.pc = "resolved",
           NEW w \in Windows \cup {NoWindow}
    PROVE  LET ctx == LoadContext(d, x.proposal, w, x.kind = "override")
           IN  GateInv([x EXCEPT
                  !.pc = IF Executes(Decide(ctx, FALSE)) THEN "probing" ELSE "closing",
                  !.ctx = ctx])
<1>1. /\ x \in Session /\ x.proposal \in Proposals /\ x.verified = FALSE
      /\ x.result = "none"
  BY DEF GateInv
<1>2. PICK o \in BOOLEAN : o = (x.kind = "override") OBVIOUS
<1>. DEFINE ctx == LoadContext(d, x.proposal, w, o)
<1>3. /\ ctx \in TrustContext /\ ctx.override = o
  BY <1>1, <1>2, ContextType
<1>m. ctx.max = MaxLevel[CellOf[x.proposal]] BY DEF LoadContext
<1>. HIDE DEF ctx
<1>. DEFINE a == IF Executes(Decide(ctx, FALSE)) THEN "probing" ELSE "closing"
<1>4. a \in PC BY DEF PC
<1>5. a \in {"probing", "closing"} /\ (a = "probing" => Executes(Decide(ctx, FALSE)))
  OBVIOUS
<1>. HIDE DEF a
<1>. DEFINE y == [x EXCEPT !.pc = a, !.ctx = ctx]
<1>6. /\ y \in Session /\ y.pc = a /\ y.kind = x.kind /\ y.proposal = x.proposal
      /\ y.ctx = ctx /\ y.verified = FALSE /\ y.result = "none"
  BY <1>1, <1>3, <1>4 DEF Session
<1>. HIDE DEF y
<1>7. a = "probing" => Executes(DecidedLevel(y)) BY <1>5, <1>6 DEF DecidedLevel
<1>8. y.ctx.override = (y.kind = "override") BY <1>2, <1>3, <1>6
<1>9. GateInv(y) BY <1>1, <1>m, <1>5, <1>6, <1>7, <1>8 DEF GateInv, Gated, PastGate
<1>. QED BY <1>2, <1>9 DEF y, a, ctx

(* The probe can only confirm what the pessimistic decision let through.   *)
LEMMA ProbeGate ==
    ASSUME NEW x, GateInv(x), x.pc = "probing", NEW v \in BOOLEAN
    PROVE  GateInv([x EXCEPT !.pc = "decided", !.verified = v])
<1>1. /\ x \in Session /\ x.proposal \in Proposals /\ x.result = "none"
      /\ x.ctx.override = (x.kind = "override")
      /\ x.ctx.max = MaxLevel[CellOf[x.proposal]]
      /\ Executes(Decide(x.ctx, FALSE)) /\ x.ctx \in TrustContext
  BY DEF GateInv, Gated, DecidedLevel, Session
<1>2. Executes(Decide(x.ctx, v)) BY <1>1, PessimisticIsFinal
<1>3. "decided" \in PC BY DEF PC
<1>. DEFINE y == [x EXCEPT !.pc = "decided", !.verified = v]
<1>4. /\ y \in Session /\ y.pc = "decided" /\ y.kind = x.kind
      /\ y.proposal = x.proposal /\ y.ctx = x.ctx /\ y.verified = v
      /\ y.result = "none"
  BY <1>1, <1>3 DEF Session
<1>. HIDE DEF y
<1>5. Executes(DecidedLevel(y)) BY <1>2, <1>4 DEF DecidedLevel
<1>6. GateInv(y) BY <1>1, <1>4, <1>5 DEF GateInv, Gated, PastGate
<1>. QED BY <1>6 DEF y

(* A move between gated states changes the pc alone: what it owes is the   *)
(* answer, where the decision asks for one.                                *)
LEMMA GatedMove ==
    ASSUME NEW x, GateInv(x), x.pc \in Gated \ {"dispatched"},
           NEW a \in {"asking", "cleared", "capturing"},
           a = "asking" => DecidedLevel(x) = CONFIRM,
           a # "asking" /\ DecidedLevel(x) = CONFIRM => x.answer = "approve"
    PROVE  GateInv([x EXCEPT !.pc = a])
<1>1. /\ x \in Session /\ x.proposal \in Proposals /\ x.result = "none"
      /\ x.ctx.override = (x.kind = "override")
      /\ x.ctx.max = MaxLevel[CellOf[x.proposal]]
      /\ Executes(DecidedLevel(x))
  BY DEF GateInv, Gated
<1>2. a \in PC BY DEF PC
<1>. DEFINE y == [x EXCEPT !.pc = a]
<1>3. /\ y \in Session /\ y.pc = a /\ y.kind = x.kind
      /\ y.proposal = x.proposal /\ y.ctx = x.ctx /\ y.verified = x.verified
      /\ y.result = "none" /\ y.answer = x.answer
  BY <1>1, <1>2, MovePc
<1>. HIDE DEF y
<1>4. DecidedLevel(y) = DecidedLevel(x) BY <1>3 DEF DecidedLevel
<1>5. GateInv(y) BY <1>1, <1>3, <1>4 DEF GateInv, Gated, PastGate
<1>. QED BY <1>5 DEF y

(* An answer, from the prompt, the channel or its timeout.                 *)
LEMMA AnswerGate ==
    ASSUME NEW x, GateInv(x), x.pc = "asking", NEW n \in Answer
    PROVE  GateInv([x EXCEPT !.pc = "answered", !.answer = n])
<1>1. /\ x \in Session /\ x.proposal \in Proposals /\ x.result = "none"
      /\ x.ctx.override = (x.kind = "override")
      /\ x.ctx.max = MaxLevel[CellOf[x.proposal]]
      /\ Executes(DecidedLevel(x)) /\ DecidedLevel(x) = CONFIRM
  BY DEF GateInv, Gated
<1>2. "answered" \in PC BY DEF PC
<1>. DEFINE y == [x EXCEPT !.pc = "answered", !.answer = n]
<1>3. /\ y \in Session /\ y.pc = "answered" /\ y.kind = x.kind
      /\ y.proposal = x.proposal /\ y.ctx = x.ctx /\ y.verified = x.verified
      /\ y.result = "none" /\ y.answer = n
  BY <1>1, <1>2 DEF Session
<1>. HIDE DEF y
<1>4. DecidedLevel(y) = DecidedLevel(x) BY <1>3 DEF DecidedLevel
<1>5. GateInv(y) BY <1>1, <1>3, <1>4 DEF GateInv, Gated, PastGate
<1>. QED BY <1>5 DEF y

(* The dispatch: the authority stays with what it produced.                *)
LEMMA DispatchGate ==
    ASSUME NEW x, GateInv(x), x.pc = "capturing", NEW r \in Result
    PROVE  GateInv([x EXCEPT !.pc = "dispatched", !.result = r])
<1>1. /\ x \in Session /\ x.proposal \in Proposals
      /\ x.ctx.override = (x.kind = "override")
      /\ x.ctx.max = MaxLevel[CellOf[x.proposal]]
      /\ Executes(DecidedLevel(x))
      /\ DecidedLevel(x) = CONFIRM => x.answer = "approve"
  BY DEF GateInv, Gated, PastGate
<1>2. "dispatched" \in PC /\ r # "none" BY DEF PC, Result
<1>. DEFINE y == [x EXCEPT !.pc = "dispatched", !.result = r]
<1>3. /\ y \in Session /\ y.pc = "dispatched" /\ y.kind = x.kind
      /\ y.proposal = x.proposal /\ y.ctx = x.ctx /\ y.verified = x.verified
      /\ y.result = r /\ y.answer = x.answer
  BY <1>1, <1>2 DEF Session
<1>. HIDE DEF y
<1>4. DecidedLevel(y) = DecidedLevel(x) BY <1>3 DEF DecidedLevel
<1>5. GateInv(y) BY <1>1, <1>2, <1>3, <1>4 DEF GateInv, Gated, PastGate
<1>. QED BY <1>5 DEF y

(* Recorded: what was dispatched keeps its authority while it commits.     *)
LEMMA RecordGate ==
    ASSUME NEW x, GateInv(x), x.pc = "dispatched"
    PROVE  GateInv([x EXCEPT !.pc = "closing"])
<1>1. /\ x \in Session /\ x.proposal \in Proposals
      /\ x.ctx.override = (x.kind = "override")
      /\ x.ctx.max = MaxLevel[CellOf[x.proposal]]
      /\ Executes(DecidedLevel(x))
      /\ DecidedLevel(x) = CONFIRM => x.answer = "approve"
  BY DEF GateInv, Gated, PastGate
<1>2. "closing" \in PC BY DEF PC
<1>. DEFINE y == [x EXCEPT !.pc = "closing"]
<1>3. /\ y \in Session /\ y.pc = "closing" /\ y.kind = x.kind
      /\ y.proposal = x.proposal /\ y.ctx = x.ctx /\ y.verified = x.verified
      /\ y.answer = x.answer
  BY <1>1, <1>2, MovePc
<1>. HIDE DEF y
<1>4. DecidedLevel(y) = DecidedLevel(x) BY <1>3 DEF DecidedLevel
<1>5. GateInv(y) BY <1>1, <1>3, <1>4 DEF GateInv, Gated, PastGate
<1>. QED BY <1>5 DEF y
-----------------------------------------------------------------------------
(* TypeInv holds at the start.                                             *)
LEMMA TypeInit == Init => TypeInv
<1>. SUFFICES ASSUME Init PROVE TypeInv OBVIOUS
<1>1. db \in Database
  <2>1. [p \in Proposals |-> "pending"] \in [Proposals -> Outcome] BY DEF Outcome
  <2>2. [c \in Cells |-> NewCell(c)] \in [Cells -> CellRow] BY NewCellRow
  <2>3. [h \in Hosts |-> {}] \in [Hosts -> SUBSET BoundaryView] OBVIOUS
  <2>4. [w \in Windows |-> "unopened"] \in [Windows -> {"unopened", "open", "revoked"}]
    OBVIOUS
  <2>5. Zero(Result) \in [Result -> Nat] /\ Zero(Answer) \in [Answer -> Nat]
    BY DEF Zero
  <2>. QED BY <2>1, <2>2, <2>3, <2>4, <2>5 DEF Init, Database
<1>2. session \in [Sessions -> Session] BY IdleType DEF Init
<1>3. ran \in [Proposals -> [Result -> Nat]] /\ lost \in [Proposals -> [Result -> Nat]]
  BY DEF Init, Zero
<1>4. TypeOK BY <1>1, <1>2, <1>3, ExecutorAssumption DEF Init, TypeOK
<1>5. \A e \in Sessions : GateInv(session[e]) BY IdleGate DEF Init
<1>. QED BY <1>4, <1>5 DEF TypeInv

(* Every step keeps it.                                                    *)
LEMMA TypeNext == TypeInv /\ [Next]_vars => TypeInv'
<1>. SUFFICES ASSUME TypeInv, [Next]_vars PROVE TypeInv' OBVIOUS
<1>0. /\ db \in Database /\ draft \in Database
      /\ writer \in Sessions \cup {NoSession} /\ (writer = NoSession => draft = db)
      /\ session \in [Sessions -> Session]
      /\ expired \subseteq Windows /\ runs \in 0 .. MaxRuns
      /\ ran \in [Proposals -> [Result -> Nat]]
      /\ lost \in [Proposals -> [Result -> Nat]] /\ raced \subseteq Proposals
  BY DEF TypeInv, TypeOK
<1>g. ASSUME NEW e \in Sessions
      PROVE  GateInv(session[e]) /\ session[e] \in Session /\ View(e) \in Database
  BY ViewType DEF TypeInv, GateInv
<1>1. ASSUME NEW e \in Sessions, NEW p \in Proposals, NEW k \in AllKinds, Resolve(e, p, k)
      PROVE  TypeInv'
  <2>1. /\ runs' \in 0 .. MaxRuns /\ raced' \subseteq Proposals
        /\ UNCHANGED <<db, draft, writer, expired, ran, lost>>
    BY <1>0, <1>1, ExecutorAssumption DEF Resolve
  <2>2. /\ session' \in [Sessions -> Session]
        /\ \A f \in Sessions : GateInv(session'[f])
    BY <1>1, ResolveGate, SessionStep DEF Resolve
  <2>. QED BY <1>0, <2>1, <2>2 DEF TypeInv, TypeOK
<1>2. ASSUME NEW e \in Sessions, NEW w \in Windows \cup {NoWindow}, Gate(e, w)
      PROVE  TypeInv'
  <2>1. UNCHANGED <<db, draft, writer, expired, runs, ran, lost, raced>>
    BY <1>2 DEF Gate
  <2>2. /\ session' \in [Sessions -> Session]
        /\ \A f \in Sessions : GateInv(session'[f])
    BY <1>2, <1>g, GateGate, SessionStep DEF Gate
  <2>. QED BY <1>0, <2>1, <2>2 DEF TypeInv, TypeOK
<1>3. ASSUME NEW e \in Sessions, Mistype(e) \/ ChannelFails(e) PROVE TypeInv'
  <2>1. /\ UNCHANGED <<db, draft, writer, expired, runs, ran, lost, raced>>
        /\ session[e].pc \in {"resolved", "asking"}
        /\ Move(e, [session[e] EXCEPT !.pc = "closing"])
    BY <1>3 DEF Mistype, ChannelFails
  <2>2. session[e].result = "none" BY <1>g, <2>1 DEF GateInv
  <2>3. /\ session' \in [Sessions -> Session]
        /\ \A f \in Sessions : GateInv(session'[f])
    BY <1>g, <2>1, <2>2, CloseGate, SessionStep
  <2>. QED BY <1>0, <2>1, <2>3 DEF TypeInv, TypeOK
<1>4. ASSUME NEW e \in Sessions, Probe(e) PROVE TypeInv'
  <2>1. /\ UNCHANGED <<db, draft, writer, expired, runs, ran, lost, raced>>
        /\ session[e].pc = "probing"
    BY <1>4 DEF Probe
  <2>2. PICK v \in BOOLEAN :
           Move(e, [session[e] EXCEPT !.pc = "decided", !.verified = v])
    BY <1>4 DEF Probe
  <2>3. /\ session' \in [Sessions -> Session]
        /\ \A f \in Sessions : GateInv(session'[f])
    BY <1>g, <2>1, <2>2, ProbeGate, SessionStep
  <2>. QED BY <1>0, <2>1, <2>3 DEF TypeInv, TypeOK
<1>5. ASSUME NEW e \in Sessions, Route(e) PROVE TypeInv'
  <2>. DEFINE x == session[e]
              a == IF DecidedLevel(x) = CONFIRM THEN "asking" ELSE "cleared"
  <2>1. /\ UNCHANGED <<db, expired, runs, ran, lost, raced>>
        /\ x.pc = "decided"
        /\ Move(e, [session[e] EXCEPT !.pc = a])
    BY <1>5 DEF Route
  <2>2. /\ draft' \in Database /\ writer' \in Sessions \cup {NoSession}
        /\ (writer' = NoSession => draft' = db')
    <3>1. CASE OverrideBore(x)
      <4>1. x.proposal \in Proposals BY <1>g, <2>1 DEF GateInv
      <4>2. [View(e) EXCEPT !.overrides = @ \cup {x.proposal}] \in Database
        BY <1>g, <4>1, OverrideLogged
      <4>. QED BY <1>5, <3>1, <4>2, FlushStep DEF Route
    <3>2. CASE ~OverrideBore(x)
      <4>1. UNCHANGED <<draft, writer>> BY <1>5, <3>2 DEF Route
      <4>. QED BY <1>0, <2>1, <4>1
    <3>. QED BY <3>1, <3>2
  <2>3. /\ a \in {"asking", "cleared"} /\ (a = "asking" <=> DecidedLevel(x) = CONFIRM)
        /\ x.pc \in Gated \ {"dispatched"}
    BY <2>1 DEF Gated
  <2>. HIDE DEF a
  <2>4. GateInv([x EXCEPT !.pc = a]) BY <1>g, <2>3, GatedMove
  <2>5. /\ session' \in [Sessions -> Session]
        /\ \A f \in Sessions : GateInv(session'[f])
    BY <2>1, <2>4, SessionStep
  <2>. QED BY <1>0, <2>1, <2>2, <2>5 DEF TypeInv, TypeOK
<1>6. ASSUME NEW e \in Sessions, AnswerPrompt(e) \/ AskTimeout(e) PROVE TypeInv'
  <2>1. /\ UNCHANGED <<db, draft, writer, expired, runs, ran, lost, raced>>
        /\ session[e].pc = "asking"
    BY <1>6 DEF AnswerPrompt, AskTimeout
  <2>2. PICK n \in Answer : Move(e, [session[e] EXCEPT !.pc = "answered", !.answer = n])
    BY <1>6 DEF AnswerPrompt, AskTimeout, Answer
  <2>3. /\ session' \in [Sessions -> Session]
        /\ \A f \in Sessions : GateInv(session'[f])
    BY <1>g, <2>1, <2>2, AnswerGate, SessionStep
  <2>. QED BY <1>0, <2>1, <2>3 DEF TypeInv, TypeOK
<1>7. ASSUME NEW p \in Proposals, NEW n \in {"approve", "deny"}, Tap(p, n) PROVE TypeInv'
  <2>1. UNCHANGED <<db, draft, writer, expired, runs, ran, lost, raced>>
    BY <1>7 DEF Tap
  <2>2. ASSUME NEW f \in Sessions PROVE GateInv(session'[f])
    <3>1. n \in Answer BY DEF Answer
    <3>2. CASE session'[f] = session[f] BY <1>g, <3>2
    <3>3. CASE /\ session[f].pc = "asking"
               /\ session'[f] = [session[f] EXCEPT !.pc = "answered", !.answer = n]
      <4>1. GateInv([session[f] EXCEPT !.pc = "answered", !.answer = n])
        BY <1>g, <3>1, <3>3, AnswerGate
      <4>. QED BY <4>1, <3>3, Zenon
    <3>. QED BY <1>7, <3>2, <3>3 DEF Tap
  <2>3. session' \in [Sessions -> Session]
    <3>1. \E F : session' = [f \in Sessions |-> F[f]]
      <4>1. session' = [f \in Sessions |-> session'[f]] BY <1>7 DEF Tap
      <4>. QED BY <4>1
    <3>. QED BY <2>2, <3>1 DEF GateInv
  <2>. QED BY <1>0, <2>1, <2>2, <2>3 DEF TypeInv, TypeOK
<1>8. ASSUME NEW e \in Sessions, Confirm(e) PROVE TypeInv'
  <2>. DEFINE x == session[e]
              a == IF Consents(x.answer) THEN "cleared" ELSE "closing"
  <2>1. /\ UNCHANGED <<db, expired, runs, ran, lost, raced>>
        /\ x.pc = "answered"
        /\ Move(e, [session[e] EXCEPT !.pc = a])
    BY <1>8 DEF Confirm
  <2>2. /\ x.proposal \in Proposals /\ x.result = "none"
        /\ DecidedLevel(x) = CONFIRM /\ x.answer \in Answer
    BY <1>g, <2>1 DEF GateInv
  <2>3. /\ draft' \in Database /\ writer' \in Sessions \cup {NoSession}
        /\ (writer' = NoSession => draft' = db')
    <3>1. CASE x.kind = "channel"
      <4>1. WithAnswer(View(e), x.proposal, x.answer) \in Database
        BY <1>g, <2>2, AnswerLogged
      <4>. QED BY <1>8, <3>1, <4>1, FlushStep DEF Confirm
    <3>2. CASE x.kind # "channel"
      <4>1. UNCHANGED <<draft, writer>> BY <1>8, <3>2 DEF Confirm
      <4>. QED BY <1>0, <2>1, <4>1
    <3>. QED BY <3>1, <3>2
  <2>4. GateInv([x EXCEPT !.pc = a])
    <3>1. CASE Consents(x.answer)
      <4>1. x.answer = "approve" /\ a = "cleared" /\ x.pc \in Gated \ {"dispatched"}
        BY <3>1, <2>1 DEF Consents, Gated
      <4>. HIDE DEF a
      <4>2. GateInv([x EXCEPT !.pc = "cleared"]) BY <1>g, <4>1, GatedMove
      <4>. QED BY <4>1, <4>2
    <3>2. CASE ~Consents(x.answer) BY <1>g, <2>1, <2>2, <3>2, CloseGate
    <3>. QED BY <3>1, <3>2
  <2>. HIDE DEF a
  <2>5. /\ session' \in [Sessions -> Session]
        /\ \A f \in Sessions : GateInv(session'[f])
    BY <2>1, <2>4, SessionStep
  <2>. QED BY <1>0, <2>1, <2>3, <2>5 DEF TypeInv, TypeOK
<1>9. ASSUME NEW e \in Sessions, Checkpoint(e) PROVE TypeInv'
  <2>. DEFINE x == session[e]
              a == IF Halts(e, DecisionWindow(x.ctx)) THEN "closing" ELSE "capturing"
  <2>1. /\ UNCHANGED <<db, draft, writer, expired, runs, ran, lost, raced>>
        /\ x.pc = "cleared"
        /\ Move(e, [session[e] EXCEPT !.pc = a])
    BY <1>9 DEF Checkpoint
  <2>2. /\ x.result = "none" /\ x.pc \in Gated \ {"dispatched"}
        /\ DecidedLevel(x) = CONFIRM => x.answer = "approve"
    BY <1>g, <2>1 DEF GateInv, Gated, PastGate
  <2>3. GateInv([x EXCEPT !.pc = "closing"]) BY <1>g, <2>1, <2>2, CloseGate
  <2>4. GateInv([x EXCEPT !.pc = "capturing"]) BY <1>g, <2>2, GatedMove
  <2>5. GateInv([x EXCEPT !.pc = a]) BY <2>3, <2>4
  <2>. HIDE DEF a
  <2>6. /\ session' \in [Sessions -> Session]
        /\ \A f \in Sessions : GateInv(session'[f])
    BY <2>1, <2>5, SessionStep
  <2>. QED BY <1>0, <2>1, <2>6 DEF TypeInv, TypeOK
<1>10. ASSUME NEW e \in Sessions, Dispatch(e) PROVE TypeInv'
  <2>. DEFINE x == session[e]
  <2>1. PICK r \in Result :
           /\ Move(e, [session[e] EXCEPT !.pc = "dispatched", !.result = r])
           /\ ran' = [ran EXCEPT ![x.proposal][r] = @ + 1]
    BY <1>10 DEF Dispatch
  <2>2. /\ UNCHANGED <<db, draft, writer, expired, runs, lost, raced>>
        /\ x.pc = "capturing"
    BY <1>10 DEF Dispatch
  <2>3. x.proposal \in Proposals BY <1>g, <2>2 DEF GateInv
  <2>4. ran' \in [Proposals -> [Result -> Nat]] BY <1>0, <2>1, <2>3
  <2>5. /\ session' \in [Sessions -> Session]
        /\ \A f \in Sessions : GateInv(session'[f])
    BY <1>g, <2>1, <2>2, DispatchGate, SessionStep
  <2>. QED BY <1>0, <2>2, <2>4, <2>5 DEF TypeInv, TypeOK
<1>11. ASSUME NEW e \in Sessions, Record(e) PROVE TypeInv'
  <2>. DEFINE x == session[e]
  <2>1. /\ UNCHANGED <<db, expired, runs, ran, lost, raced>>
        /\ x.pc = "dispatched"
        /\ Move(e, [session[e] EXCEPT !.pc = "closing"])
        /\ Flush(e, Recorded(View(e), x.proposal, x.result))
    BY <1>11 DEF Record
  <2>2. x.proposal \in Proposals /\ x.result \in Result
    BY <1>g, <2>1 DEF GateInv, Session
  <2>3. Recorded(View(e), x.proposal, x.result) \in Database
    BY <1>g, <2>2, RecordedType
  <2>4. writer' = e /\ e # NoSession /\ draft' \in Database
    BY <2>1, <2>3, FlushStep
  <2>5. /\ session' \in [Sessions -> Session]
        /\ \A f \in Sessions : GateInv(session'[f])
    BY <1>g, <2>1, RecordGate, SessionStep
  <2>. QED BY <1>0, <2>1, <2>4, <2>5 DEF TypeInv, TypeOK
<1>12. ASSUME NEW e \in Sessions, Judge(e) PROVE TypeInv'
  <2>. DEFINE x == session[e]
  <2>1. /\ UNCHANGED <<db, expired, runs, ran, lost, raced>>
        /\ x.pc = "judging"
        /\ Move(e, [session[e] EXCEPT !.pc = "closing"])
        /\ Flush(e, Judged(View(e), x.proposal, x.kind))
    BY <1>12 DEF Judge
  <2>2. /\ x.proposal \in Proposals /\ x.kind \in {"accept", "reject"}
        /\ x.result = "none"
    BY <1>g, <2>1 DEF GateInv
  <2>3. Judged(View(e), x.proposal, x.kind) \in Database
    BY <1>g, <2>2, JudgedType
  <2>4. writer' = e /\ e # NoSession /\ draft' \in Database
    BY <2>1, <2>3, FlushStep
  <2>5. /\ session' \in [Sessions -> Session]
        /\ \A f \in Sessions : GateInv(session'[f])
    BY <1>g, <2>1, <2>2, CloseGate, SessionStep
  <2>. QED BY <1>0, <2>1, <2>4, <2>5 DEF TypeInv, TypeOK
<1>13. ASSUME NEW e \in Sessions, Commit(e) PROVE TypeInv'
  <2>1. UNCHANGED <<draft, expired, runs, ran, lost, raced>> /\ Move(e, Idle)
    BY <1>13 DEF Commit
  <2>2. /\ db' \in Database /\ writer' \in Sessions \cup {NoSession}
        /\ (writer' = NoSession => draft' = db')
    BY <1>0, <1>13, <2>1 DEF Commit
  <2>3. /\ session' \in [Sessions -> Session]
        /\ \A f \in Sessions : GateInv(session'[f])
    BY <2>1, IdleGate, SessionStep
  <2>. QED BY <1>0, <2>1, <2>2, <2>3 DEF TypeInv, TypeOK
<1>14. ASSUME NEW e \in Sessions, Abort(e), session[e].pc # "idle" PROVE TypeInv'
  <2>1. UNCHANGED <<db, expired, runs, ran, raced>> /\ Move(e, Idle)
    BY <1>14 DEF Abort
  <2>2. /\ draft' \in Database /\ writer' \in Sessions \cup {NoSession}
        /\ (writer' = NoSession => draft' = db')
    BY <1>0, <1>14, <2>1 DEF Abort, RollBack
  <2>3. lost' \in [Proposals -> [Result -> Nat]]
    <3>1. CASE session[e].result = "none" BY <1>0, <1>14, <3>1 DEF Abort
    <3>2. CASE session[e].result # "none"
      <4>1. session[e].proposal \in Proposals /\ session[e].result \in Result
        BY <1>g, <1>14, <3>2 DEF GateInv, Session
      <4>2. lost' = [lost EXCEPT ![session[e].proposal][session[e].result] = @ + 1]
        BY <1>14, <3>2 DEF Abort
      <4>. QED BY <1>0, <4>1, <4>2
    <3>. QED BY <3>1, <3>2
  <2>4. /\ session' \in [Sessions -> Session]
        /\ \A f \in Sessions : GateInv(session'[f])
    BY <2>1, IdleGate, SessionStep
  <2>. QED BY <1>0, <2>1, <2>2, <2>3, <2>4 DEF TypeInv, TypeOK
<1>15. ASSUME NEW c \in Cells, NEW level \in GrantLevels, Grant(c, level) PROVE TypeInv'
  <2>1. [db EXCEPT !.cell[c] = GrantedRow(@, level)] \in Database
    BY <1>0, ExecutorAssumption, GrantedType
  <2>. QED BY <1>15, <2>1, OperatorStep DEF Grant
<1>16. ASSUME NEW h \in Hosts, NEW b \in Ceilings, SetBoundary(h, b) PROVE TypeInv'
  <2>1. [db EXCEPT !.bound[h] = {b}] \in Database
    BY <1>0, ExecutorAssumption, BoundaryType
  <2>. QED BY <1>16, <2>1, OperatorStep DEF SetBoundary
<1>17. ASSUME NEW w \in Windows, OpenWindow(w) \/ RevokeWindow(w) PROVE TypeInv'
  <2>. DEFINE n(s) == [db EXCEPT !.window[w] = s]
  <2>1. ASSUME NEW s \in WindowState PROVE n(s) \in Database
    BY <1>0, <2>1 DEF Database, WindowState
  <2>2. n("open") \in Database /\ n("revoked") \in Database
    BY <2>1 DEF WindowState
  <2>. QED BY <1>17, <2>2, OperatorStep DEF OpenWindow, RevokeWindow
<1>18. ASSUME KillSwitch PROVE TypeInv'
  <2>. DEFINE n == [db EXCEPT !.window = [w \in Windows |-> IF Open(db, w)
                                                            THEN "revoked" ELSE @[w]]]
              f == [w \in Windows |-> IF Open(db, w) THEN "revoked" ELSE db.window[w]]
  <2>1. f \in [Windows -> WindowState] BY <1>0 DEF Database, WindowState
  <2>2. n = [db EXCEPT !.window = f] BY <1>0 DEF Database
  <2>3. n \in Database BY <1>0, <2>1, <2>2, WindowType
  <2>. QED BY <1>18, <2>3, OperatorStep DEF KillSwitch
<1>19. ASSUME NEW w \in Windows, Expire(w) PROVE TypeInv'
  BY <1>0, <1>19 DEF Expire, TypeInv, TypeOK
<1>20. ASSUME UNCHANGED vars PROVE TypeInv'
  BY <1>20 DEF vars, TypeInv, TypeOK
<1>21. ASSUME NEW e \in Sessions, Busy(e) PROVE TypeInv'
  BY <1>14, <1>21 DEF Busy, MustFlush
<1>22. ASSUME NEW e \in Sessions, Handler(e) PROVE TypeInv'
  BY <1>2, <1>4, <1>5, <1>6, <1>8, <1>9, <1>10, <1>11, <1>12, <1>13, <1>21, <1>22
     DEF Handler, GateAny
<1>23. ASSUME Human PROVE TypeInv'
  BY <1>2, <1>3, <1>6, <1>7, <1>15, <1>16, <1>17, <1>18, <1>23 DEF Human, GateAny
<1>. QED BY <1>1, <1>3, <1>14, <1>19, <1>20, <1>22, <1>23
         DEF Next, NextUp, Start, Crash
-----------------------------------------------------------------------------
(* The inductive invariant holds of every behaviour.                       *)
LEMMA SpecTypeInv == Spec => []TypeInv
BY TypeInit, TypeNext, PTL DEF Spec

(* Types, and the discipline of the write lock: without a writer there is  *)
(* no draft apart from the committed database.                             *)
THEOREM TypeCorrect == Spec => []TypeOK
<1>1. TypeInv => TypeOK BY DEF TypeInv
<1>. QED BY <1>1, SpecTypeInv, PTL

(* Whatever reaches the target holds the authority decide() asked for.     *)
THEOREM AuthorisedAlways == Spec => []Authorised
<1>1. TypeInv => Authorised
  <2>. SUFFICES ASSUME TypeInv, NEW e \in Sessions, PastGate(session[e])
                PROVE  LET x == session[e]
                       IN  /\ Executes(DecidedLevel(x))
                           /\ DecidedLevel(x) = CONFIRM => x.answer = "approve"
                           /\ DecidedLevel(x) = AUTONOMOUS =>
                                 x.verified \/ DecisionWindow(x.ctx) # NoWindow
                                            \/ x.kind = "override"
                           /\ \A b \in x.ctx.bounds :
                                 b.absolute => DecidedLevel(x) <= b.ceiling
    BY DEF Authorised
  <2>. DEFINE x == session[e]
  <2>1. GateInv(x) /\ PastGate(x) BY DEF TypeInv
  <2>2. x.pc \in Gated \/ x.result # "none" BY <2>1 DEF PastGate, Gated
  <2>3. /\ Executes(DecidedLevel(x)) /\ x.ctx.override = (x.kind = "override")
        /\ x.ctx \in TrustContext /\ x.verified \in BOOLEAN
        /\ DecidedLevel(x) = CONFIRM => x.answer = "approve"
    BY <2>1, <2>2 DEF GateInv, Session
  <2>4. DecidedLevel(x) = AUTONOMOUS => x.verified \/ Lifted(x.ctx)
    BY <2>3, AutonomyNeedsReversibility DEF DecidedLevel
  <2>5. Lifted(x.ctx) => DecisionWindow(x.ctx) # NoWindow \/ x.kind = "override"
    BY <2>3 DEF Lifted, DecisionWindow
  <2>6. \A b \in x.ctx.bounds : b.absolute => DecidedLevel(x) <= b.ceiling
    BY <2>3, DecideBound DEF DecidedLevel
  <2>. QED BY <2>3, <2>4, <2>5, <2>6
<1>. QED BY <1>1, SpecTypeInv, PTL

(* A proposal in a domain that stops at PROPOSE never reaches the target.  *)
THEOREM AbsoluteFloor == Spec => []AbsoluteFloorHolds
<1>1. Init => AbsoluteFloorHolds BY DEF Init, Zero, AbsoluteFloorHolds
<1>2. ASSUME TypeInv, AbsoluteFloorHolds, [Next]_vars PROVE AbsoluteFloorHolds'
  <2>1. CASE \E e \in Sessions : Dispatch(e)
    <3>1. PICK e \in Sessions : Dispatch(e) BY <2>1
    <3>. DEFINE x == session[e]
    <3>2. PICK r \in Result : ran' = [ran EXCEPT ![x.proposal][r] = @ + 1]
      BY <3>1 DEF Dispatch
    <3>3. /\ Executes(DecidedLevel(x)) /\ x.proposal \in Proposals
          /\ x.ctx.max = MaxLevel[CellOf[x.proposal]]
          /\ x.ctx \in TrustContext /\ x.verified \in BOOLEAN
      BY <1>2, <3>1 DEF TypeInv, GateInv, Gated, Dispatch, Session
    <3>4. DecidedLevel(x) \in Level /\ DecidedLevel(x) <= x.ctx.max
      BY <3>3, DecideBound DEF DecidedLevel
    <3>5. MaxLevel[CellOf[x.proposal]] # PROPOSE
      BY <3>3, <3>4 DEF Executes, Level, BLOCK, PROPOSE, AUTONOMOUS
    <3>6. ran \in [Proposals -> [Result -> Nat]] BY <1>2 DEF TypeInv, TypeOK
    <3>. QED BY <1>2, <3>2, <3>3, <3>5, <3>6 DEF AbsoluteFloorHolds
  <2>2. CASE ~\E e \in Sessions : Dispatch(e)
    <3>1. UNCHANGED ran
      BY <1>2, <2>2 DEF Next, NextUp, Start, Resolve, Handler, GateAny, Gate, Probe,
           Route, AskTimeout, Confirm, Checkpoint, Record, Judge, Commit, Busy,
           Abort, ChannelFails, Human, Mistype, AnswerPrompt, Tap, Grant,
           SetBoundary, OpenWindow, RevokeWindow, KillSwitch, Operator, Expire,
           Crash, vars
    <3>. QED BY <1>2, <3>1 DEF AbsoluteFloorHolds
  <2>. QED BY <2>1, <2>2
<1>. QED BY <1>1, <1>2, SpecTypeInv, PTL DEF Spec
-----------------------------------------------------------------------------
(***************************************************************************)
(* The one write transaction of the execution spine: what is committed     *)
(* together, what a session reads while another one writes, and that the   *)
(* cell rows take the steps of CellTrust and no others, for every number   *)
(* of sessions, proposals, cells and windows.                              *)
(***************************************************************************)

(* A proposal the executor marked as done has its receipt.                 *)
Sound(d) == \A p \in Proposals :
                d.outcome[p] = "executed" => d.receipts[p]["succeeded"] > 0

(* One outcome of one cell.                                                *)
CellStep(from, to) ==
    \E c \in Cells : \/ to = [from EXCEPT ![c] = CleanOutcome(c, @)]
                     \/ to = [from EXCEPT ![c] = BadOutcome]
                     \/ to = [from EXCEPT ![c] = Rejection(@)]

(* The inductive invariant: the draft differs from the database by at most *)
(* one outcome of one cell, and by that only once its session is closing;  *)
(* no draft touches a window.                                              *)
TxInv ==
    /\ Sound(db) /\ Sound(draft)
    /\ draft.window = db.window
    /\ \A e \in Sessions : writer = e =>
          /\ session[e].pc # "idle"
          /\ \/ draft.cell = db.cell
             \/ session[e].pc = "closing" /\ CellStep(db.cell, draft.cell)

CommitInv == TypeInv /\ TxInv
-----------------------------------------------------------------------------
(* The kinds of step, as the transaction sees them: one that touches no    *)
(* database and ends no session, ...                                       *)
Quiet ==
    /\ UNCHANGED <<db, draft, writer>>
    /\ \A f \in Sessions : \/ session'[f] = session[f]
                           \/ session[f].pc # "closing" /\ session'[f].pc # "idle"

(* ... one that flushes, ...                                               *)
Writes(e, d) ==
    /\ db' = db /\ writer' = e /\ draft' = d /\ MayWrite(e)
    /\ session[e].pc # "closing"
    /\ session'[e].pc # "idle"
    /\ \A f \in Sessions \ {e} : session'[f] = session[f]
    /\ d.window = View(e).window
    /\ Sound(View(e)) => Sound(d)
    /\ \/ d.cell = View(e).cell
       \/ session'[e].pc = "closing" /\ CellStep(View(e).cell, d.cell)

(* ... and one of the operator's.                                          *)
Commands(d) ==
    /\ Operator(d)
    /\ d.outcome = db.outcome /\ d.receipts = db.receipts
    /\ \/ d.cell = db.cell
       \/ \E c \in Cells, level \in Level :
             MayGrant(c, level) /\ d.cell = [db.cell EXCEPT ![c] = GrantedRow(@, level)]

Shaped == \/ Quiet
          \/ \E e \in Sessions : \E d \in Database : Writes(e, d)
          \/ \E e \in Sessions : Commit(e) \/ Abort(e)
          \/ \E d \in Database : Commands(d)
-----------------------------------------------------------------------------
(* What a session does to the map of sessions.                             *)
LEMMA MoveShape ==
    ASSUME TypeInv, NEW e \in Sessions, NEW x, Move(e, x)
    PROVE  session'[e] = x /\ \A f \in Sessions \ {e} : session'[f] = session[f]
<1>1. session \in [Sessions -> Session] BY DEF TypeInv, TypeOK
<1>. QED BY <1>1 DEF Move

(* A session moved to another program counter is there.                    *)
LEMMA PcOf ==
    ASSUME NEW x \in Session, NEW a
    PROVE  [x EXCEPT !.pc = a].pc = a
BY DEF Session

(* The steps of a session that only move it.                               *)
LEMMA QuietMoves ==
    ASSUME TypeInv, NEW e \in Sessions,
           \/ \E p \in Proposals, k \in AllKinds : Resolve(e, p, k)
           \/ GateAny(e) \/ Mistype(e) \/ Probe(e) \/ AnswerPrompt(e)
           \/ AskTimeout(e) \/ ChannelFails(e) \/ Checkpoint(e) \/ Dispatch(e)
    PROVE  Quiet
<1>0. session \in [Sessions -> Session] /\ session[e] \in Session
  BY DEF TypeInv, TypeOK
<1>1. ASSUME NEW x, Move(e, x), x.pc # "idle", session[e].pc # "closing",
             UNCHANGED <<db, draft, writer>>
      PROVE  Quiet
  BY <1>1, MoveShape DEF Quiet
<1>2. ASSUME NEW p \in Proposals, NEW k \in AllKinds, Resolve(e, p, k) PROVE Quiet
  <2>. DEFINE x == [Idle EXCEPT !.pc = IF k \in {"accept", "reject"}
                                       THEN "judging" ELSE "resolved",
                                !.kind = k, !.proposal = p]
  <2>1. x.pc # "idle" BY DEF Idle
  <2>2. Move(e, x) /\ session[e].pc # "closing" /\ UNCHANGED <<db, draft, writer>>
    BY <1>2 DEF Resolve
  <2>. HIDE DEF x
  <2>. QED BY <1>1, <2>1, <2>2
<1>3. ASSUME GateAny(e) PROVE Quiet
  <2>1. PICK w \in Windows \cup {NoWindow} : Gate(e, w) BY <1>3 DEF GateAny
  <2>. DEFINE ctx == LoadContext(View(e), session[e].proposal, w,
                                 session[e].kind = "override")
              a == IF Executes(Decide(ctx, FALSE)) THEN "probing" ELSE "closing"
              x == [session[e] EXCEPT !.pc = a, !.ctx = ctx]
  <2>2. Move(e, x) /\ session[e].pc # "closing" /\ UNCHANGED <<db, draft, writer>>
    BY <2>1 DEF Gate
  <2>3. a # "idle" OBVIOUS
  <2>. HIDE DEF a, ctx
  <2>4. x.pc # "idle" BY <1>0, <2>3 DEF Session
  <2>. HIDE DEF x
  <2>. QED BY <1>1, <2>2, <2>4
<1>4. ASSUME Mistype(e) \/ ChannelFails(e) PROVE Quiet
  <2>. DEFINE x == [session[e] EXCEPT !.pc = "closing"]
  <2>1. Move(e, x) /\ session[e].pc # "closing" /\ UNCHANGED <<db, draft, writer>>
    BY <1>4 DEF Mistype, ChannelFails
  <2>2. x.pc # "idle" BY <1>0 DEF Session
  <2>. HIDE DEF x
  <2>. QED BY <1>1, <2>1, <2>2
<1>5. ASSUME Probe(e) PROVE Quiet
  <2>1. PICK v \in BOOLEAN :
           Move(e, [session[e] EXCEPT !.pc = "decided", !.verified = v])
    BY <1>5 DEF Probe
  <2>. DEFINE x == [session[e] EXCEPT !.pc = "decided", !.verified = v]
  <2>2. session[e].pc # "closing" /\ UNCHANGED <<db, draft, writer>> BY <1>5 DEF Probe
  <2>3. x.pc # "idle" BY <1>0 DEF Session
  <2>. HIDE DEF x
  <2>. QED BY <1>1, <2>1, <2>2, <2>3 DEF x
<1>6. ASSUME AnswerPrompt(e) \/ AskTimeout(e) PROVE Quiet
  <2>1. PICK n \in Answer :
           Move(e, [session[e] EXCEPT !.pc = "answered", !.answer = n])
    BY <1>6 DEF AnswerPrompt, AskTimeout, Answer
  <2>. DEFINE x == [session[e] EXCEPT !.pc = "answered", !.answer = n]
  <2>2. session[e].pc # "closing" /\ UNCHANGED <<db, draft, writer>>
    BY <1>6 DEF AnswerPrompt, AskTimeout
  <2>3. x.pc # "idle" BY <1>0 DEF Session
  <2>. HIDE DEF x
  <2>. QED BY <1>1, <2>1, <2>2, <2>3 DEF x
<1>7. ASSUME Checkpoint(e) PROVE Quiet
  <2>. DEFINE a == IF Halts(e, DecisionWindow(session[e].ctx))
                   THEN "closing" ELSE "capturing"
              x == [session[e] EXCEPT !.pc = a]
  <2>1. Move(e, x) /\ session[e].pc # "closing" /\ UNCHANGED <<db, draft, writer>>
    BY <1>7 DEF Checkpoint
  <2>2. a # "idle" OBVIOUS
  <2>. HIDE DEF a
  <2>3. x.pc # "idle" BY <1>0, <2>2 DEF Session
  <2>. HIDE DEF x
  <2>. QED BY <1>1, <2>1, <2>3
<1>8. ASSUME Dispatch(e) PROVE Quiet
  <2>1. PICK r \in Result :
           Move(e, [session[e] EXCEPT !.pc = "dispatched", !.result = r])
    BY <1>8 DEF Dispatch
  <2>. DEFINE x == [session[e] EXCEPT !.pc = "dispatched", !.result = r]
  <2>2. session[e].pc # "closing" /\ UNCHANGED <<db, draft, writer>>
    BY <1>8 DEF Dispatch
  <2>3. x.pc # "idle" BY <1>0 DEF Session
  <2>. HIDE DEF x
  <2>. QED BY <1>1, <2>1, <2>2, <2>3 DEF x
<1>. QED BY <1>2, <1>3, <1>4, <1>5, <1>6, <1>7, <1>8

(* A tap moves every session that hears it, and writes nothing.            *)
LEMMA TapQuiet ==
    ASSUME TypeInv, NEW p \in Proposals, NEW n, Tap(p, n)
    PROVE  Quiet
<1>1. session \in [Sessions -> Session] BY DEF TypeInv, TypeOK
<1>2. UNCHANGED <<db, draft, writer>> BY DEF Tap
<1>3. ASSUME NEW f \in Sessions
      PROVE  \/ session'[f] = session[f]
             \/ session[f].pc # "closing" /\ session'[f].pc # "idle"
  <2>1. session[f] \in Session BY <1>1
  <2>2. CASE session'[f] = session[f] BY <2>2
  <2>3. CASE /\ session[f].pc = "asking"
             /\ session'[f] = [session[f] EXCEPT !.pc = "answered", !.answer = n]
    BY <2>1, <2>3 DEF Session
  <2>. QED BY <2>2, <2>3 DEF Tap
<1>. QED BY <1>2, <1>3 DEF Quiet

(* The audit rows change neither outcomes, receipts, cells nor windows.    *)
LEMMA AuditWrites ==
    ASSUME TypeInv, NEW e \in Sessions, NEW d \in Database, NEW a \in PC \ {"idle"},
           Flush(e, d), Move(e, [session[e] EXCEPT !.pc = a]), UNCHANGED db,
           session[e].pc # "closing", d.outcome = View(e).outcome,
           d.receipts = View(e).receipts, d.cell = View(e).cell,
           d.window = View(e).window
    PROVE  Writes(e, d)
<1>1. session[e] \in Session BY DEF TypeInv, TypeOK
<1>. DEFINE x == [session[e] EXCEPT !.pc = a]
<1>2. x.pc = a BY <1>1, PcOf
<1>. HIDE DEF x
<1>3. Move(e, x) BY DEF x
<1>4. session'[e] = x /\ \A f \in Sessions \ {e} : session'[f] = session[f]
  BY <1>3, MoveShape
<1>5. Sound(View(e)) => Sound(d) BY DEF Sound
<1>. QED BY <1>2, <1>4, <1>5 DEF Writes, Flush

(* Route: the override, where there is one to write.                       *)
LEMMA RouteShape ==
    ASSUME TypeInv, NEW e \in Sessions, Route(e)
    PROVE  Shaped
<1>. DEFINE x == session[e]
            a == IF DecidedLevel(x) = CONFIRM THEN "asking" ELSE "cleared"
<1>1. GateInv(x) /\ x.pc = "decided" /\ View(e) \in Database /\ x \in Session
  BY ViewType DEF TypeInv, TypeOK, Route
<1>2. Move(e, [x EXCEPT !.pc = a]) /\ UNCHANGED db BY DEF Route
<1>3. a \in PC \ {"idle"} BY DEF PC
<1>. HIDE DEF a
<1>4. CASE OverrideBore(x)
  <2>. DEFINE d == [View(e) EXCEPT !.overrides = @ \cup {x.proposal}]
  <2>1. x.proposal \in Proposals BY <1>1 DEF GateInv
  <2>2. /\ d \in Database /\ d.outcome = View(e).outcome /\ d.cell = View(e).cell
        /\ d.window = View(e).window /\ d.receipts = View(e).receipts
    BY <1>1, <2>1, OverrideLogged
  <2>3. Flush(e, d) BY <1>4 DEF Route
  <2>. HIDE DEF d
  <2>4. Writes(e, d) BY <1>1, <1>2, <1>3, <2>2, <2>3, AuditWrites
  <2>. QED BY <2>2, <2>4 DEF Shaped
<1>5. CASE ~OverrideBore(x)
  <2>1. UNCHANGED <<draft, writer>> BY <1>5 DEF Route
  <2>. DEFINE y == [x EXCEPT !.pc = a]
  <2>2. y.pc = a BY <1>1, PcOf
  <2>. HIDE DEF y
  <2>3. session'[e] = y /\ \A f \in Sessions \ {e} : session'[f] = session[f]
    BY <1>2, MoveShape DEF y
  <2>. QED BY <1>1, <1>2, <1>3, <2>1, <2>2, <2>3 DEF Shaped, Quiet
<1>. QED BY <1>4, <1>5

(* Confirm: the channel's answer, where there is a channel.                *)
LEMMA ConfirmShape ==
    ASSUME TypeInv, NEW e \in Sessions, Confirm(e)
    PROVE  Shaped
<1>. DEFINE x == session[e]
            a == IF Consents(x.answer) THEN "cleared" ELSE "closing"
<1>1. GateInv(x) /\ x.pc = "answered" /\ View(e) \in Database /\ x \in Session
  BY ViewType DEF TypeInv, TypeOK, Confirm
<1>2. Move(e, [x EXCEPT !.pc = a]) /\ UNCHANGED db BY DEF Confirm
<1>3. a \in PC \ {"idle"} BY DEF PC
<1>. HIDE DEF a
<1>4. CASE x.kind = "channel"
  <2>. DEFINE d == WithAnswer(View(e), x.proposal, x.answer)
  <2>1. x.proposal \in Proposals /\ x.answer \in Answer BY <1>1 DEF GateInv
  <2>2. /\ d \in Database /\ d.outcome = View(e).outcome /\ d.cell = View(e).cell
        /\ d.window = View(e).window /\ d.receipts = View(e).receipts
    BY <1>1, <2>1, AnswerLogged
  <2>3. Flush(e, d) BY <1>4 DEF Confirm
  <2>. HIDE DEF d
  <2>4. Writes(e, d) BY <1>1, <1>2, <1>3, <2>2, <2>3, AuditWrites
  <2>. QED BY <2>2, <2>4 DEF Shaped
<1>5. CASE x.kind # "channel"
  <2>1. UNCHANGED <<draft, writer>> BY <1>5 DEF Confirm
  <2>. DEFINE y == [x EXCEPT !.pc = a]
  <2>2. y.pc = a BY <1>1, PcOf
  <2>. HIDE DEF y
  <2>3. session'[e] = y /\ \A f \in Sessions \ {e} : session'[f] = session[f]
    BY <1>2, MoveShape DEF y
  <2>. QED BY <1>1, <1>2, <1>3, <2>1, <2>2, <2>3 DEF Shaped, Quiet
<1>. QED BY <1>4, <1>5
-----------------------------------------------------------------------------
(* Record: receipt, outcome and cell in one flush.                         *)
LEMMA RecordShape ==
    ASSUME TypeInv, NEW e \in Sessions, Record(e)
    PROVE  \E d \in Database : Writes(e, d)
<1>. DEFINE x == session[e]
            y == [x EXCEPT !.pc = "closing"]
            v == View(e)
            p == x.proposal
            r == x.result
            c == CellOf[p]
            d == Recorded(v, p, r)
<1>1. GateInv(x) /\ x.pc = "dispatched" /\ v \in Database /\ x \in Session
  BY ViewType DEF TypeInv, TypeOK, Record
<1>2. p \in Proposals /\ r \in Result BY <1>1 DEF GateInv, Session
<1>4. Flush(e, d) /\ Move(e, y) /\ UNCHANGED db BY DEF Record
<1>v. v = View(e) /\ v \in Database BY <1>1
<1>. HIDE DEF p, r, v
<1>d. d \in Database BY <1>v, <1>2, RecordedType
<1>3. /\ d \in Database
      /\ d.outcome  = [v.outcome EXCEPT ![p] = OutcomeAfter(@, r)]
      /\ d.receipts = [v.receipts EXCEPT ![p][r] = @ + 1]
      /\ d.cell     = [v.cell EXCEPT ![c] = CellAfter(c, @, r)]
      /\ d.window = v.window
  BY <1>v, <1>d, ZenonT(30) DEF Recorded, Database
<1>5. y.pc = "closing" BY <1>1, PcOf
<1>6. /\ v.outcome \in [Proposals -> Outcome]
      /\ v.receipts \in [Proposals -> [Result -> Nat]]
      /\ v.cell \in [Cells -> CellRow] /\ c \in Cells
  BY <1>v, <1>2, ExecutorAssumption DEF Database
<1>. HIDE DEF d, y
<1>7. session'[e] = y /\ \A f \in Sessions \ {e} : session'[f] = session[f]
  BY <1>4, MoveShape
<1>8. Sound(v) => Sound(d)
  <2>. SUFFICES ASSUME Sound(v), NEW q \in Proposals, d.outcome[q] = "executed"
                PROVE  d.receipts[q]["succeeded"] > 0
    BY DEF Sound
  <2>1. "succeeded" \in Result BY DEF Result
  <2>2. v.receipts[q]["succeeded"] \in Nat BY <1>6, <2>1
  <2>3. d.receipts[q]["succeeded"] >= v.receipts[q]["succeeded"]
    BY <1>2, <1>3, <1>6, <2>1, <2>2
  <2>4. CASE q = p /\ r = "succeeded" BY <1>2, <1>3, <1>6, <2>1, <2>2, <2>4
  <2>5. CASE ~(q = p /\ r = "succeeded")
    <3>1. v.outcome[q] = "executed" BY <1>2, <1>3, <1>6, <2>5 DEF OutcomeAfter
    <3>2. v.receipts[q]["succeeded"] > 0 BY <3>1 DEF Sound
    <3>3. d.receipts[q]["succeeded"] \in Nat BY <1>3, <2>1 DEF Database
    <3>. QED BY <2>2, <2>3, <3>2, <3>3
  <2>. QED BY <2>4, <2>5
<1>9. d.cell = v.cell \/ CellStep(v.cell, d.cell)
  <2>1. CASE r = "succeeded"
    <3>1. d.cell = [v.cell EXCEPT ![c] = CleanOutcome(c, @)]
      BY <1>3, <2>1 DEF CellAfter
    <3>. QED BY <1>6, <3>1 DEF CellStep
  <2>2. CASE r = "failed"
    <3>1. d.cell = [v.cell EXCEPT ![c] = BadOutcome]
      BY <1>3, <2>2 DEF CellAfter
    <3>. QED BY <1>6, <3>1 DEF CellStep
  <2>3. CASE r = "refused"
    <3>1. d.cell = [v.cell EXCEPT ![c] = @] BY <1>3, <2>3 DEF CellAfter
    <3>. QED BY <1>6, <3>1
  <2>. QED BY <1>2, <2>1, <2>2, <2>3 DEF Result
<1>10. Writes(e, d)
  BY <1>v, <1>1, <1>3, <1>4, <1>5, <1>7, <1>8, <1>9 DEF Writes, Flush
<1>. QED BY <1>3, <1>10

(* Judge: outcome and cell in one flush, and no receipt to owe.            *)
LEMMA JudgeShape ==
    ASSUME TypeInv, NEW e \in Sessions, Judge(e)
    PROVE  \E d \in Database : Writes(e, d)
<1>. DEFINE x == session[e]
            y == [x EXCEPT !.pc = "closing"]
            v == View(e)
            p == x.proposal
            k == x.kind
            c == CellOf[p]
            d == Judged(v, p, k)
            o == IF k = "accept" THEN "accepted" ELSE "rejected"
<1>1. GateInv(x) /\ x.pc = "judging" /\ v \in Database /\ x \in Session
  BY ViewType DEF TypeInv, TypeOK, Judge
<1>2. p \in Proposals /\ k \in {"accept", "reject"} BY <1>1 DEF GateInv
<1>4. Flush(e, d) /\ Move(e, y) /\ UNCHANGED db BY DEF Judge
<1>v. v = View(e) /\ v \in Database BY <1>1
<1>. HIDE DEF p, k, v
<1>d. d \in Database BY <1>v, <1>2, JudgedType
<1>3. /\ d \in Database
      /\ d.outcome  = [v.outcome EXCEPT ![p] = o]
      /\ d.receipts = v.receipts
      /\ d.cell = [v.cell EXCEPT ![c] = IF k = "accept" THEN CleanOutcome(c, @)
                                                             ELSE Rejection(@)]
      /\ d.window = v.window
  BY <1>v, <1>2, <1>d DEF Judged, Database
<1>5. y.pc = "closing" BY <1>1, PcOf
<1>6. /\ v.outcome \in [Proposals -> Outcome]
      /\ v.cell \in [Cells -> CellRow] /\ c \in Cells
  BY <1>v, <1>2, ExecutorAssumption DEF Database
<1>7. o # "executed" OBVIOUS
<1>. HIDE DEF d, y, o
<1>8. session'[e] = y /\ \A f \in Sessions \ {e} : session'[f] = session[f]
  BY <1>4, MoveShape
<1>9. Sound(v) => Sound(d) BY <1>3, <1>6, <1>7 DEF Sound
<1>10. CellStep(v.cell, d.cell)
  <2>1. CASE k = "accept"
    <3>1. d.cell = [v.cell EXCEPT ![c] = CleanOutcome(c, @)] BY <1>3, <2>1
    <3>. QED BY <1>6, <3>1 DEF CellStep
  <2>2. CASE k = "reject"
    <3>1. d.cell = [v.cell EXCEPT ![c] = Rejection(@)] BY <1>3, <2>2
    <3>. QED BY <1>6, <3>1 DEF CellStep
  <2>. QED BY <1>2, <2>1, <2>2
<1>11. Writes(e, d)
  BY <1>v, <1>1, <1>3, <1>4, <1>5, <1>8, <1>9, <1>10 DEF Writes, Flush
<1>. QED BY <1>3, <1>11

(* The checkpoint is the only way to the dispatch.                         *)
LEMMA OnlyCheckpointCaptures ==
    ASSUME TypeInv, [Next]_vars, NEW e \in Sessions, ~Checkpoint(e),
           session[e].pc # "capturing"
    PROVE  session'[e].pc # "capturing"
<1>0. session \in [Sessions -> Session] /\ session[e] \in Session
  BY DEF TypeInv, TypeOK
<1>1. ASSUME NEW x, Move(e, x), x.pc # "capturing" PROVE session'[e].pc # "capturing"
  BY <1>1, MoveShape
<1>2. ASSUME NEW f \in Sessions, NEW x, Move(f, x), f # e
      PROVE  session'[e].pc # "capturing"
  BY <1>2, MoveShape
<1>3. ASSUME NEW a, a # "capturing", Move(e, [session[e] EXCEPT !.pc = a])
      PROVE  session'[e].pc # "capturing"
  BY <1>0, <1>1, <1>3, PcOf
<1>4. ASSUME NEW f \in Sessions, NEW p \in Proposals, NEW k \in AllKinds, Resolve(f, p, k)
      PROVE  session'[e].pc # "capturing"
  <2>. DEFINE x == [Idle EXCEPT !.pc = IF k \in {"accept", "reject"}
                                       THEN "judging" ELSE "resolved",
                                !.kind = k, !.proposal = p]
  <2>1. x.pc # "capturing" BY DEF Idle
  <2>2. Move(f, x) BY <1>4 DEF Resolve
  <2>. HIDE DEF x
  <2>. QED BY <1>1, <1>2, <2>1, <2>2
<1>5. ASSUME NEW f \in Sessions, GateAny(f) PROVE session'[e].pc # "capturing"
  <2>1. PICK w \in Windows \cup {NoWindow} : Gate(f, w) BY <1>5 DEF GateAny
  <2>. DEFINE ctx == LoadContext(View(f), session[f].proposal, w,
                                 session[f].kind = "override")
              a == IF Executes(Decide(ctx, FALSE)) THEN "probing" ELSE "closing"
              x == [session[f] EXCEPT !.pc = a, !.ctx = ctx]
  <2>2. Move(f, x) BY <2>1 DEF Gate
  <2>3. a # "capturing" OBVIOUS
  <2>. HIDE DEF a, ctx
  <2>4. f = e => x.pc # "capturing" BY <1>0, <2>3 DEF Session
  <2>. HIDE DEF x
  <2>. QED BY <1>1, <1>2, <2>2, <2>4
<1>6. ASSUME NEW f \in Sessions, NEW a \in {"closing", "decided", "asking", "answered", "cleared", "dispatched"},
             \/ Move(f, [session[f] EXCEPT !.pc = a])
             \/ \E v : Move(f, [session[f] EXCEPT !.pc = a, !.verified = v])
             \/ \E n : Move(f, [session[f] EXCEPT !.pc = a, !.answer = n])
             \/ \E r : Move(f, [session[f] EXCEPT !.pc = a, !.result = r])
      PROVE  session'[e].pc # "capturing"
  <2>1. PICK x : Move(f, x) /\ (f = e => x.pc = a)
    <3>1. /\ [session[e] EXCEPT !.pc = a].pc = a
          /\ \A v : [session[e] EXCEPT !.pc = a, !.verified = v].pc = a
          /\ \A n : [session[e] EXCEPT !.pc = a, !.answer = n].pc = a
          /\ \A r : [session[e] EXCEPT !.pc = a, !.result = r].pc = a
      BY <1>0 DEF Session
    <3>. QED BY <1>6, <3>1, Zenon
  <2>. QED BY <1>1, <1>2, <1>6, <2>1
<1>7. ASSUME NEW f \in Sessions, Mistype(f) \/ ChannelFails(f) \/ Record(f) \/ Judge(f)
      PROVE  session'[e].pc # "capturing"
  BY <1>6, <1>7 DEF Mistype, ChannelFails, Record, Judge
<1>8. ASSUME NEW f \in Sessions, Probe(f) PROVE session'[e].pc # "capturing"
  BY <1>6, <1>8, Zenon DEF Probe
<1>9. ASSUME NEW f \in Sessions, AnswerPrompt(f) \/ AskTimeout(f)
      PROVE session'[e].pc # "capturing"
  BY <1>6, <1>9, Zenon DEF AnswerPrompt, AskTimeout
<1>10. ASSUME NEW f \in Sessions, Dispatch(f) PROVE session'[e].pc # "capturing"
  BY <1>6, <1>10, Zenon DEF Dispatch
<1>11. ASSUME NEW f \in Sessions, Route(f) PROVE session'[e].pc # "capturing"
  <2>. DEFINE a == IF DecidedLevel(session[f]) = CONFIRM THEN "asking" ELSE "cleared"
  <2>1. Move(f, [session[f] EXCEPT !.pc = a]) BY <1>11 DEF Route
  <2>. HIDE DEF a
  <2>2. a \in {"asking", "cleared"} BY DEF a
  <2>. QED BY <1>6, <2>1, <2>2
<1>12. ASSUME NEW f \in Sessions, Confirm(f) PROVE session'[e].pc # "capturing"
  <2>. DEFINE a == IF Consents(session[f].answer) THEN "cleared" ELSE "closing"
  <2>1. Move(f, [session[f] EXCEPT !.pc = a]) BY <1>12 DEF Confirm
  <2>. HIDE DEF a
  <2>2. a \in {"closing", "cleared"} BY DEF a
  <2>. QED BY <1>6, <2>1, <2>2
<1>13. ASSUME NEW f \in Sessions, Commit(f) \/ Abort(f) PROVE session'[e].pc # "capturing"
  <2>1. Move(f, Idle) BY <1>13 DEF Commit, Abort
  <2>2. Idle.pc # "capturing" BY DEF Idle
  <2>. HIDE DEF Idle
  <2>. QED BY <1>1, <1>2, <2>1, <2>2
<1>14. ASSUME NEW f \in Sessions, Checkpoint(f) PROVE session'[e].pc # "capturing"
  <2>1. f # e BY <1>14
  <2>2. PICK x : Move(f, x) BY <1>14 DEF Checkpoint
  <2>. QED BY <1>2, <2>1, <2>2
<1>15. ASSUME NEW p \in Proposals, NEW n, Tap(p, n) PROVE session'[e].pc # "capturing"
  <2>1. [session[e] EXCEPT !.pc = "answered", !.answer = n].pc = "answered"
    BY <1>0 DEF Session
  <2>2. \/ session'[e] = session[e]
        \/ session'[e] = [session[e] EXCEPT !.pc = "answered", !.answer = n]
    BY <1>15 DEF Tap
  <2>. QED BY <2>1, <2>2, Zenon
<1>16. ASSUME UNCHANGED session PROVE session'[e].pc # "capturing" BY <1>16
<1>17. ASSUME Human PROVE session'[e].pc # "capturing"
  <2>1. ASSUME NEW d, Operator(d) PROVE UNCHANGED session BY <2>1 DEF Operator
  <2>. QED BY <1>5, <1>7, <1>9, <1>15, <1>16, <1>17, <2>1
           DEF Human, Grant, SetBoundary, OpenWindow, RevokeWindow, KillSwitch
<1>18. ASSUME NEW f \in Sessions, Handler(f) PROVE session'[e].pc # "capturing"
  BY <1>5, <1>7, <1>8, <1>9, <1>10, <1>11, <1>12, <1>13, <1>14, <1>18
     DEF Handler, Busy
<1>19. ASSUME NEW f \in Sessions, Start(f) \/ ChannelFails(f) \/ Crash(f)
       PROVE session'[e].pc # "capturing"
  BY <1>4, <1>7, <1>13, <1>19 DEF Start, Crash
<1>20. ASSUME NEW w \in Windows, Expire(w) PROVE session'[e].pc # "capturing"
  BY <1>16, <1>20 DEF Expire
<1>21. ASSUME UNCHANGED vars PROVE session'[e].pc # "capturing" BY <1>16, <1>21 DEF vars
<1>. QED BY <1>17, <1>18, <1>19, <1>20, <1>21 DEF Next, NextUp

(* The operator's commands; a grant stays below the domain's ceiling.      *)
LEMMA HumanShape ==
    ASSUME TypeInv, Human
    PROVE  Shaped
<1>0. db \in Database BY DEF TypeInv, TypeOK
<1>1. ASSUME NEW e \in Sessions,
             (session[e].kind = "override" /\ GateAny(e)) \/ Mistype(e) \/ AnswerPrompt(e)
      PROVE  Shaped
  BY <1>1, QuietMoves DEF Shaped
<1>2. ASSUME NEW p \in Proposals, NEW a \in {"approve", "deny"}, Tap(p, a) PROVE Shaped
  BY <1>2, TapQuiet DEF Shaped
<1>3. ASSUME NEW c \in Cells, NEW level \in GrantLevels, Grant(c, level) PROVE Shaped
  <2>. DEFINE d == [db EXCEPT !.cell[c] = GrantedRow(@, level)]
  <2>1. level \in Level /\ MayGrant(c, level) /\ Operator(d)
    BY <1>3, ExecutorAssumption DEF Grant
  <2>2. d \in Database BY <1>0, <2>1, GrantedType
  <2>3. /\ d.outcome = db.outcome /\ d.receipts = db.receipts
        /\ d.cell = [db.cell EXCEPT ![c] = GrantedRow(@, level)]
    BY <1>0 DEF Database
  <2>. HIDE DEF d
  <2>4. Commands(d) BY <2>1, <2>3 DEF Commands
  <2>. QED BY <2>2, <2>4 DEF Shaped
<1>4. ASSUME NEW h \in Hosts, NEW b \in Ceilings, SetBoundary(h, b) PROVE Shaped
  <2>. DEFINE d == [db EXCEPT !.bound[h] = {b}]
  <2>1. Operator(d) BY <1>4 DEF SetBoundary
  <2>2. /\ d \in Database /\ d.outcome = db.outcome /\ d.receipts = db.receipts
        /\ d.cell = db.cell
    BY <1>0, ExecutorAssumption, BoundaryType
  <2>. HIDE DEF d
  <2>3. Commands(d) BY <2>1, <2>2 DEF Commands
  <2>. QED BY <2>2, <2>3 DEF Shaped
<1>5. ASSUME NEW f \in [Windows -> WindowState], Operator([db EXCEPT !.window = f])
      PROVE  Shaped
  <2>. DEFINE d == [db EXCEPT !.window = f]
  <2>1. /\ d \in Database /\ d.outcome = db.outcome /\ d.receipts = db.receipts
        /\ d.cell = db.cell /\ Operator(d)
    BY <1>0, <1>5, WindowType
  <2>. HIDE DEF d
  <2>2. Commands(d) BY <2>1 DEF Commands
  <2>. QED BY <2>1, <2>2 DEF Shaped
<1>6. ASSUME NEW w \in Windows, OpenWindow(w) \/ RevokeWindow(w) PROVE Shaped
  <2>1. PICK s \in WindowState : Operator([db EXCEPT !.window[w] = s])
    BY <1>6 DEF OpenWindow, RevokeWindow, WindowState
  <2>2. [db.window EXCEPT ![w] = s] \in [Windows -> WindowState]
    BY <1>0 DEF Database, WindowState
  <2>3. [db EXCEPT !.window[w] = s] = [db EXCEPT !.window = [db.window EXCEPT ![w] = s]]
    BY <1>0 DEF Database
  <2>. QED BY <1>5, <2>1, <2>2, <2>3
<1>7. ASSUME KillSwitch PROVE Shaped
  <2>. DEFINE f == [w \in Windows |-> IF Open(db, w) THEN "revoked" ELSE db.window[w]]
  <2>1. f \in [Windows -> WindowState] BY <1>0 DEF Database, WindowState
  <2>2. Operator([db EXCEPT !.window = f]) BY <1>7 DEF KillSwitch
  <2>. QED BY <1>5, <2>1, <2>2
<1>. QED BY <1>1, <1>2, <1>3, <1>4, <1>6, <1>7 DEF Human

(* Every step has one of the shapes.                                       *)
LEMMA StepShape ==
    ASSUME TypeInv, [Next]_vars
    PROVE  Shaped
<1>1. ASSUME NEW e \in Sessions, Handler(e) PROVE Shaped
  BY <1>1, QuietMoves, RouteShape, ConfirmShape, RecordShape, JudgeShape
     DEF Handler, Busy, Shaped
<1>2. ASSUME NEW e \in Sessions, Start(e) \/ ChannelFails(e) PROVE Shaped
  BY <1>2, QuietMoves DEF Start, Shaped
<1>3. ASSUME NEW w \in Windows, Expire(w) PROVE Shaped
  BY <1>3 DEF Expire, Shaped, Quiet
<1>4. ASSUME UNCHANGED vars PROVE Shaped BY <1>4 DEF vars, Shaped, Quiet
<1>5. ASSUME NEW e \in Sessions, Crash(e) PROVE Shaped BY <1>5 DEF Crash, Shaped
<1>. QED BY <1>1, <1>2, <1>3, <1>4, <1>5, HumanShape DEF Next, NextUp
-----------------------------------------------------------------------------
(* What a session reads, when the last flush is not its own: the committed *)
(* cells, and the committed windows always.                                *)
LEMMA ViewShape ==
    ASSUME CommitInv, NEW e \in Sessions
    PROVE  /\ View(e).window = db.window /\ Sound(View(e))
           /\ session[e].pc # "closing" => View(e).cell = db.cell
BY DEF View, CommitInv, TxInv

(* The invariant holds at the start, ...                                   *)
LEMMA TxInit == Init => TxInv
<1>. SUFFICES ASSUME Init PROVE TxInv OBVIOUS
<1>1. Sound(db) BY DEF Init, Sound
<1>. QED BY <1>1, ExecutorAssumption DEF Init, TxInv

(* ... and every shape of step keeps it.                                   *)
LEMMA TxNext ==
    ASSUME CommitInv, Shaped
    PROVE  TxInv'
<1>0. /\ session \in [Sessions -> Session] /\ (writer = NoSession => draft = db)
      /\ NoSession \notin Sessions
  BY ExecutorAssumption DEF CommitInv, TypeInv, TypeOK
<1>1. CASE Quiet
  <2>1. Sound(db)' /\ Sound(draft)' /\ draft'.window = db'.window
    BY <1>1 DEF CommitInv, TxInv, Quiet, Sound
  <2>2. ASSUME NEW f \in Sessions, writer' = f
        PROVE  /\ session'[f].pc # "idle"
               /\ \/ draft'.cell = db'.cell
                  \/ session'[f].pc = "closing" /\ CellStep(db'.cell, draft'.cell)
    <3>1. /\ session[f].pc # "idle"
          /\ \/ draft.cell = db.cell
             \/ session[f].pc = "closing" /\ CellStep(db.cell, draft.cell)
      BY <1>1, <2>2 DEF CommitInv, TxInv, Quiet
    <3>2. draft' = draft /\ db' = db BY <1>1 DEF Quiet
    <3>3. \/ session'[f] = session[f]
          \/ session[f].pc # "closing" /\ session'[f].pc # "idle"
      BY <1>1 DEF Quiet
    <3>. QED BY <3>1, <3>2, <3>3
  <2>. QED BY <2>1, <2>2 DEF TxInv, Sound
<1>2. ASSUME NEW e \in Sessions, NEW d \in Database, Writes(e, d) PROVE TxInv'
  <2>1. /\ View(e).window = db.window /\ Sound(View(e)) /\ View(e).cell = db.cell
    BY <1>2, ViewShape DEF Writes
  <2>2. db' = db /\ draft' = d /\ writer' = e BY <1>2 DEF Writes
  <2>3. Sound(db) /\ Sound(d) BY <1>2, <2>1 DEF Writes, CommitInv, TxInv
  <2>4. d.window = db.window BY <1>2, <2>1 DEF Writes
  <2>5. /\ session'[e].pc # "idle"
        /\ \/ d.cell = db.cell
           \/ session'[e].pc = "closing" /\ CellStep(db.cell, d.cell)
    BY <1>2, <2>1 DEF Writes
  <2>. QED BY <2>2, <2>3, <2>4, <2>5 DEF TxInv, Sound
<1>3. ASSUME NEW e \in Sessions, Commit(e) PROVE TxInv'
  <2>1. session[e].pc = "closing" /\ draft' = draft /\ Move(e, Idle)
    BY <1>3 DEF Commit
  <2>2. \A f \in Sessions \ {e} : session'[f] = session[f]
    BY <1>0, <2>1 DEF Move
  <2>3. CASE writer = e
    <3>1. db' = draft /\ writer' = NoSession BY <1>3, <2>3 DEF Commit
    <3>. QED BY <1>0, <2>1, <3>1 DEF CommitInv, TxInv, Sound
  <2>4. CASE writer # e
    <3>1. UNCHANGED <<db, writer>> BY <1>3, <2>4 DEF Commit
    <3>. QED BY <2>1, <2>2, <2>4, <3>1 DEF CommitInv, TxInv, Sound
  <2>. QED BY <2>3, <2>4
<1>4. ASSUME NEW e \in Sessions, Abort(e) PROVE TxInv'
  <2>1. db' = db /\ Move(e, Idle) /\ RollBack(e) BY <1>4 DEF Abort
  <2>2. \A f \in Sessions \ {e} : session'[f] = session[f]
    BY <1>0, <2>1 DEF Move
  <2>3. CASE writer = e
    <3>1. draft' = db /\ writer' = NoSession BY <2>1, <2>3 DEF RollBack
    <3>. QED BY <1>0, <2>1, <3>1 DEF CommitInv, TxInv, Sound
  <2>4. CASE writer # e
    <3>1. UNCHANGED <<draft, writer>> BY <2>1, <2>4 DEF RollBack
    <3>. QED BY <2>1, <2>2, <2>4, <3>1 DEF CommitInv, TxInv, Sound
  <2>. QED BY <2>3, <2>4
<1>5. ASSUME NEW d \in Database, Commands(d) PROVE TxInv'
  <2>1. db' = d /\ draft' = d /\ writer' = NoSession BY <1>5 DEF Commands, Operator
  <2>2. Sound(d) BY <1>5 DEF Commands, CommitInv, TxInv, Sound
  <2>. QED BY <1>0, <2>1, <2>2 DEF TxInv, Sound
<1>. QED BY <1>1, <1>2, <1>3, <1>4, <1>5 DEF Shaped

(* The inductive invariant holds of every behaviour.                       *)
LEMMA SpecCommitInv == Spec => []CommitInv
<1>1. Init => CommitInv BY TypeInit, TxInit DEF CommitInv
<1>2. CommitInv /\ [Next]_vars => CommitInv'
  <2>. SUFFICES ASSUME CommitInv, [Next]_vars PROVE CommitInv' OBVIOUS
  <2>1. TypeInv' BY TypeNext DEF CommitInv
  <2>2. TxInv' BY StepShape, TxNext DEF CommitInv
  <2>. QED BY <2>1, <2>2 DEF CommitInv
<1>. QED BY <1>1, <1>2, PTL DEF Spec

(* A proposal the executor marked as done has its receipt in the same      *)
(* commit: no interleaving and no crash separates the two.                 *)
THEOREM ExecutedReceipted == Spec => []ExecutedHasReceipt
<1>1. CommitInv => ExecutedHasReceipt
  BY DEF CommitInv, TxInv, Sound, ExecutedHasReceipt
<1>. QED BY <1>1, SpecCommitInv, PTL

(* A window that closes before the checkpoint stops the session: what it   *)
(* reads of the windows inside its transaction is what is committed.       *)
THEOREM ClosedWindowStops == Spec => ClosedWindowHalts
<1>. DEFINE A == \A e \in Sessions :
          /\ session[e].pc \notin {"idle", "judging", "capturing"}
          /\ DecisionWindow(session[e].ctx) # NoWindow
          /\ ~Open(db, DecisionWindow(session[e].ctx))
          => session'[e].pc # "capturing"
<1>1. ASSUME CommitInv, [Next]_vars PROVE A
  <2>. SUFFICES ASSUME NEW e \in Sessions,
                       session[e].pc \notin {"idle", "judging", "capturing"},
                       DecisionWindow(session[e].ctx) # NoWindow,
                       ~Open(db, DecisionWindow(session[e].ctx)),
                       session'[e].pc = "capturing"
                PROVE  FALSE
    OBVIOUS
  <2>1. session \in [Sessions -> Session] /\ session[e] \in Session
    BY <1>1 DEF CommitInv, TypeInv, TypeOK
  <2>2. CASE Checkpoint(e)
    <3>1. View(e).window = db.window BY <1>1, ViewShape
    <3>2. Halts(e, DecisionWindow(session[e].ctx)) BY <3>1 DEF Halts, Open
    <3>3. session' = [session EXCEPT ![e] = [session[e] EXCEPT !.pc = "closing"]]
      BY <2>2, <3>2 DEF Checkpoint, Move
    <3>4. session'[e].pc = "closing" BY <2>1, <3>3 DEF Session
    <3>. QED BY <3>4
  <2>3. CASE ~Checkpoint(e)
    <3>1. session'[e].pc # "capturing" BY <1>1, <2>1, <2>3, OnlyCheckpointCaptures
      DEF CommitInv
    <3>. QED BY <3>1
  <2>. QED BY <2>2, <2>3
<1>2. CommitInv /\ [Next]_vars => [A]_vars BY <1>1
<1>. QED BY <1>2, SpecCommitInv, PTL DEF Spec, ClosedWindowHalts
-----------------------------------------------------------------------------
(* The operators of the instance are those of CellLadder.                  *)
LEMMA FloorOperators ==
    /\ Floor!BadOutcome = BadOutcome
    /\ Floor!Level = Level
    /\ \A c, row : Floor!CleanOutcome(c, row) = CleanOutcome(c, row)
    /\ \A row : Floor!Rejection(row) = Rejection(row)
    /\ \A c : Floor!NewCell(c) = NewCell(c)
    /\ \A c, level : Floor!MayGrant(c, level) = MayGrant(c, level)
    /\ \A row, level : Floor!GrantedRow(row, level) = GrantedRow(row, level)
<1>1. /\ Floor!BLOCK = BLOCK /\ Floor!PROPOSE = PROPOSE
      /\ Floor!CONFIRM = CONFIRM /\ Floor!AUTONOMOUS = AUTONOMOUS
  BY DEF Floor!BLOCK, Floor!PROPOSE, Floor!CONFIRM, Floor!AUTONOMOUS,
         BLOCK, PROPOSE, CONFIRM, AUTONOMOUS
<1>2. Floor!BadOutcome = BadOutcome BY <1>1 DEF Floor!BadOutcome, BadOutcome
<1>3. Floor!Level = Level BY <1>1 DEF Floor!Level, Level
<1>4. ASSUME NEW c, NEW row PROVE Floor!CleanOutcome(c, row) = CleanOutcome(c, row)
  <2>1. \A l : Floor!NextLevel(l) = NextLevel(l)
    BY <1>1 DEF Floor!NextLevel, NextLevel
  <2>2. Floor!MayRise(c, row) <=> MayRise(c, row)
    BY <2>1 DEF Floor!MayRise, MayRise
  <2>3. (Floor!Banks(row) <=> Banks(row)) /\ Floor!Held(row) = Held(row)
    BY DEF Floor!Banks, Banks, Floor!Held, Held
  <2>. QED BY <2>1, <2>2, <2>3 DEF Floor!CleanOutcome, CleanOutcome
<1>5. \A row : Floor!Rejection(row) = Rejection(row) BY DEF Floor!Rejection, Rejection
<1>6. \A c : Floor!NewCell(c) = NewCell(c) BY DEF Floor!NewCell, NewCell
<1>7. \A c, level : Floor!MayGrant(c, level) = MayGrant(c, level)
  BY DEF Floor!MayGrant, MayGrant
<1>8. \A row, level : Floor!GrantedRow(row, level) = GrantedRow(row, level)
  BY DEF Floor!GrantedRow, GrantedRow
<1>. QED BY <1>2, <1>3, <1>4, <1>5, <1>6, <1>7, <1>8

(* Every step of the executor is, of the cell rows, a step of CellTrust or *)
(* none at all.                                                            *)
LEMMA FloorNext ==
    ASSUME CommitInv, Shaped
    PROVE  [Floor!Next]_(db.cell)
<1>1. CASE Quiet BY <1>1 DEF Quiet
<1>2. ASSUME NEW e \in Sessions, NEW d \in Database, Writes(e, d)
      PROVE  db'.cell = db.cell
  BY <1>2 DEF Writes
<1>3. ASSUME NEW e \in Sessions, Commit(e) PROVE [Floor!Next]_(db.cell)
  <2>1. CASE writer = e
    <3>1. db'.cell = draft.cell BY <1>3, <2>1 DEF Commit
    <3>2. draft.cell = db.cell \/ CellStep(db.cell, draft.cell)
      BY <2>1 DEF CommitInv, TxInv
    <3>3. CASE CellStep(db.cell, draft.cell)
      <4>1. PICK c \in Cells : \/ draft.cell = [db.cell EXCEPT ![c] = CleanOutcome(c, @)]
                               \/ draft.cell = [db.cell EXCEPT ![c] = BadOutcome]
                               \/ draft.cell = [db.cell EXCEPT ![c] = Rejection(@)]
        BY <3>3 DEF CellStep
      <4>2. Floor!Clean(c) \/ Floor!Bad(c) \/ Floor!Reject(c)
        BY <3>1, <4>1, FloorOperators DEF Floor!Clean, Floor!Bad, Floor!Reject
      <4>. QED BY <4>2 DEF Floor!Next
    <3>. QED BY <3>1, <3>2, <3>3
  <2>2. CASE writer # e BY <1>3, <2>2 DEF Commit
  <2>. QED BY <2>1, <2>2
<1>4. ASSUME NEW e \in Sessions, Abort(e) PROVE db'.cell = db.cell BY <1>4 DEF Abort
<1>5. ASSUME NEW d \in Database, Commands(d) PROVE [Floor!Next]_(db.cell)
  <2>1. db' = d BY <1>5 DEF Commands, Operator
  <2>2. CASE d.cell = db.cell BY <2>1, <2>2
  <2>3. ASSUME NEW c \in Cells, NEW level \in Level, MayGrant(c, level),
               d.cell = [db.cell EXCEPT ![c] = GrantedRow(@, level)]
        PROVE  Floor!Next
    <3>1. Floor!Grant(c, level) BY <2>1, <2>3, FloorOperators DEF Floor!Grant
    <3>. QED BY <3>1, FloorOperators DEF Floor!Next
  <2>. QED BY <1>5, <2>2, <2>3 DEF Commands
<1>. QED BY <1>1, <1>2, <1>3, <1>4, <1>5 DEF Shaped

(* However the sessions interleave, abort and overlap, the committed cell  *)
(* rows behave as CellTrust says: no outcome is lost, doubled or merged.   *)
THEOREM ExecutorImplementsCellTrust == Spec => ImplementsCellTrust
<1>1. Init => Floor!Init BY FloorOperators DEF Init, Floor!Init
<1>2. CommitInv /\ [Next]_vars => [Floor!Next]_(db.cell)
  BY StepShape, FloorNext DEF CommitInv
<1>. QED BY <1>1, <1>2, SpecCommitInv, PTL DEF Spec, ImplementsCellTrust, Floor!Spec
-----------------------------------------------------------------------------
(***************************************************************************)
(* What the execution spine owes to the audit trail, for every number of   *)
(* sessions, proposals, cells and windows: the authority of a run is on    *)
(* record before it reaches the target, every dispatch is accounted for    *)
(* once, and a proposal that no two sessions held together is decided once *)
(* and succeeds once.                                                      *)
(*                                                                         *)
(* The argument is the write lock's.  A session that has written anything  *)
(* holds it until it ends (Owes), so that no other session and no command  *)
(* touches the draft; what the draft has beyond the committed database is  *)
(* what that one session has written (Ledger, Docket).                     *)
(***************************************************************************)

(* The states of a session whose override, if it bore, is written.         *)
Routed == {"asking", "answered", "cleared", "capturing", "dispatched"}

(* What session e, in state x, has written in the transaction d of w: its  *)
(* receipt, the override that changed the outcome, the channel's approval. *)
Owes(e, x, w, d) ==
    /\ x.pc = "closing" /\ x.result # "none" => w = e
    /\ (x.pc \in Routed \/ x.result # "none") /\ OverrideBore(x)
         => w = e /\ x.proposal \in d.overrides
    /\ PastGate(x) /\ x.kind = "channel" /\ DecidedLevel(x) = CONFIRM
         => w = e /\ d.approvals[x.proposal]["approve"] > 0

(* The sessions that carry a dispatch of p that ended in r.                *)
Carriers(p, r) == {e \in Sessions : session[e].proposal = p /\ session[e].result = r}

(* A session in state x has written the receipt of a run of p.             *)
Written(x, p, r) == x.pc = "closing" /\ x.proposal = p /\ x.result = r

(* The balance, in the database and inside the open transaction.           *)
Ledger ==
    \A p \in Proposals, r \in Result :
        /\ ran[p][r] = db.receipts[p][r] + lost[p][r] + Cardinality(Carriers(p, r))
        /\ writer # NoSession =>
             draft.receipts[p][r] =
               db.receipts[p][r] + IF Written(session[writer], p, r) THEN 1 ELSE 0

(* The outcomes: the draft decides at most the proposal of the session     *)
(* that writes it; a proposal in one session's hands alone is pending, and *)
(* one that is pending has no success on record.                           *)
Docket ==
    /\ \A p \in Proposals : writer # NoSession =>
          \/ draft.outcome[p] = db.outcome[p]
          \/ /\ session[writer].pc = "closing" /\ session[writer].proposal = p
             /\ draft.outcome[p] # "pending"
    /\ \A p \in Proposals : writer # NoSession /\ Written(session[writer], p, "succeeded")
          => draft.outcome[p] # "pending"
    /\ \A e, f \in Sessions : \A p \in Proposals :
          e # f /\ session[e].proposal = p /\ session[f].proposal = p => p \in raced
    /\ \A p \in Proposals \ raced : \A e \in Sessions :
          session[e].proposal = p => db.outcome[p] = "pending"
    /\ \A p \in Proposals \ raced :
          db.receipts[p]["succeeded"] <= IF db.outcome[p] = "pending" THEN 0 ELSE 1

-----------------------------------------------------------------------------
(* A session that has not been let through, or not yet, owes nothing.      *)
LEMMA OwesNothing ==
    ASSUME NEW e, NEW x, NEW w, NEW d, x.pc \notin Routed, x.result = "none"
    PROVE  Owes(e, x, w, d)
BY DEF Owes, PastGate, Routed

(* A session that goes on from where its override was written.             *)
LEMMA OwesKept ==
    ASSUME NEW e, NEW x, NEW y, NEW w, NEW d, NEW v, NEW o,
           Owes(e, x, w, d), x.pc \in Routed,
           y.kind = x.kind, y.proposal = x.proposal, y.ctx = x.ctx, y.verified = x.verified,
           y.pc = "closing" => v = e,
           PastGate(y) => PastGate(x),
           w = e => v = e /\ o.overrides = d.overrides /\ o.approvals = d.approvals
    PROVE  Owes(e, y, v, o)
<1>1. OverrideBore(y) <=> OverrideBore(x) BY DEF OverrideBore, DecidedLevel
<1>2. DecidedLevel(y) = DecidedLevel(x) BY DEF DecidedLevel
<1>3. OverrideBore(x) => w = e /\ x.proposal \in d.overrides BY DEF Owes
<1>4. PastGate(x) /\ x.kind = "channel" /\ DecidedLevel(x) = CONFIRM
         => w = e /\ d.approvals[x.proposal]["approve"] > 0
  BY DEF Owes
<1>. QED BY <1>1, <1>2, <1>3, <1>4 DEF Owes

(* Every session has written what it owes.                                 *)
Audited == \A e \in Sessions : Owes(e, session[e], writer, draft)

(* A step of one session: another that has written anything holds the      *)
(* lock, and then this one writes nothing.                                 *)
LEMMA OneSessionMoves ==
    ASSUME TypeInv, Audited, NEW e \in Sessions, NEW y, Move(e, y),
           Owes(e, y, writer', draft'),
           \/ writer \in {e, NoSession}
           \/ writer' = writer /\ draft' = draft
    PROVE  Audited'
<1>1. session'[e] = y /\ \A f \in Sessions \ {e} : session'[f] = session[f]
  BY MoveShape
<1>2. ASSUME NEW f \in Sessions \ {e} PROVE Owes(f, session[f], writer', draft')
  <2>1. Owes(f, session[f], writer, draft) BY DEF Audited
  <2>2. CASE writer' = writer /\ draft' = draft BY <2>1, <2>2
  <2>3. CASE writer \in {e, NoSession}
    <3>1. writer # f BY <2>3, ExecutorAssumption
    <3>. QED BY <2>1, <3>1 DEF Owes
  <2>. QED BY <2>2, <2>3
<1>. QED BY <1>1, <1>2 DEF Audited
-----------------------------------------------------------------------------
(* The steps before the gate has let a session through, and the ends.      *)
LEMMA EarlyAudited ==
    ASSUME TypeInv, Audited, NEW e \in Sessions,
           \/ \E p \in Proposals, k \in AllKinds : Resolve(e, p, k)
           \/ GateAny(e) \/ Mistype(e) \/ Probe(e) \/ ChannelFails(e)
    PROVE  Audited'
<1>0. session[e] \in Session /\ GateInv(session[e]) BY DEF TypeInv, TypeOK
<1>1. ASSUME NEW y, Move(e, y), y.pc \notin Routed, y.result = "none",
             UNCHANGED <<draft, writer>>
      PROVE  Audited'
  <2>1. Owes(e, y, writer', draft') BY <1>1, OwesNothing
  <2>. QED BY <1>1, <2>1, OneSessionMoves
<1>2. ASSUME NEW p \in Proposals, NEW k \in AllKinds, Resolve(e, p, k) PROVE Audited'
  <2>. DEFINE y == [Idle EXCEPT !.pc = IF k \in {"accept", "reject"}
                                       THEN "judging" ELSE "resolved",
                                !.kind = k, !.proposal = p]
  <2>1. y.pc \notin Routed /\ y.result = "none" BY DEF Idle, Routed
  <2>2. Move(e, y) /\ UNCHANGED <<draft, writer>> BY <1>2 DEF Resolve
  <2>. HIDE DEF y
  <2>. QED BY <1>1, <2>1, <2>2
<1>3. ASSUME GateAny(e) PROVE Audited'
  <2>1. PICK w \in Windows \cup {NoWindow} : Gate(e, w) BY <1>3 DEF GateAny
  <2>. DEFINE ctx == LoadContext(View(e), session[e].proposal, w,
                                 session[e].kind = "override")
              a == IF Executes(Decide(ctx, FALSE)) THEN "probing" ELSE "closing"
              y == [session[e] EXCEPT !.pc = a, !.ctx = ctx]
  <2>2. Move(e, y) /\ session[e].pc = "resolved" /\ UNCHANGED <<draft, writer>>
    BY <2>1 DEF Gate
  <2>3. a \notin Routed BY DEF Routed
  <2>. HIDE DEF a, ctx
  <2>4. session[e].result = "none" BY <1>0, <2>2 DEF GateInv
  <2>5. y.pc = a /\ y.result = "none" BY <1>0, <2>4 DEF Session
  <2>. HIDE DEF y
  <2>. QED BY <1>1, <2>2, <2>3, <2>5
<1>4. ASSUME Mistype(e) \/ ChannelFails(e) PROVE Audited'
  <2>. DEFINE y == [session[e] EXCEPT !.pc = "closing"]
  <2>1. /\ Move(e, y) /\ session[e].pc \in {"resolved", "asking"}
        /\ UNCHANGED <<draft, writer>>
    BY <1>4 DEF Mistype, ChannelFails
  <2>2. session[e].result = "none" BY <1>0, <2>1 DEF GateInv
  <2>3. y.pc \notin Routed /\ y.result = "none" BY <1>0, <2>2 DEF Session, Routed
  <2>. HIDE DEF y
  <2>. QED BY <1>1, <2>1, <2>3
<1>5. ASSUME Probe(e) PROVE Audited'
  <2>1. PICK v \in BOOLEAN :
           Move(e, [session[e] EXCEPT !.pc = "decided", !.verified = v])
    BY <1>5 DEF Probe
  <2>. DEFINE y == [session[e] EXCEPT !.pc = "decided", !.verified = v]
  <2>2. session[e].pc = "probing" /\ UNCHANGED <<draft, writer>> BY <1>5 DEF Probe
  <2>3. session[e].result = "none" BY <1>0, <2>2 DEF GateInv
  <2>4. y.pc \notin Routed /\ y.result = "none" BY <1>0, <2>3 DEF Session, Routed
  <2>5. Move(e, y) BY <2>1
  <2>. HIDE DEF y
  <2>. QED BY <1>1, <2>2, <2>4, <2>5
<1>. QED BY <1>2, <1>3, <1>4, <1>5

(* Route: an override that bore is written before the session goes on.     *)
LEMMA RouteAudited ==
    ASSUME TypeInv, Audited, NEW e \in Sessions, Route(e)
    PROVE  Audited'
<1>. DEFINE x == session[e]
            a == IF DecidedLevel(x) = CONFIRM THEN "asking" ELSE "cleared"
            y == [x EXCEPT !.pc = a]
<1>1. GateInv(x) /\ x.pc = "decided" /\ View(e) \in Database /\ x \in Session
  BY ViewType DEF TypeInv, TypeOK, Route
<1>2. Move(e, y) BY DEF Route
<1>3. a \in {"asking", "cleared"} /\ (DecidedLevel(x) = CONFIRM => a = "asking")
  OBVIOUS
<1>. HIDE DEF a
<1>4. /\ y.pc = a /\ y.kind = x.kind /\ y.proposal = x.proposal /\ y.ctx = x.ctx
      /\ y.verified = x.verified /\ y.result = "none"
  BY <1>1, <1>3 DEF GateInv, Session
<1>. HIDE DEF y
<1>5. ~(PastGate(y) /\ DecidedLevel(y) = CONFIRM) /\ y.pc # "closing"
  BY <1>3, <1>4 DEF PastGate, DecidedLevel
<1>6. OverrideBore(y) <=> OverrideBore(x) BY <1>4 DEF OverrideBore, DecidedLevel
<1>7. CASE OverrideBore(x)
  <2>. DEFINE d == [View(e) EXCEPT !.overrides = @ \cup {x.proposal}]
  <2>1. x.proposal \in Proposals BY <1>1 DEF GateInv
  <2>2. d \in Database /\ d.overrides = View(e).overrides \cup {x.proposal}
    BY <1>1, <2>1, OverrideLogged
  <2>3. Flush(e, d) BY <1>7 DEF Route
  <2>. HIDE DEF d
  <2>4. writer \in {e, NoSession} /\ writer' = e /\ draft' = d
    BY <2>3 DEF Flush, MayWrite
  <2>5. Owes(e, y, writer', draft') BY <1>4, <1>5, <2>2, <2>4 DEF Owes
  <2>. QED BY <1>2, <2>4, <2>5, OneSessionMoves
<1>8. CASE ~OverrideBore(x)
  <2>1. UNCHANGED <<draft, writer>> BY <1>8 DEF Route
  <2>2. Owes(e, y, writer', draft') BY <1>4, <1>5, <1>6, <1>8 DEF Owes
  <2>. QED BY <1>2, <2>1, <2>2, OneSessionMoves
<1>. QED BY <1>7, <1>8

(* An answer, a checkpoint passed and a dispatch leave the trail alone.    *)
LEMMA GatedAudited ==
    ASSUME TypeInv, Audited, NEW e \in Sessions,
           AnswerPrompt(e) \/ AskTimeout(e) \/ Checkpoint(e) \/ Dispatch(e)
    PROVE  Audited'
<1>0. /\ session[e] \in Session /\ GateInv(session[e])
      /\ Owes(e, session[e], writer, draft)
  BY DEF TypeInv, TypeOK, Audited
<1>1. ASSUME AnswerPrompt(e) \/ AskTimeout(e) PROVE Audited'
  <2>1. PICK n \in Answer :
           Move(e, [session[e] EXCEPT !.pc = "answered", !.answer = n])
    BY <1>1 DEF AnswerPrompt, AskTimeout, Answer
  <2>. DEFINE y == [session[e] EXCEPT !.pc = "answered", !.answer = n]
  <2>2. session[e].pc = "asking" /\ UNCHANGED <<draft, writer>>
    BY <1>1 DEF AnswerPrompt, AskTimeout
  <2>3. session[e].result = "none" BY <1>0, <2>2 DEF GateInv
  <2>4. /\ y.pc = "answered" /\ y.kind = session[e].kind
        /\ y.proposal = session[e].proposal /\ y.ctx = session[e].ctx
        /\ y.verified = session[e].verified /\ y.result = "none"
    BY <1>0, <2>3 DEF Session
  <2>5. Move(e, y) BY <2>1
  <2>. HIDE DEF y
  <2>6. Owes(e, y, writer', draft')
    BY <1>0, <2>2, <2>4, OwesKept DEF PastGate, Routed
  <2>. QED BY <2>2, <2>5, <2>6, OneSessionMoves
<1>2. ASSUME Checkpoint(e) PROVE Audited'
  <2>. DEFINE a == IF Halts(e, DecisionWindow(session[e].ctx))
                   THEN "closing" ELSE "capturing"
              y == [session[e] EXCEPT !.pc = a]
  <2>1. Move(e, y) /\ session[e].pc = "cleared" /\ UNCHANGED <<draft, writer>>
    BY <1>2 DEF Checkpoint
  <2>2. a \in {"closing", "capturing"} OBVIOUS
  <2>. HIDE DEF a
  <2>3. session[e].result = "none" BY <1>0, <2>1 DEF GateInv
  <2>4. /\ y.pc = a /\ y.kind = session[e].kind
        /\ y.proposal = session[e].proposal /\ y.ctx = session[e].ctx
        /\ y.verified = session[e].verified /\ y.result = "none"
    BY <1>0, <2>3 DEF Session
  <2>. HIDE DEF y
  <2>5. Owes(e, y, writer', draft')
    <3>1. CASE a = "closing" BY <2>4, <3>1, OwesNothing DEF Routed
    <3>2. CASE a = "capturing"
      BY <1>0, <2>1, <2>4, <3>2, OwesKept DEF PastGate, Routed
    <3>. QED BY <2>2, <3>1, <3>2
  <2>. QED BY <2>1, <2>5, OneSessionMoves
<1>3. ASSUME Dispatch(e) PROVE Audited'
  <2>1. PICK r \in Result :
           Move(e, [session[e] EXCEPT !.pc = "dispatched", !.result = r])
    BY <1>3 DEF Dispatch
  <2>. DEFINE y == [session[e] EXCEPT !.pc = "dispatched", !.result = r]
  <2>2. session[e].pc = "capturing" /\ UNCHANGED <<draft, writer>> BY <1>3 DEF Dispatch
  <2>3. /\ y.pc = "dispatched" /\ y.kind = session[e].kind
        /\ y.proposal = session[e].proposal /\ y.ctx = session[e].ctx
        /\ y.verified = session[e].verified
    BY <1>0 DEF Session
  <2>4. Move(e, y) BY <2>1
  <2>. HIDE DEF y
  <2>5. Owes(e, y, writer', draft')
    BY <1>0, <2>2, <2>3, OwesKept DEF PastGate, Routed
  <2>. QED BY <2>2, <2>4, <2>5, OneSessionMoves
<1>. QED BY <1>1, <1>2, <1>3

(* A tap, which several sessions may hear, writes nothing.                 *)
LEMMA TapAudited ==
    ASSUME TypeInv, Audited, NEW p \in Proposals, NEW n \in {"approve", "deny"}, Tap(p, n)
    PROVE  Audited'
<1>1. UNCHANGED <<draft, writer>> BY DEF Tap
<1>2. ASSUME NEW f \in Sessions PROVE Owes(f, session'[f], writer, draft)
  <2>1. session[f] \in Session /\ GateInv(session[f]) /\ Owes(f, session[f], writer, draft)
    BY DEF TypeInv, TypeOK, Audited
  <2>2. CASE session'[f] = session[f] BY <2>1, <2>2
  <2>3. CASE /\ session[f].pc = "asking"
             /\ session'[f] = [session[f] EXCEPT !.pc = "answered", !.answer = n]
    <3>. DEFINE y == [session[f] EXCEPT !.pc = "answered", !.answer = n]
    <3>1. session[f].result = "none" BY <2>1, <2>3 DEF GateInv
    <3>2. /\ y.pc = "answered" /\ y.kind = session[f].kind
          /\ y.proposal = session[f].proposal /\ y.ctx = session[f].ctx
          /\ y.verified = session[f].verified /\ y.result = "none"
      BY <2>1, <3>1 DEF Session
    <3>3. session'[f] = y BY <2>3
    <3>. HIDE DEF y
    <3>4. Owes(f, y, writer, draft)
      BY <2>1, <2>3, <3>2, OwesKept DEF PastGate, Routed
    <3>. QED BY <3>3, <3>4
  <2>. QED BY <2>2, <2>3 DEF Tap
<1>. QED BY <1>1, <1>2 DEF Audited

(* Confirm: the channel's yes is written before the session goes on.       *)
LEMMA ConfirmAudited ==
    ASSUME TypeInv, Audited, NEW e \in Sessions, Confirm(e)
    PROVE  Audited'
<1>. DEFINE x == session[e]
            a == IF Consents(x.answer) THEN "cleared" ELSE "closing"
            y == [x EXCEPT !.pc = a]
<1>1. /\ GateInv(x) /\ x.pc = "answered" /\ View(e) \in Database /\ x \in Session
      /\ Owes(e, x, writer, draft)
  BY ViewType DEF TypeInv, TypeOK, Confirm, Audited
<1>2. Move(e, y) BY DEF Confirm
<1>3. /\ a \in {"cleared", "closing"} /\ (a = "cleared" => x.answer = "approve")
      /\ x.result = "none" /\ x.proposal \in Proposals /\ x.answer \in Answer
  BY <1>1 DEF Consents, GateInv
<1>. HIDE DEF a
<1>4. /\ y.pc = a /\ y.kind = x.kind /\ y.proposal = x.proposal /\ y.ctx = x.ctx
      /\ y.verified = x.verified /\ y.result = "none"
  BY <1>1, <1>3 DEF Session
<1>. HIDE DEF y
<1>5. /\ OverrideBore(y) <=> OverrideBore(x) /\ DecidedLevel(y) = DecidedLevel(x)
      /\ OverrideBore(x) => writer = e /\ x.proposal \in draft.overrides
  BY <1>1, <1>4 DEF OverrideBore, DecidedLevel, Owes, Routed
<1>6. CASE x.kind = "channel"
  <2>. DEFINE d == WithAnswer(View(e), x.proposal, x.answer)
  <2>1. d \in Database /\ d.overrides = View(e).overrides
    BY <1>1, <1>3, AnswerLogged
  <2>2. x.answer = "approve" => d.approvals[x.proposal]["approve"] > 0
    <3>1. View(e).approvals \in [Proposals -> [Answer -> Nat]] BY <1>1 DEF Database
    <3>2. d.approvals = [View(e).approvals EXCEPT ![x.proposal][x.answer] = @ + 1]
      BY <1>1 DEF WithAnswer, Database
    <3>. QED BY <1>3, <3>1, <3>2
  <2>3. Flush(e, d) BY <1>6 DEF Confirm
  <2>. HIDE DEF d
  <2>4. writer \in {e, NoSession} /\ writer' = e /\ draft' = d
    BY <2>3 DEF Flush, MayWrite
  <2>5. OverrideBore(x) => x.proposal \in d.overrides BY <1>5, <2>1 DEF View
  <2>6. CASE a = "cleared"
    <3>1. Owes(e, y, writer', draft')
      BY <1>3, <1>4, <1>5, <2>2, <2>4, <2>5, <2>6 DEF Owes
    <3>. QED BY <1>2, <2>4, <3>1, OneSessionMoves
  <2>7. CASE a = "closing"
    <3>1. Owes(e, y, writer', draft') BY <1>4, <2>7, OwesNothing DEF Routed
    <3>. QED BY <1>2, <2>4, <3>1, OneSessionMoves
  <2>. QED BY <1>3, <2>6, <2>7
<1>7. CASE x.kind # "channel"
  <2>1. UNCHANGED <<draft, writer>> BY <1>7 DEF Confirm
  <2>2. CASE a = "cleared"
    <3>1. Owes(e, y, writer', draft') BY <1>4, <1>5, <1>7, <2>1, <2>2 DEF Owes
    <3>. QED BY <1>2, <2>1, <3>1, OneSessionMoves
  <2>3. CASE a = "closing"
    <3>1. Owes(e, y, writer', draft') BY <1>4, <2>3, OwesNothing DEF Routed
    <3>. QED BY <1>2, <2>1, <3>1, OneSessionMoves
  <2>. QED BY <1>3, <2>2, <2>3
<1>. QED BY <1>6, <1>7

(* Record: the receipt takes the lock, or joins what it already guards.    *)
LEMMA RecordAudited ==
    ASSUME TypeInv, Audited, NEW e \in Sessions, Record(e)
    PROVE  Audited'
<1>. DEFINE x == session[e]
            y == [x EXCEPT !.pc = "closing"]
            d == Recorded(View(e), x.proposal, x.result)
<1>1. /\ GateInv(x) /\ x.pc = "dispatched" /\ View(e) \in Database /\ x \in Session
      /\ Owes(e, x, writer, draft)
  <2>1. x.pc = "dispatched" BY DEF Record
  <2>2. x \in Session /\ GateInv(x) BY DEF TypeInv, TypeOK
  <2>3. View(e) \in Database BY ViewType
  <2>4. Owes(e, x, writer, draft) BY DEF Audited
  <2>. QED BY <2>1, <2>2, <2>3, <2>4
<1>2. Move(e, y) /\ Flush(e, d) BY DEF Record
<1>3. x.proposal \in Proposals /\ x.result \in Result BY <1>1 DEF GateInv, Session
<1>4. d.overrides = View(e).overrides /\ d.approvals = View(e).approvals
  BY <1>1, <1>3, RecordedType, ZenonT(30)
<1>5. /\ y.pc = "closing" /\ y.kind = x.kind /\ y.proposal = x.proposal
      /\ y.ctx = x.ctx /\ y.verified = x.verified
  BY <1>1 DEF Session
<1>. HIDE DEF y, d
<1>6. writer \in {e, NoSession} /\ writer' = e /\ draft' = d
  BY <1>2 DEF Flush, MayWrite
<1>7. writer = e => draft'.overrides = draft.overrides /\ draft'.approvals = draft.approvals
  BY <1>4, <1>6 DEF View
<1>8. PastGate(x) /\ x.pc \in Routed BY <1>1 DEF PastGate, Routed
<1>9. Owes(e, y, writer', draft') BY <1>1, <1>5, <1>6, <1>7, <1>8, OwesKept
<1>. QED BY <1>2, <1>6, <1>9, OneSessionMoves

(* A judgement and the ends of a session owe nothing.                      *)
LEMMA EndAudited ==
    ASSUME TypeInv, Audited, NEW e \in Sessions, Judge(e) \/ Commit(e) \/ Abort(e)
    PROVE  Audited'
<1>0. session[e] \in Session /\ GateInv(session[e]) BY DEF TypeInv, TypeOK
<1>1. CASE Judge(e)
  <2>. DEFINE y == [session[e] EXCEPT !.pc = "closing"]
  <2>1. Move(e, y) /\ session[e].pc = "judging" BY <1>1 DEF Judge
  <2>2. y.pc \notin Routed /\ y.result = "none" BY <1>0, <2>1 DEF GateInv, Session, Routed
  <2>3. writer \in {e, NoSession} BY <1>1 DEF Judge, Flush, MayWrite
  <2>. HIDE DEF y
  <2>. QED BY <2>1, <2>2, <2>3, OwesNothing, OneSessionMoves
<1>2. CASE Commit(e) \/ Abort(e)
  <2>1. Move(e, Idle) BY <1>2 DEF Commit, Abort
  <2>2. \/ writer \in {e, NoSession}
        \/ writer' = writer /\ draft' = draft
    BY <1>2 DEF Commit, Abort, RollBack
  <2>3. Owes(e, Idle, writer', draft') BY OwesNothing DEF Idle, Routed
  <2>. QED BY <2>1, <2>2, <2>3, OneSessionMoves
<1>. QED BY <1>1, <1>2

(* An operator's command finds the lock free: nobody owes anything.        *)
LEMMA OperatorAudited ==
    ASSUME TypeInv, Audited, NEW d, Operator(d)
    PROVE  Audited'
<1>1. writer = NoSession /\ UNCHANGED session BY DEF Operator
<1>2. ASSUME NEW f \in Sessions PROVE Owes(f, session[f], writer', draft')
  <2>1. Owes(f, session[f], writer, draft) /\ writer # f
    BY <1>1, ExecutorAssumption DEF Audited
  <2>. QED BY <2>1 DEF Owes
<1>. QED BY <1>1, <1>2 DEF Audited

(* Every step keeps the trail.                                             *)
LEMMA AuditedNext ==
    ASSUME TypeInv, Audited, [Next]_vars
    PROVE  Audited'
<1>1. ASSUME NEW e \in Sessions, Handler(e) PROVE Audited'
  BY <1>1, EarlyAudited, RouteAudited, GatedAudited, ConfirmAudited, RecordAudited,
     EndAudited DEF Handler, Busy
<1>2. ASSUME NEW e \in Sessions, Start(e) \/ ChannelFails(e) PROVE Audited'
  BY <1>2, EarlyAudited DEF Start
<1>3. ASSUME Human PROVE Audited'
  <2>1. ASSUME NEW e \in Sessions,
               (session[e].kind = "override" /\ GateAny(e)) \/ Mistype(e) \/ AnswerPrompt(e)
        PROVE  Audited'
    BY <2>1, EarlyAudited, GatedAudited
  <2>2. ASSUME NEW d, Operator(d) PROVE Audited' BY <2>2, OperatorAudited
  <2>. QED BY <1>3, <2>1, <2>2, TapAudited
           DEF Human, Grant, SetBoundary, OpenWindow, RevokeWindow, KillSwitch
<1>4. ASSUME UNCHANGED <<session, writer, draft>> PROVE Audited' BY <1>4 DEF Audited
<1>5. ASSUME NEW w \in Windows, Expire(w) PROVE Audited' BY <1>4, <1>5 DEF Expire
<1>6. ASSUME NEW e \in Sessions, Crash(e) PROVE Audited' BY <1>6, EndAudited DEF Crash
<1>7. ASSUME UNCHANGED vars PROVE Audited' BY <1>4, <1>7 DEF vars
<1>. QED BY <1>1, <1>2, <1>3, <1>5, <1>6, <1>7 DEF Next, NextUp

(* The trail is kept in every state.                                       *)
LEMMA SpecAudited == Spec => []Audited
<1>1. Init => Audited
  <2>. SUFFICES ASSUME Init, NEW e \in Sessions PROVE Owes(e, Idle, writer, draft)
    BY DEF Init, Audited
  <2>. QED BY OwesNothing DEF Idle, Routed
<1>. QED BY <1>1, AuditedNext, SpecTypeInv, PTL DEF Spec

(* What authorised a run is on record, in the transaction its session has  *)
(* open, before the run reaches the target.                                *)
THEOREM AuthorityRecorded == Spec => []AuthorityOnRecord
<1>1. Audited => AuthorityOnRecord
  <2>. SUFFICES ASSUME Audited, NEW e \in Sessions, PastGate(session[e])
                PROVE  LET x == session[e]
                       IN  /\ OverrideBore(x) => x.proposal \in View(e).overrides
                           /\ (x.kind = "channel" /\ DecidedLevel(x) = CONFIRM)
                                 => View(e).approvals[x.proposal]["approve"] > 0
    BY DEF AuthorityOnRecord
  <2>1. Owes(e, session[e], writer, draft) BY DEF Audited
  <2>2. session[e].pc \in Routed \/ session[e].result # "none" BY DEF PastGate, Routed
  <2>. QED BY <2>1, <2>2 DEF Owes, View
<1>. QED BY <1>1, SpecAudited, PTL
-----------------------------------------------------------------------------
(* The inductive invariant of the books.                                   *)
Booked == TypeInv /\ Audited /\ Ledger /\ Docket

(* The numbers that are balanced are numbers.                              *)
LEMMA Counts ==
    ASSUME TypeInv, NEW p \in Proposals, NEW r \in Result
    PROVE  /\ ran[p][r] \in Nat /\ lost[p][r] \in Nat
           /\ db.receipts[p][r] \in Nat /\ draft.receipts[p][r] \in Nat
           /\ IsFiniteSet(Carriers(p, r)) /\ Cardinality(Carriers(p, r)) \in Nat
<1>1. IsFiniteSet(Sessions) /\ Carriers(p, r) \subseteq Sessions
  BY ExecutorAssumption DEF Carriers
<1>2. IsFiniteSet(Carriers(p, r)) BY <1>1, FS_Subset
<1>3. Cardinality(Carriers(p, r)) \in Nat BY <1>2, FS_CardinalityType
<1>. QED BY <1>2, <1>3 DEF TypeInv, TypeOK, Database

(* A session that has written a receipt holds the lock.                    *)
LEMMA WriterWrote ==
    ASSUME Audited, NEW e \in Sessions, NEW p, NEW r \in Result, Written(session[e], p, r)
    PROVE  writer = e
<1>1. r # "none" BY DEF Result
<1>. QED BY <1>1 DEF Audited, Owes, Written

(* A step by which no run is made, recorded, committed or lost, and no     *)
(* proposal taken up, decided or let go.                                   *)
Still ==
    /\ db'.receipts = db.receipts /\ db'.outcome = db.outcome
    /\ draft'.receipts = draft.receipts /\ draft'.outcome = draft.outcome
    /\ UNCHANGED <<ran, lost, raced>>
    /\ writer' = writer \/ writer = NoSession
    /\ \A f \in Sessions :
          /\ session'[f].proposal = session[f].proposal
          /\ session'[f].result = session[f].result
          /\ session[f].pc = "closing" => session'[f].pc = "closing"
          /\ session'[f].pc = "closing" /\ session[f].result # "none"
               => session[f].pc = "closing"

(* Such a step leaves the books in order.                                  *)
LEMMA StillBooked ==
    ASSUME Booked, TypeInv', Still
    PROVE  Ledger' /\ Docket'
<1>1. /\ writer \in Sessions \cup {NoSession} /\ writer' \in Sessions \cup {NoSession}
      /\ writer = NoSession => draft = db
  BY DEF Booked, TypeInv, TypeOK
<1>2. ASSUME NEW f \in Sessions, NEW p \in Proposals, NEW r \in Result
      PROVE  Written(session'[f], p, r) <=> Written(session[f], p, r)
  <2>1. r # "none" BY DEF Result
  <2>. QED BY <2>1 DEF Still, Written
<1>3. ASSUME writer = NoSession, writer' # NoSession
      PROVE  \A p \in Proposals, r \in Result : ~Written(session'[writer'], p, r)
  <2>1. writer' \in Sessions BY <1>1, <1>3
  <2>2. ASSUME NEW p \in Proposals, NEW r \in Result, Written(session'[writer'], p, r)
        PROVE  FALSE
    <3>1. Written(session[writer'], p, r) BY <1>2, <2>1, <2>2
    <3>2. writer = writer' BY <2>1, <3>1, WriterWrote DEF Booked
    <3>. QED BY <1>3, <3>2
  <2>. QED BY <2>2
<1>4. Ledger'
  <2>. SUFFICES ASSUME NEW p \in Proposals, NEW r \in Result
                PROVE  /\ ran'[p][r] = db'.receipts[p][r] + lost'[p][r]
                                       + Cardinality(Carriers(p, r)')
                       /\ writer' # NoSession =>
                            draft'.receipts[p][r] =
                              db'.receipts[p][r] + IF Written(session'[writer'], p, r)
                                                   THEN 1 ELSE 0
    BY DEF Ledger
  <2>1. Carriers(p, r)' = Carriers(p, r) BY DEF Carriers, Still
  <2>2. ran'[p][r] = db'.receipts[p][r] + lost'[p][r] + Cardinality(Carriers(p, r)')
    BY <2>1 DEF Still, Booked, Ledger
  <2>3. CASE writer = NoSession
    <3>1. draft'.receipts[p][r] = db'.receipts[p][r] BY <1>1, <2>3 DEF Still
    <3>2. db'.receipts[p][r] \in Nat BY DEF TypeInv, TypeOK, Database
    <3>. QED BY <1>3, <2>2, <2>3, <3>1, <3>2
  <2>4. CASE writer # NoSession
    <3>1. writer' = writer /\ writer \in Sessions BY <1>1, <2>4 DEF Still
    <3>2. Written(session'[writer], p, r) <=> Written(session[writer], p, r)
      BY <1>2, <3>1
    <3>3. draft.receipts[p][r] =
            db.receipts[p][r] + IF Written(session[writer], p, r) THEN 1 ELSE 0
      BY <2>4 DEF Booked, Ledger
    <3>. QED BY <2>2, <3>1, <3>2, <3>3 DEF Still
  <2>. QED BY <2>3, <2>4
<1>5. ASSUME NEW p \in Proposals, writer' # NoSession
      PROVE  /\ \/ draft'.outcome[p] = db'.outcome[p]
                \/ /\ session'[writer'].pc = "closing" /\ session'[writer'].proposal = p
                   /\ draft'.outcome[p] # "pending"
             /\ Written(session'[writer'], p, "succeeded") => draft'.outcome[p] # "pending"
  <2>1. "succeeded" \in Result BY DEF Result
  <2>2. CASE writer = NoSession BY <1>1, <1>3, <1>5, <2>1, <2>2 DEF Still
  <2>3. CASE writer # NoSession
    <3>1. writer' = writer /\ writer \in Sessions BY <1>1, <2>3 DEF Still
    <3>2. Written(session'[writer], p, "succeeded")
            <=> Written(session[writer], p, "succeeded")
      BY <1>2, <2>1, <3>1
    <3>3. /\ \/ draft.outcome[p] = db.outcome[p]
             \/ /\ session[writer].pc = "closing" /\ session[writer].proposal = p
                /\ draft.outcome[p] # "pending"
          /\ Written(session[writer], p, "succeeded") => draft.outcome[p] # "pending"
      BY <2>3 DEF Booked, Docket
    <3>4. draft'.outcome = draft.outcome /\ db'.outcome = db.outcome BY DEF Still
    <3>5. session[writer].pc = "closing" /\ session[writer].proposal = p
            => session'[writer].pc = "closing" /\ session'[writer].proposal = p
      BY <3>1 DEF Still
    <3>. QED BY <3>1, <3>2, <3>3, <3>4, <3>5
  <2>. QED BY <2>2, <2>3
<1>6. Docket'
  <2>1. \A e, f \in Sessions : \A p \in Proposals :
           e # f /\ session'[e].proposal = p /\ session'[f].proposal = p => p \in raced'
    BY DEF Still, Booked, Docket
  <2>2. \A p \in Proposals \ raced' : \A e \in Sessions :
           session'[e].proposal = p => db'.outcome[p] = "pending"
    BY DEF Still, Booked, Docket
  <2>3. \A p \in Proposals \ raced' :
           db'.receipts[p]["succeeded"] <= IF db'.outcome[p] = "pending" THEN 0 ELSE 1
    BY DEF Still, Booked, Docket
  <2>. QED BY <1>5, <2>1, <2>2, <2>3 DEF Docket
<1>. QED BY <1>4, <1>6
-----------------------------------------------------------------------------
(* Most steps of a session are still: what it holds stays in its hands.    *)
LEMMA MoveStill ==
    ASSUME TypeInv, NEW e \in Sessions, NEW y, Move(e, y),
           y.proposal = session[e].proposal, y.result = "none",
           session[e].result = "none", session[e].pc # "closing",
           db'.receipts = db.receipts, db'.outcome = db.outcome,
           draft'.receipts = draft.receipts, draft'.outcome = draft.outcome,
           UNCHANGED <<ran, lost, raced>>,
           writer' = writer \/ writer = NoSession
    PROVE  Still
<1>1. session'[e] = y /\ \A f \in Sessions \ {e} : session'[f] = session[f]
  BY MoveShape
<1>2. ASSUME NEW f \in Sessions
      PROVE  /\ session'[f].proposal = session[f].proposal
             /\ session'[f].result = session[f].result
             /\ session[f].pc = "closing" => session'[f].pc = "closing"
             /\ session'[f].pc = "closing" /\ session[f].result # "none"
                  => session[f].pc = "closing"
  BY <1>1
<1>. QED BY <1>2 DEF Still

(* A flush of the audit trail leaves outcomes and receipts as they are.    *)
LEMMA FlushStill ==
    ASSUME TypeInv, NEW e \in Sessions, NEW d, Flush(e, d),
           d.receipts = View(e).receipts, d.outcome = View(e).outcome
    PROVE  /\ draft'.receipts = draft.receipts /\ draft'.outcome = draft.outcome
           /\ writer' = writer \/ writer = NoSession
<1>1. writer \in {e, NoSession} /\ writer' = e /\ draft' = d BY DEF Flush, MayWrite
<1>2. View(e).receipts = draft.receipts /\ View(e).outcome = draft.outcome
  BY <1>1 DEF View, TypeInv, TypeOK
<1>. QED BY <1>1, <1>2

(* The steps of a session between its first and its last.                  *)
LEMMA SessionStill ==
    ASSUME TypeInv, NEW e \in Sessions,
           \/ GateAny(e) \/ Mistype(e) \/ Probe(e) \/ ChannelFails(e)
           \/ AnswerPrompt(e) \/ AskTimeout(e) \/ Checkpoint(e)
           \/ Route(e) \/ Confirm(e)
    PROVE  Still
<1>. DEFINE x == session[e]
<1>0. x \in Session /\ GateInv(x) /\ View(e) \in Database
  BY ViewType DEF TypeInv, TypeOK
<1>1. ASSUME NEW y, Move(e, y), y.proposal = x.proposal, y.result = "none",
             x.result = "none", x.pc # "closing",
             UNCHANGED <<db, draft, writer, ran, lost, raced>>
      PROVE  Still
  BY <1>1, MoveStill
<1>2. ASSUME GateAny(e) PROVE Still
  <2>1. PICK w \in Windows \cup {NoWindow} : Gate(e, w) BY <1>2 DEF GateAny
  <2>. DEFINE ctx == LoadContext(View(e), x.proposal, w, x.kind = "override")
              a == IF Executes(Decide(ctx, FALSE)) THEN "probing" ELSE "closing"
              y == [x EXCEPT !.pc = a, !.ctx = ctx]
  <2>2. /\ Move(e, y) /\ x.pc = "resolved"
        /\ UNCHANGED <<db, draft, writer, ran, lost, raced>>
    BY <2>1 DEF Gate
  <2>. HIDE DEF a, ctx
  <2>3. x.result = "none" BY <1>0, <2>2 DEF GateInv
  <2>4. y.proposal = x.proposal /\ y.result = "none" BY <1>0, <2>3 DEF Session
  <2>. HIDE DEF y
  <2>. QED BY <1>1, <2>2, <2>3, <2>4
<1>3. ASSUME Mistype(e) \/ ChannelFails(e) PROVE Still
  <2>. DEFINE y == [x EXCEPT !.pc = "closing"]
  <2>1. /\ Move(e, y) /\ x.pc \in {"resolved", "asking"}
        /\ UNCHANGED <<db, draft, writer, ran, lost, raced>>
    BY <1>3 DEF Mistype, ChannelFails
  <2>2. x.result = "none" BY <1>0, <2>1 DEF GateInv
  <2>3. y.proposal = x.proposal /\ y.result = "none" BY <1>0, <2>2 DEF Session
  <2>. HIDE DEF y
  <2>. QED BY <1>1, <2>1, <2>2, <2>3
<1>4. ASSUME Probe(e) PROVE Still
  <2>1. PICK v \in BOOLEAN : Move(e, [x EXCEPT !.pc = "decided", !.verified = v])
    BY <1>4 DEF Probe
  <2>. DEFINE y == [x EXCEPT !.pc = "decided", !.verified = v]
  <2>2. x.pc = "probing" /\ UNCHANGED <<db, draft, writer, ran, lost, raced>>
    BY <1>4 DEF Probe
  <2>3. x.result = "none" BY <1>0, <2>2 DEF GateInv
  <2>4. y.proposal = x.proposal /\ y.result = "none" BY <1>0, <2>3 DEF Session
  <2>5. Move(e, y) BY <2>1
  <2>. HIDE DEF y
  <2>. QED BY <1>1, <2>2, <2>3, <2>4, <2>5
<1>5. ASSUME AnswerPrompt(e) \/ AskTimeout(e) PROVE Still
  <2>1. PICK n \in Answer : Move(e, [x EXCEPT !.pc = "answered", !.answer = n])
    BY <1>5 DEF AnswerPrompt, AskTimeout, Answer
  <2>. DEFINE y == [x EXCEPT !.pc = "answered", !.answer = n]
  <2>2. x.pc = "asking" /\ UNCHANGED <<db, draft, writer, ran, lost, raced>>
    BY <1>5 DEF AnswerPrompt, AskTimeout
  <2>3. x.result = "none" BY <1>0, <2>2 DEF GateInv
  <2>4. y.proposal = x.proposal /\ y.result = "none" BY <1>0, <2>3 DEF Session
  <2>5. Move(e, y) BY <2>1
  <2>. HIDE DEF y
  <2>. QED BY <1>1, <2>2, <2>3, <2>4, <2>5
<1>6. ASSUME Checkpoint(e) PROVE Still
  <2>. DEFINE a == IF Halts(e, DecisionWindow(x.ctx)) THEN "closing" ELSE "capturing"
              y == [x EXCEPT !.pc = a]
  <2>1. /\ Move(e, y) /\ x.pc = "cleared"
        /\ UNCHANGED <<db, draft, writer, ran, lost, raced>>
    BY <1>6 DEF Checkpoint
  <2>. HIDE DEF a
  <2>2. x.result = "none" BY <1>0, <2>1 DEF GateInv
  <2>3. y.proposal = x.proposal /\ y.result = "none" BY <1>0, <2>2 DEF Session
  <2>. HIDE DEF y
  <2>. QED BY <1>1, <2>1, <2>2, <2>3
<1>7. ASSUME Route(e) PROVE Still
  <2>. DEFINE a == IF DecidedLevel(x) = CONFIRM THEN "asking" ELSE "cleared"
              y == [x EXCEPT !.pc = a]
              d == [View(e) EXCEPT !.overrides = @ \cup {x.proposal}]
  <2>1. Move(e, y) /\ x.pc = "decided" /\ UNCHANGED <<db, ran, lost, raced>>
    BY <1>7 DEF Route
  <2>. HIDE DEF a
  <2>2. x.result = "none" /\ x.proposal \in Proposals BY <1>0, <2>1 DEF GateInv
  <2>3. y.proposal = x.proposal /\ y.result = "none" BY <1>0, <2>2 DEF Session
  <2>. HIDE DEF y
  <2>4. Flush(e, d) \/ UNCHANGED <<draft, writer>> BY <1>7 DEF Route
  <2>5. d.receipts = View(e).receipts /\ d.outcome = View(e).outcome
    BY <1>0, <2>2, OverrideLogged
  <2>. HIDE DEF d
  <2>6. /\ draft'.receipts = draft.receipts /\ draft'.outcome = draft.outcome
        /\ writer' = writer \/ writer = NoSession
    BY <2>4, <2>5, FlushStill
  <2>. QED BY <2>1, <2>2, <2>3, <2>6, MoveStill
<1>8. ASSUME Confirm(e) PROVE Still
  <2>. DEFINE a == IF Consents(x.answer) THEN "cleared" ELSE "closing"
              y == [x EXCEPT !.pc = a]
              d == WithAnswer(View(e), x.proposal, x.answer)
  <2>1. Move(e, y) /\ x.pc = "answered" /\ UNCHANGED <<db, ran, lost, raced>>
    BY <1>8 DEF Confirm
  <2>. HIDE DEF a
  <2>2. x.result = "none" /\ x.proposal \in Proposals /\ x.answer \in Answer
    BY <1>0, <2>1 DEF GateInv
  <2>3. y.proposal = x.proposal /\ y.result = "none" BY <1>0, <2>2 DEF Session
  <2>. HIDE DEF y
  <2>4. Flush(e, d) \/ UNCHANGED <<draft, writer>> BY <1>8 DEF Confirm
  <2>5. d.receipts = View(e).receipts /\ d.outcome = View(e).outcome
    BY <1>0, <2>2, AnswerLogged
  <2>. HIDE DEF d
  <2>6. /\ draft'.receipts = draft.receipts /\ draft'.outcome = draft.outcome
        /\ writer' = writer \/ writer = NoSession
    BY <2>4, <2>5, FlushStill
  <2>. QED BY <2>1, <2>2, <2>3, <2>6, MoveStill
<1>. QED BY <1>2, <1>3, <1>4, <1>5, <1>6, <1>7, <1>8

(* So are a tap, the operator's commands, and the clock.                   *)
LEMMA OtherStill ==
    ASSUME TypeInv,
           \/ \E p \in Proposals, n \in {"approve", "deny"} : Tap(p, n)
           \/ \E d \in Database : Commands(d)
           \/ \E w \in Windows : Expire(w)
           \/ UNCHANGED vars
    PROVE  Still
<1>1. ASSUME UNCHANGED <<session, writer, ran, lost, raced>>,
             db'.receipts = db.receipts, db'.outcome = db.outcome,
             draft'.receipts = draft.receipts, draft'.outcome = draft.outcome
      PROVE  Still
  BY <1>1 DEF Still
<1>2. ASSUME NEW p \in Proposals, NEW n \in {"approve", "deny"}, Tap(p, n) PROVE Still
  <2>1. ASSUME NEW f \in Sessions
        PROVE  /\ session'[f].proposal = session[f].proposal
               /\ session'[f].result = session[f].result
               /\ session[f].pc = "closing" => session'[f].pc = "closing"
               /\ session'[f].pc = "closing" /\ session[f].result # "none"
                    => session[f].pc = "closing"
    <3>1. session[f] \in Session BY DEF TypeInv, TypeOK
    <3>2. CASE session'[f] = session[f] BY <3>2
    <3>3. CASE /\ session[f].pc = "asking"
               /\ session'[f] = [session[f] EXCEPT !.pc = "answered", !.answer = n]
      BY <3>1, <3>3 DEF Session
    <3>. QED BY <1>2, <3>2, <3>3 DEF Tap
  <2>2. UNCHANGED <<db, draft, writer, ran, lost, raced>> BY <1>2 DEF Tap
  <2>. QED BY <2>1, <2>2 DEF Still
<1>3. ASSUME NEW d \in Database, Commands(d) PROVE Still
  <2>1. /\ d.outcome = db.outcome /\ d.receipts = db.receipts /\ writer = NoSession
        /\ db' = d /\ draft' = d /\ UNCHANGED <<session, writer, ran, lost, raced>>
    BY <1>3 DEF Commands, Operator
  <2>2. draft = db BY <2>1 DEF TypeInv, TypeOK
  <2>. QED BY <1>1, <2>1, <2>2
<1>4. ASSUME NEW w \in Windows, Expire(w) PROVE Still BY <1>1, <1>4 DEF Expire
<1>5. ASSUME UNCHANGED vars PROVE Still BY <1>1, <1>5 DEF vars
<1>. QED BY <1>2, <1>3, <1>4, <1>5
-----------------------------------------------------------------------------
(* A proposal is taken up: it is pending, and whoever else holds it has    *)
(* been raced.                                                             *)
LEMMA ResolveBooked ==
    ASSUME Booked, NEW e \in Sessions, NEW q \in Proposals, NEW k \in AllKinds,
           Resolve(e, q, k)
    PROVE  Ledger' /\ Docket'
<1>. DEFINE y == [Idle EXCEPT !.pc = IF k \in {"accept", "reject"}
                                     THEN "judging" ELSE "resolved",
                              !.kind = k, !.proposal = q]
<1>1. /\ session[e].pc = "idle" /\ db.outcome[q] = "pending" /\ Move(e, y)
      /\ raced' = IF \E f \in Sessions \ {e} : session[f].proposal = q
                  THEN raced \cup {q} ELSE raced
      /\ UNCHANGED <<db, draft, writer, ran, lost>>
  BY DEF Resolve, Resolvable
<1>2. y.proposal = q /\ y.result = "none" /\ y.pc \in {"judging", "resolved"} BY DEF Idle
<1>. HIDE DEF y
<1>3. TypeInv BY DEF Booked
<1>4. session'[e] = y /\ \A f \in Sessions \ {e} : session'[f] = session[f]
  BY <1>1, <1>3, MoveShape
<1>5. session[e].result = "none" BY <1>1, <1>3 DEF TypeInv, GateInv
<1>6. writer \in Sessions \cup {NoSession} BY <1>3 DEF TypeInv, TypeOK
<1>7. \A p \in Proposals, r \in Result : writer # NoSession =>
         (Written(session'[writer], p, r) <=> Written(session[writer], p, r))
  BY <1>1, <1>2, <1>4, <1>6 DEF Written
<1>8. Ledger'
  <2>1. \A p \in Proposals, r \in Result : Carriers(p, r)' = Carriers(p, r)
    <3>. SUFFICES ASSUME NEW p \in Proposals, NEW r \in Result
                  PROVE  Carriers(p, r)' = Carriers(p, r)
      OBVIOUS
    <3>1. r # "none" BY DEF Result
    <3>. QED BY <1>2, <1>4, <1>5, <3>1 DEF Carriers
  <2>. QED BY <1>1, <1>7, <2>1 DEF Booked, Ledger
<1>9. /\ raced \subseteq raced'
      /\ \A f \in Sessions \ {e} : session[f].proposal = q => q \in raced'
  BY <1>1
<1>10. Docket'
  <2>1. \A p \in Proposals : writer' # NoSession =>
          \/ draft'.outcome[p] = db'.outcome[p]
          \/ /\ session'[writer'].pc = "closing" /\ session'[writer'].proposal = p
             /\ draft'.outcome[p] # "pending"
    BY <1>1, <1>4, <1>6 DEF Booked, Docket
  <2>2. \A p \in Proposals :
          writer' # NoSession /\ Written(session'[writer'], p, "succeeded")
            => draft'.outcome[p] # "pending"
    BY <1>1, <1>7 DEF Booked, Docket, Result
  <2>3. \A f, g \in Sessions : \A p \in Proposals :
          f # g /\ session'[f].proposal = p /\ session'[g].proposal = p => p \in raced'
    BY <1>2, <1>4, <1>9 DEF Booked, Docket
  <2>4. \A p \in Proposals \ raced' : \A f \in Sessions :
          session'[f].proposal = p => db'.outcome[p] = "pending"
    BY <1>1, <1>2, <1>4, <1>9 DEF Booked, Docket
  <2>5. \A p \in Proposals \ raced' :
          db'.receipts[p]["succeeded"] <= IF db'.outcome[p] = "pending" THEN 0 ELSE 1
    BY <1>1, <1>9 DEF Booked, Docket
  <2>. QED BY <2>1, <2>2, <2>3, <2>4, <2>5 DEF Docket
<1>. QED BY <1>8, <1>10

(* The carriers of a run, when one session moves.                          *)
LEMMA CarriersOf ==
    ASSUME TypeInv, NEW e \in Sessions, NEW y, Move(e, y),
           NEW p \in Proposals, NEW r \in Result
    PROVE  LET n == Cardinality(Carriers(p, r))
               was == session[e].proposal = p /\ session[e].result = r
               is  == y.proposal = p /\ y.result = r
           IN  /\ is /\ ~was => Cardinality(Carriers(p, r)') = n + 1
               /\ ~is /\ was => Cardinality(Carriers(p, r)') = n - 1
               /\ (is <=> was) => Cardinality(Carriers(p, r)') = n
<1>. DEFINE was == session[e].proposal = p /\ session[e].result = r
            is  == y.proposal = p /\ y.result = r
<1>1. session'[e] = y /\ \A f \in Sessions \ {e} : session'[f] = session[f]
  BY MoveShape
<1>2. e \in Carriers(p, r) <=> was BY DEF Carriers
<1>3. IsFiniteSet(Carriers(p, r)) BY Counts
<1>4. CASE is /\ ~was
  <2>1. Carriers(p, r)' = Carriers(p, r) \cup {e} BY <1>1, <1>4 DEF Carriers
  <2>2. Cardinality(Carriers(p, r) \cup {e}) = Cardinality(Carriers(p, r)) + 1
    BY <1>2, <1>3, <1>4, FS_AddElement, ZenonT(30)
  <2>. QED BY <1>4, <2>1, <2>2
<1>5. CASE ~is /\ was
  <2>1. Carriers(p, r)' = Carriers(p, r) \ {e} BY <1>1, <1>5 DEF Carriers
  <2>2. Cardinality(Carriers(p, r) \ {e}) = Cardinality(Carriers(p, r)) - 1
    BY <1>2, <1>3, <1>5, FS_RemoveElement, ZenonT(30)
  <2>. QED BY <1>5, <2>1, <2>2
<1>6. CASE is <=> was
  <2>1. Carriers(p, r)' = Carriers(p, r) BY <1>1, <1>6 DEF Carriers
  <2>. QED BY <1>6, <2>1
<1>. QED BY <1>4, <1>5, <1>6

(* A dispatch: one more run, one more session that carries it.             *)
LEMMA DispatchBooked ==
    ASSUME Booked, NEW e \in Sessions, Dispatch(e)
    PROVE  Ledger' /\ Docket'
<1>. DEFINE x == session[e]
            q == x.proposal
<1>0. TypeInv /\ x \in Session /\ GateInv(x) BY DEF Booked, TypeInv, TypeOK
<1>1. PICK o \in Result : /\ Move(e, [session[e] EXCEPT !.pc = "dispatched", !.result = o])
                          /\ ran' = [ran EXCEPT ![q][o] = @ + 1]
  BY DEF Dispatch
<1>. DEFINE y == [x EXCEPT !.pc = "dispatched", !.result = o]
<1>2. x.pc = "capturing" /\ UNCHANGED <<db, draft, writer, lost, raced>> BY DEF Dispatch
<1>3. q \in Proposals /\ x.result = "none" BY <1>0, <1>2 DEF GateInv
<1>4. y.pc = "dispatched" /\ y.proposal = q /\ y.result = o BY <1>0 DEF Session
<1>5. Move(e, y) BY <1>1
<1>6. ran \in [Proposals -> [Result -> Nat]] /\ writer \in Sessions \cup {NoSession}
  BY <1>0 DEF TypeInv, TypeOK
<1>. HIDE DEF y
<1>7. session'[e] = y /\ \A f \in Sessions \ {e} : session'[f] = session[f]
  BY <1>0, <1>5, MoveShape
<1>8. \A p \in Proposals, r \in Result : writer # NoSession =>
         (Written(session'[writer], p, r) <=> Written(session[writer], p, r))
  BY <1>2, <1>4, <1>6, <1>7 DEF Written
<1>9. ASSUME NEW p \in Proposals, NEW r \in Result
      PROVE  ran'[p][r] = db'.receipts[p][r] + lost'[p][r] + Cardinality(Carriers(p, r)')
  <2>. DEFINE n == Cardinality(Carriers(p, r))
  <2>1. /\ ran[p][r] = db.receipts[p][r] + lost[p][r] + n
        /\ db.receipts[p][r] \in Nat /\ lost[p][r] \in Nat /\ n \in Nat
    BY <1>0, Counts DEF Booked, Ledger
  <2>2. r # "none" BY DEF Result
  <2>3. CASE p = q /\ r = o
    <3>1. ran'[p][r] = ran[p][r] + 1 BY <1>1, <1>6, <2>3
    <3>2. Cardinality(Carriers(p, r)') = n + 1
      BY <1>0, <1>3, <1>4, <1>5, <2>2, <2>3, CarriersOf
    <3>. HIDE DEF n, q
    <3>. QED BY <1>2, <2>1, <3>1, <3>2
  <2>4. CASE ~(p = q /\ r = o)
    <3>1. ran'[p][r] = ran[p][r] BY <1>1, <1>3, <1>6, <2>4
    <3>2. Cardinality(Carriers(p, r)') = n
      BY <1>0, <1>3, <1>4, <1>5, <2>2, <2>4, CarriersOf
    <3>. QED BY <1>2, <2>1, <3>1, <3>2
  <2>. QED BY <2>3, <2>4
<1>10. Ledger' BY <1>2, <1>8, <1>9 DEF Booked, Ledger
<1>11. Docket'
  <2>1. \A p \in Proposals : writer' # NoSession =>
          \/ draft'.outcome[p] = db'.outcome[p]
          \/ /\ session'[writer'].pc = "closing" /\ session'[writer'].proposal = p
             /\ draft'.outcome[p] # "pending"
    BY <1>2, <1>6, <1>7 DEF Booked, Docket
  <2>2. \A p \in Proposals :
          writer' # NoSession /\ Written(session'[writer'], p, "succeeded")
            => draft'.outcome[p] # "pending"
    BY <1>2, <1>8 DEF Booked, Docket, Result
  <2>3. \A f \in Sessions : session'[f].proposal = session[f].proposal BY <1>4, <1>7
  <2>. QED BY <1>2, <2>1, <2>2, <2>3 DEF Booked, Docket
<1>. QED BY <1>10, <1>11

(* What the one session that may write has before it: nobody has written   *)
(* an outcome or a receipt that is not committed.                          *)
LEMMA CleanView ==
    ASSUME Booked, NEW e \in Sessions, MayWrite(e), session[e].pc # "closing"
    PROVE  /\ \A p \in Proposals : View(e).outcome[p] = db.outcome[p]
           /\ \A p \in Proposals, r \in Result : View(e).receipts[p][r] = db.receipts[p][r]
<1>1. CASE writer = e
  <2>1. e # NoSession BY ExecutorAssumption
  <2>2. View(e) = draft BY <1>1 DEF View
  <2>3. \A p \in Proposals, r \in Result : ~Written(session[e], p, r) BY DEF Written
  <2>4. \A p \in Proposals, r \in Result : draft.receipts[p][r] = db.receipts[p][r]
    <3>. SUFFICES ASSUME NEW p \in Proposals, NEW r \in Result
                  PROVE  draft.receipts[p][r] = db.receipts[p][r]
      OBVIOUS
    <3>1. db.receipts[p][r] \in Nat BY Counts DEF Booked
    <3>. QED BY <1>1, <2>1, <2>3, <3>1 DEF Booked, Ledger
  <2>. QED BY <1>1, <2>1, <2>2, <2>4 DEF Booked, Docket
<1>2. CASE writer # e BY <1>2 DEF View
<1>. QED BY <1>1, <1>2

(* A record: the receipt and the outcome are in the open transaction.      *)
LEMMA RecordBooked ==
    ASSUME Booked, NEW e \in Sessions, Record(e)
    PROVE  Ledger' /\ Docket'
<1>. DEFINE x == session[e]
            q == x.proposal
            o == x.result
            y == [x EXCEPT !.pc = "closing"]
            v == View(e)
            d == Recorded(v, q, o)
<1>0. TypeInv /\ x \in Session /\ GateInv(x) /\ v \in Database
  BY ViewType DEF Booked, TypeInv, TypeOK
<1>1. /\ x.pc = "dispatched" /\ Flush(e, d) /\ Move(e, y)
      /\ UNCHANGED <<db, ran, lost, raced>>
  BY DEF Record
<1>2. q \in Proposals /\ o \in Result BY <1>0, <1>1 DEF GateInv, Session
<1>3. y.pc = "closing" /\ y.proposal = q /\ y.result = o BY <1>0 DEF Session
<1>4. /\ d.outcome = [v.outcome EXCEPT ![q] = OutcomeAfter(@, o)]
      /\ d.receipts = [v.receipts EXCEPT ![q][o] = @ + 1]
  <2>1. v \in Database /\ q \in Proposals /\ o \in Result BY <1>0, <1>2
  <2>. HIDE DEF v, q, o
  <2>. QED BY <2>1 DEF Recorded, Database
<1>5. /\ v.outcome \in [Proposals -> Outcome]
      /\ v.receipts \in [Proposals -> [Result -> Nat]]
  BY <1>0 DEF Database
<1>6. MayWrite(e) /\ writer' = e /\ e # NoSession /\ draft' = d
  BY <1>1, ExecutorAssumption DEF Flush
<1>7. /\ \A p \in Proposals : v.outcome[p] = db.outcome[p]
      /\ \A p \in Proposals, r \in Result : v.receipts[p][r] = db.receipts[p][r]
  BY <1>1, <1>6, CleanView
<1>. HIDE DEF y, d, v
<1>8. session'[e] = y /\ \A f \in Sessions \ {e} : session'[f] = session[f]
  BY <1>0, <1>1, MoveShape
<1>9. ASSUME NEW p \in Proposals, NEW r \in Result
      PROVE  /\ ran'[p][r] = db'.receipts[p][r] + lost'[p][r] + Cardinality(Carriers(p, r)')
             /\ draft'.receipts[p][r] =
                  db'.receipts[p][r] + IF Written(y, p, r) THEN 1 ELSE 0
  <2>1. Cardinality(Carriers(p, r)') = Cardinality(Carriers(p, r))
    BY <1>0, <1>1, <1>3, CarriersOf
  <2>2. ran'[p][r] = db'.receipts[p][r] + lost'[p][r] + Cardinality(Carriers(p, r)')
    BY <1>1, <2>1 DEF Booked, Ledger
  <2>3. db.receipts[p][r] \in Nat BY <1>0, Counts
  <2>4. Written(y, p, r) <=> p = q /\ r = o BY <1>3 DEF Written
  <2>5. CASE p = q /\ r = o
    <3>1. d.receipts[p][r] = v.receipts[p][r] + 1 BY <1>4, <1>5, <2>5
    <3>. HIDE DEF q, o
    <3>. QED BY <1>1, <1>6, <1>7, <2>2, <2>4, <2>5, <3>1
  <2>6. CASE ~(p = q /\ r = o)
    <3>1. d.receipts[p][r] = v.receipts[p][r] BY <1>2, <1>4, <1>5, <2>6
    <3>. HIDE DEF q, o
    <3>. QED BY <1>1, <1>6, <1>7, <2>2, <2>3, <2>4, <2>6, <3>1
  <2>. QED BY <2>5, <2>6
<1>10. Ledger' BY <1>6, <1>8, <1>9 DEF Ledger
<1>11. Docket'
  <2>1. ASSUME NEW p \in Proposals
        PROVE  /\ \/ draft'.outcome[p] = db'.outcome[p]
                  \/ y.proposal = p /\ draft'.outcome[p] # "pending"
               /\ Written(y, p, "succeeded") => draft'.outcome[p] # "pending"
    <3>1. CASE p = q /\ o = "succeeded"
      <4>1. d.outcome[p] = "executed" BY <1>4, <1>5, <3>1 DEF OutcomeAfter
      <4>. QED BY <1>3, <1>6, <3>1, <4>1
    <3>2. CASE ~(p = q /\ o = "succeeded")
      <4>1. d.outcome[p] = v.outcome[p] BY <1>4, <1>5, <3>2 DEF OutcomeAfter
      <4>2. ~Written(y, p, "succeeded") BY <1>3, <3>2 DEF Written
      <4>. QED BY <1>1, <1>6, <1>7, <4>1, <4>2
    <3>. QED BY <3>1, <3>2
  <2>2. \A f \in Sessions : session'[f].proposal = session[f].proposal BY <1>3, <1>8
  <2>. QED BY <1>1, <1>3, <1>6, <1>8, <2>1, <2>2 DEF Booked, Docket
<1>. QED BY <1>10, <1>11

(* A judgement by hand: an outcome, and no receipt.                        *)
LEMMA JudgeBooked ==
    ASSUME Booked, NEW e \in Sessions, Judge(e)
    PROVE  Ledger' /\ Docket'
<1>. DEFINE x == session[e]
            q == x.proposal
            k == x.kind
            y == [x EXCEPT !.pc = "closing"]
            v == View(e)
            d == Judged(v, q, k)
<1>0. TypeInv /\ x \in Session /\ GateInv(x) /\ v \in Database
  BY ViewType DEF Booked, TypeInv, TypeOK
<1>1. /\ x.pc = "judging" /\ Flush(e, d) /\ Move(e, y)
      /\ UNCHANGED <<db, ran, lost, raced>>
  BY DEF Judge
<1>2. q \in Proposals /\ k \in {"accept", "reject"} /\ x.result = "none"
  BY <1>0, <1>1 DEF GateInv
<1>3. y.pc = "closing" /\ y.proposal = q /\ y.result = "none" BY <1>0, <1>2 DEF Session
<1>4. /\ d.outcome = [v.outcome EXCEPT ![q] = IF k = "accept"
                                            THEN "accepted" ELSE "rejected"]
      /\ d.receipts = v.receipts
  <2>1. v \in Database /\ q \in Proposals /\ k \in {"accept", "reject"} BY <1>0, <1>2
  <2>. HIDE DEF v, q, k
  <2>. QED BY <2>1 DEF Judged, Database
<1>5. v.outcome \in [Proposals -> Outcome] BY <1>0 DEF Database
<1>6. MayWrite(e) /\ writer' = e /\ e # NoSession /\ draft' = d
  BY <1>1, ExecutorAssumption DEF Flush
<1>7. /\ \A p \in Proposals : v.outcome[p] = db.outcome[p]
      /\ \A p \in Proposals, r \in Result : v.receipts[p][r] = db.receipts[p][r]
  BY <1>1, <1>6, CleanView
<1>. HIDE DEF y, d, v
<1>8. session'[e] = y /\ \A f \in Sessions \ {e} : session'[f] = session[f]
  BY <1>0, <1>1, MoveShape
<1>9. \A p \in Proposals, r \in Result : ~Written(y, p, r) BY <1>3 DEF Written, Result
<1>10. Ledger'
  <2>1. ASSUME NEW p \in Proposals, NEW r \in Result
        PROVE  /\ ran'[p][r] = db'.receipts[p][r] + lost'[p][r] + Cardinality(Carriers(p, r)')
               /\ draft'.receipts[p][r] = db'.receipts[p][r] + 0
    <3>1. Cardinality(Carriers(p, r)') = Cardinality(Carriers(p, r))
      BY <1>0, <1>1, <1>2, <1>3, CarriersOf
    <3>2. ran'[p][r] = db'.receipts[p][r] + lost'[p][r] + Cardinality(Carriers(p, r)')
      BY <1>1, <3>1 DEF Booked, Ledger
    <3>3. db.receipts[p][r] \in Nat BY <1>0, Counts
    <3>. QED BY <1>1, <1>4, <1>6, <1>7, <3>2, <3>3
  <2>. QED BY <1>6, <1>8, <1>9, <2>1 DEF Ledger
<1>11. Docket'
  <2>1. ASSUME NEW p \in Proposals
        PROVE  \/ draft'.outcome[p] = db'.outcome[p]
               \/ y.proposal = p /\ draft'.outcome[p] # "pending"
    <3>1. CASE p = q
      <4>1. d.outcome[p] # "pending" BY <1>2, <1>4, <1>5, <3>1
      <4>. QED BY <1>3, <1>6, <3>1, <4>1
    <3>2. CASE p # q
      <4>1. d.outcome[p] = v.outcome[p] BY <1>4, <1>5, <3>2
      <4>. QED BY <1>1, <1>6, <1>7, <4>1
    <3>. QED BY <3>1, <3>2
  <2>2. \A f \in Sessions : session'[f].proposal = session[f].proposal BY <1>3, <1>8
  <2>3. "succeeded" \in Result BY DEF Result
  <2>. QED BY <1>1, <1>3, <1>6, <1>8, <1>9, <2>1, <2>2, <2>3 DEF Booked, Docket
<1>. QED BY <1>10, <1>11
-----------------------------------------------------------------------------
(* A commit makes the draft the database: what its session had written is  *)
(* now what nobody carries any more.                                       *)
LEMMA CommitBooked ==
    ASSUME Booked, NEW e \in Sessions, Commit(e)
    PROVE  Ledger' /\ Docket'
<1>. DEFINE x == session[e]
<1>0. TypeInv /\ Audited BY DEF Booked
<1>1. /\ x.pc = "closing" /\ Move(e, Idle) /\ UNCHANGED <<draft, ran, lost, raced>>
  BY DEF Commit
<1>2. Idle.proposal \notin Proposals /\ Idle.result = "none" /\ Idle.pc = "idle"
  BY ExecutorAssumption DEF Idle
<1>. HIDE DEF Idle
<1>3. session'[e] = Idle /\ \A f \in Sessions \ {e} : session'[f] = session[f]
  BY <1>0, <1>1, MoveShape
<1>4. ASSUME NEW p \in Proposals, NEW r \in Result
      PROVE  LET n == Cardinality(Carriers(p, r))
             IN  Cardinality(Carriers(p, r)') = n - IF Written(x, p, r) THEN 1 ELSE 0
  <2>1. Cardinality(Carriers(p, r)) \in Nat BY <1>0, Counts
  <2>2. CASE Written(x, p, r)
    BY <1>0, <1>1, <1>2, <2>2, CarriersOf DEF Written
  <2>3. CASE ~Written(x, p, r)
    BY <1>0, <1>1, <1>2, <2>1, <2>3, CarriersOf DEF Written
  <2>. QED BY <2>2, <2>3
<1>5. \A f, g \in Sessions : \A p \in Proposals :
         f # g /\ session'[f].proposal = p /\ session'[g].proposal = p => p \in raced'
  BY <1>1, <1>2, <1>3 DEF Booked, Docket
<1>6. CASE writer = e
  <2>1. db' = draft /\ writer' = NoSession /\ writer # NoSession
    BY <1>6, ExecutorAssumption DEF Commit
  <2>2. ASSUME NEW p \in Proposals, NEW r \in Result
        PROVE  /\ draft.receipts[p][r] =
                    db.receipts[p][r] + IF Written(x, p, r) THEN 1 ELSE 0
               /\ ran[p][r] = db.receipts[p][r] + lost[p][r] + Cardinality(Carriers(p, r))
    BY <1>6, <2>1 DEF Booked, Ledger
  <2>3. Ledger'
    <3>. SUFFICES ASSUME NEW p \in Proposals, NEW r \in Result
                  PROVE  ran'[p][r] = db'.receipts[p][r] + lost'[p][r]
                                      + Cardinality(Carriers(p, r)')
      BY <2>1 DEF Ledger
    <3>1. /\ db.receipts[p][r] \in Nat /\ lost[p][r] \in Nat
          /\ Cardinality(Carriers(p, r)) \in Nat
      BY <1>0, Counts
    <3>2. Cardinality(Carriers(p, r)')
            = Cardinality(Carriers(p, r)) - IF Written(x, p, r) THEN 1 ELSE 0
      BY <1>4
    <3>. QED BY <1>1, <2>1, <2>2, <3>1, <3>2
  <2>4. ASSUME NEW p \in Proposals
        PROVE  /\ \/ draft.outcome[p] = db.outcome[p]
                  \/ x.proposal = p /\ draft.outcome[p] # "pending"
               /\ Written(x, p, "succeeded") => draft.outcome[p] # "pending"
    BY <1>6, <2>1 DEF Booked, Docket
  <2>5. ASSUME NEW p \in Proposals \ raced, NEW f \in Sessions, session'[f].proposal = p
        PROVE  draft.outcome[p] = "pending"
    <3>1. f # e /\ session[f].proposal = p BY <1>2, <1>3, <2>5
    <3>2. x.proposal # p BY <3>1 DEF Booked, Docket
    <3>3. db.outcome[p] = "pending" BY <3>1 DEF Booked, Docket
    <3>. QED BY <2>4, <3>2, <3>3
  <2>6. ASSUME NEW p \in Proposals \ raced
        PROVE  draft.receipts[p]["succeeded"]
                 <= IF draft.outcome[p] = "pending" THEN 0 ELSE 1
    <3>1. "succeeded" \in Result BY DEF Result
    <3>2. db.receipts[p]["succeeded"] \in Nat BY <1>0, <3>1, Counts
    <3>3. /\ draft.receipts[p]["succeeded"] = db.receipts[p]["succeeded"]
                                             + IF Written(x, p, "succeeded") THEN 1 ELSE 0
          /\ db.receipts[p]["succeeded"] <= IF db.outcome[p] = "pending" THEN 0 ELSE 1
      BY <2>2, <3>1 DEF Booked, Docket
    <3>4. x.proposal = p => db.outcome[p] = "pending" BY DEF Booked, Docket
    <3>5. Written(x, p, "succeeded") => x.proposal = p /\ draft.outcome[p] # "pending"
      BY <2>4 DEF Written
    <3>. QED BY <2>4, <3>2, <3>3, <3>4, <3>5
  <2>7. Docket' BY <1>1, <1>5, <2>1, <2>5, <2>6 DEF Docket
  <2>. QED BY <2>3, <2>7
<1>7. CASE writer # e
  <2>1. UNCHANGED <<db, writer>> BY <1>7 DEF Commit
  <2>2. \A p \in Proposals, r \in Result : ~Written(x, p, r)
    BY <1>0, <1>7, WriterWrote
  <2>3. writer # NoSession => session'[writer] = session[writer]
    BY <1>0, <1>3, <1>7 DEF TypeInv, TypeOK
  <2>4. Ledger'
    <3>1. \A p \in Proposals, r \in Result :
             Cardinality(Carriers(p, r)') = Cardinality(Carriers(p, r))
      <4>. SUFFICES ASSUME NEW p \in Proposals, NEW r \in Result
                    PROVE  Cardinality(Carriers(p, r)') = Cardinality(Carriers(p, r))
        OBVIOUS
      <4>1. Cardinality(Carriers(p, r)) \in Nat BY <1>0, Counts
      <4>. QED BY <1>4, <2>2, <4>1
    <3>. QED BY <1>1, <2>1, <2>3, <3>1 DEF Booked, Ledger
  <2>5. \A p \in Proposals \ raced' : \A f \in Sessions :
           session'[f].proposal = p => db'.outcome[p] = "pending"
    BY <1>1, <1>2, <1>3, <2>1 DEF Booked, Docket
  <2>. QED BY <1>1, <1>5, <2>1, <2>3, <2>4, <2>5 DEF Booked, Docket
<1>. QED BY <1>6, <1>7

(* An abort takes the draft back: what its session carried is lost.        *)
LEMMA AbortBooked ==
    ASSUME Booked, NEW e \in Sessions, Abort(e)
    PROVE  Ledger' /\ Docket'
<1>. DEFINE x == session[e]
            q == x.proposal
            o == x.result
<1>0. TypeInv /\ Audited /\ x \in Session /\ GateInv(x)
  BY DEF Booked, TypeInv, TypeOK
<1>1. Move(e, Idle) /\ RollBack(e) /\ UNCHANGED <<db, ran, raced>> BY DEF Abort
<1>2. Idle.proposal \notin Proposals /\ Idle.result = "none" /\ Idle.pc = "idle"
  BY ExecutorAssumption DEF Idle
<1>. HIDE DEF Idle
<1>3. session'[e] = Idle /\ \A f \in Sessions \ {e} : session'[f] = session[f]
  BY <1>0, <1>1, MoveShape
<1>4. \/ writer' = NoSession
      \/ writer' # e /\ UNCHANGED <<draft, writer>>
  BY <1>1 DEF RollBack
<1>5. writer' # NoSession => session'[writer'] = session[writer]
  BY <1>0, <1>3, <1>4 DEF TypeInv, TypeOK
<1>6. ASSUME NEW p \in Proposals, NEW r \in Result
      PROVE  ran'[p][r] = db'.receipts[p][r] + lost'[p][r] + Cardinality(Carriers(p, r)')
  <2>. DEFINE n == Cardinality(Carriers(p, r))
  <2>1. /\ ran[p][r] = db.receipts[p][r] + lost[p][r] + n
        /\ db.receipts[p][r] \in Nat /\ lost[p][r] \in Nat /\ n \in Nat
    BY <1>0, Counts DEF Booked, Ledger
  <2>2. r # "none" BY DEF Result
  <2>3. lost' = IF o = "none" THEN lost ELSE [lost EXCEPT ![q][o] = @ + 1]
    BY DEF Abort
  <2>4. lost \in [Proposals -> [Result -> Nat]] BY <1>0 DEF TypeInv, TypeOK
  <2>5. CASE q = p /\ o = r
    <3>1. lost'[p][r] = lost[p][r] + 1 BY <2>2, <2>3, <2>4, <2>5
    <3>2. Cardinality(Carriers(p, r)') = n - 1
      BY <1>0, <1>1, <1>2, <2>2, <2>5, CarriersOf
    <3>. HIDE DEF n, q, o
    <3>. QED BY <1>1, <2>1, <3>1, <3>2
  <2>6. CASE ~(q = p /\ o = r)
    <3>1. o # "none" => q \in Proposals /\ o \in Result BY <1>0 DEF GateInv, Session
    <3>2. lost'[p][r] = lost[p][r] BY <2>3, <2>4, <2>6, <3>1
    <3>3. Cardinality(Carriers(p, r)') = n
      BY <1>0, <1>1, <1>2, <2>2, <2>6, CarriersOf
    <3>. HIDE DEF n, q, o
    <3>. QED BY <1>1, <2>1, <3>2, <3>3
  <2>. QED BY <2>5, <2>6
<1>7. Ledger'
  <2>1. \A p \in Proposals, r \in Result : writer' # NoSession =>
           draft'.receipts[p][r] =
             db'.receipts[p][r] + IF Written(session'[writer'], p, r) THEN 1 ELSE 0
    BY <1>1, <1>4, <1>5 DEF Booked, Ledger
  <2>. QED BY <1>6, <2>1 DEF Ledger
<1>8. Docket'
  <2>1. ASSUME NEW p \in Proposals, writer' # NoSession
        PROVE  /\ \/ draft'.outcome[p] = db'.outcome[p]
                  \/ /\ session'[writer'].pc = "closing" /\ session'[writer'].proposal = p
                     /\ draft'.outcome[p] # "pending"
               /\ Written(session'[writer'], p, "succeeded") => draft'.outcome[p] # "pending"
    BY <1>1, <1>4, <1>5, <2>1 DEF Booked, Docket
  <2>2. \A f, g \in Sessions : \A p \in Proposals :
           f # g /\ session'[f].proposal = p /\ session'[g].proposal = p => p \in raced'
    BY <1>1, <1>2, <1>3 DEF Booked, Docket
  <2>3. \A p \in Proposals \ raced' : \A f \in Sessions :
           session'[f].proposal = p => db'.outcome[p] = "pending"
    BY <1>1, <1>2, <1>3 DEF Booked, Docket
  <2>4. \A p \in Proposals \ raced' :
           db'.receipts[p]["succeeded"] <= IF db'.outcome[p] = "pending" THEN 0 ELSE 1
    BY <1>1 DEF Booked, Docket
  <2>. QED BY <2>1, <2>2, <2>3, <2>4 DEF Docket
<1>. QED BY <1>7, <1>8
-----------------------------------------------------------------------------
(* At the start nothing has been run, ...                                  *)
LEMMA InitBooked == Init => Ledger /\ Docket
<1>. SUFFICES ASSUME Init PROVE Ledger /\ Docket OBVIOUS
<1>0. Idle.proposal \notin Proposals /\ Idle.result = "none"
  BY ExecutorAssumption DEF Idle
<1>. HIDE DEF Idle
<1>1. \A f \in Sessions : session[f] = Idle BY DEF Init
<1>2. writer = NoSession BY DEF Init
<1>3. ASSUME NEW p \in Proposals, NEW r \in Result
      PROVE  /\ ran[p][r] = 0 /\ lost[p][r] = 0 /\ db.receipts[p][r] = 0
             /\ Cardinality(Carriers(p, r)) = 0
  <2>1. r # "none" BY DEF Result
  <2>2. Carriers(p, r) = {} BY <1>0, <1>1, <2>1 DEF Carriers
  <2>3. Cardinality(Carriers(p, r)) = 0 BY <2>2, FS_EmptySet
  <2>4. db.receipts[p][r] = 0 BY DEF Init, Zero
  <2>. QED BY <2>3, <2>4 DEF Init, Zero
<1>4. Ledger BY <1>2, <1>3 DEF Ledger
<1>5. "succeeded" \in Result BY DEF Result
<1>. QED BY <1>0, <1>1, <1>2, <1>3, <1>4, <1>5 DEF Docket

(* ... and every step keeps the books.                                     *)
LEMMA BookedNext ==
    ASSUME Booked, [Next]_vars
    PROVE  Booked'
<1>0. TypeInv /\ TypeInv' /\ Audited' BY TypeNext, AuditedNext DEF Booked
<1>1. ASSUME Still PROVE Ledger' /\ Docket' BY <1>0, <1>1, StillBooked
<1>2. ASSUME NEW e \in Sessions, Commit(e) \/ Abort(e) PROVE Ledger' /\ Docket'
  BY <1>2, CommitBooked, AbortBooked
<1>3. ASSUME NEW e \in Sessions, Handler(e) PROVE Ledger' /\ Docket'
  BY <1>0, <1>1, <1>2, <1>3, SessionStill, DispatchBooked, RecordBooked, JudgeBooked
     DEF Handler, Busy
<1>4. ASSUME NEW e \in Sessions, Start(e) \/ ChannelFails(e) PROVE Ledger' /\ Docket'
  BY <1>0, <1>1, <1>4, SessionStill, ResolveBooked DEF Start
<1>5. ASSUME Human PROVE Ledger' /\ Docket'
  <2>1. ASSUME NEW e \in Sessions,
               (session[e].kind = "override" /\ GateAny(e)) \/ Mistype(e) \/ AnswerPrompt(e)
        PROVE  Still
    BY <1>0, <2>1, SessionStill
  <2>2. ASSUME NEW p \in Proposals, NEW n \in {"approve", "deny"}, Tap(p, n) PROVE Still
    BY <1>0, <2>2, OtherStill
  <2>3. ASSUME NEW d, Operator(d), d.receipts = db.receipts, d.outcome = db.outcome
        PROVE  Still
    <3>1. writer = NoSession /\ draft = db BY <1>0, <2>3 DEF Operator, TypeInv, TypeOK
    <3>. QED BY <2>3, <3>1 DEF Operator, Still
  <2>4. db \in Database BY <1>0 DEF TypeInv, TypeOK
  <2>5. ASSUME NEW c \in Cells, NEW level \in GrantLevels, Grant(c, level) PROVE Still
    BY <2>3, <2>4, <2>5 DEF Grant, Database
  <2>6. ASSUME NEW h \in Hosts, NEW b \in Ceilings, SetBoundary(h, b) PROVE Still
    BY <2>3, <2>4, <2>6 DEF SetBoundary, Database
  <2>7. ASSUME NEW w \in Windows, OpenWindow(w) \/ RevokeWindow(w) PROVE Still
    BY <2>3, <2>4, <2>7 DEF OpenWindow, RevokeWindow, Database
  <2>8. ASSUME KillSwitch PROVE Still
    BY <2>3, <2>4, <2>8 DEF KillSwitch, Database
  <2>. QED BY <1>1, <1>5, <2>1, <2>2, <2>5, <2>6, <2>7, <2>8 DEF Human
<1>6. ASSUME (\E w \in Windows : Expire(w)) \/ UNCHANGED vars PROVE Ledger' /\ Docket'
  BY <1>0, <1>1, <1>6, OtherStill
<1>7. ASSUME NEW e \in Sessions, Crash(e) PROVE Ledger' /\ Docket'
  BY <1>2, <1>7 DEF Crash
<1>8. Ledger' /\ Docket'
  BY <1>3, <1>4, <1>5, <1>6, <1>7 DEF Next, NextUp
<1>. QED BY <1>0, <1>8 DEF Booked

(* The books are kept in every state.                                      *)
LEMMA SpecBooked == Spec => []Booked
<1>1. Init => TypeInv /\ Ledger /\ Docket BY TypeInit, InitBooked
<1>2. Booked /\ [Next]_vars => Booked' BY BookedNext
<1>3. TypeInv /\ Audited /\ Ledger /\ Docket => Booked BY DEF Booked
<1>. QED BY <1>1, <1>2, <1>3, SpecAudited, PTL DEF Spec

(* Every dispatch is accounted for exactly once, whatever dies, waits or   *)
(* overlaps.                                                               *)
THEOREM ReceiptsBalanced == Spec => []ReceiptsBalance
<1>1. Booked => ReceiptsBalance BY DEF Booked, Ledger, Carriers, ReceiptsBalance
<1>. QED BY <1>1, SpecBooked, PTL

(* A proposal that no two sessions held at once, and whose receipt was not *)
(* lost, succeeds at most once.                                            *)
THEOREM RunsOnce == Spec => []SequentialRunsOnce
<1>1. Booked => SequentialRunsOnce
  <2>. SUFFICES ASSUME Booked, NEW p \in Proposals \ raced, lost[p]["succeeded"] = 0
                PROVE  ran[p]["succeeded"] <= 1
    BY DEF SequentialRunsOnce
  <2>. DEFINE C == Carriers(p, "succeeded")
  <2>1. "succeeded" \in Result BY DEF Result
  <2>2. /\ db.receipts[p]["succeeded"] \in Nat
        /\ ran[p]["succeeded"] = db.receipts[p]["succeeded"] + 0 + Cardinality(C)
    BY <2>1, Counts DEF Booked, Ledger
  <2>3. db.receipts[p]["succeeded"] <= IF db.outcome[p] = "pending" THEN 0 ELSE 1
    BY DEF Booked, Docket
  <2>4. CASE C = {}
    <3>1. Cardinality(C) = 0 BY <2>4, FS_EmptySet
    <3>. HIDE DEF C
    <3>. QED BY <2>2, <2>3, <3>1
  <2>5. CASE C # {}
    <3>1. PICK e \in Sessions : e \in C BY <2>5 DEF Carriers
    <3>2. db.outcome[p] = "pending" BY <3>1 DEF Carriers, Booked, Docket
    <3>3. C = {e} BY <3>1 DEF Carriers, Booked, Docket
    <3>4. Cardinality(C) = 1 BY <3>3, FS_Singleton
    <3>. HIDE DEF C
    <3>. QED BY <2>2, <2>3, <3>2, <3>4
  <2>. QED BY <2>4, <2>5
<1>. QED BY <1>1, SpecBooked, PTL

(* A decided proposal that no two sessions held at once stays decided: the *)
(* one commit that could change its outcome is of a session that holds it, *)
(* and then it was pending.                                                *)
THEOREM DecisionsFinal == Spec => DecidedIsFinal
<1>. DEFINE A == \A p \in Proposals \ raced' :
                    db.outcome[p] # "pending" => db'.outcome[p] = db.outcome[p]
<1>1. ASSUME Booked, [Next]_vars PROVE A
  <2>1. Shaped BY <1>1, StepShape DEF Booked
  <2>2. ASSUME db'.outcome = db.outcome PROVE A BY <2>2
  <2>3. ASSUME NEW e \in Sessions, Commit(e) PROVE A
    <3>1. CASE writer = e
      <4>1. db' = draft /\ raced' = raced /\ writer # NoSession
        BY <2>3, <3>1, ExecutorAssumption DEF Commit
      <4>2. ASSUME NEW p \in Proposals \ raced, db.outcome[p] # "pending"
            PROVE  draft.outcome[p] = db.outcome[p]
        <5>1. session[e].proposal # p BY <1>1, <4>2 DEF Booked, Docket
        <5>. QED BY <1>1, <3>1, <4>1, <5>1 DEF Booked, Docket
      <4>. QED BY <4>1, <4>2
    <3>2. CASE writer # e BY <2>2, <2>3, <3>2 DEF Commit
    <3>. QED BY <3>1, <3>2
  <2>4. CASE Quiet BY <2>2, <2>4 DEF Quiet
  <2>5. ASSUME NEW e \in Sessions, NEW d \in Database, Writes(e, d) PROVE A
    BY <2>2, <2>5 DEF Writes
  <2>6. ASSUME NEW e \in Sessions, Abort(e) PROVE A BY <2>2, <2>6 DEF Abort
  <2>7. ASSUME NEW d \in Database, Commands(d) PROVE A
    BY <2>2, <2>7 DEF Commands, Operator
  <2>. HIDE DEF A
  <2>. QED BY <2>1, <2>3, <2>4, <2>5, <2>6, <2>7 DEF Shaped
<1>2. Booked /\ [Next]_vars => [A]_vars BY <1>1
<1>. QED BY <1>2, SpecBooked, PTL DEF Spec, DecidedIsFinal
=============================================================================
