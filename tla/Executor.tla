------------------------------ MODULE Executor ------------------------------
(***************************************************************************)
(* The execution spine: execute_proposal() of engine/executor.py, driven   *)
(* by `helper exec run` and by the MCP tool execute_proposal, with         *)
(* `helper exec accept|reject`, the operator's grants, boundaries and      *)
(* windows, and crashes, all against one database.                         *)
(*                                                                         *)
(* A session is one process holding one database session.  Its handler is  *)
(* cut at every await that may let another session in: the probe of the    *)
(* target, the prompt, the snapshot, the dispatch, the commit.             *)
(*                                                                         *)
(* The database is SQLite, the default.  A session's first flush takes the *)
(* one write lock ("writer") and opens a transaction: "draft" is the       *)
(* database as that transaction sees it, "db" the committed one that every *)
(* other session reads.  The transaction commits when session_scope exits; *)
(* an exception or a crash rolls it back.  A session that must write while *)
(* another holds the lock waits, or gives up with "database is locked".    *)
(***************************************************************************)
EXTENDS CellLadder

CONSTANTS Sessions, NoSession,
          Proposals, NoProposal,
          Hosts,
          CellOf,        \* CellOf[p]: the cell of p's manifest
          HostsOf,       \* HostsOf[p]: the hosts p's manifest names
          Scope,         \* Scope[w]: the proposals window w covers
          Invertible,    \* proposals whose action has an inverse to probe for
          Preflighted,   \* proposals whose dispatch may refuse in its preflight
          Kinds,         \* the commands that run: a subset of AllKinds
          GrantLevels,   \* the levels an operator grants
          Ceilings,      \* the ceilings an operator sets on a host
          MaxRuns        \* bound: sessions begun in one behaviour

AllKinds == {"cli", "override", "channel", "accept", "reject"}

ASSUME ExecutorAssumption ==
    /\ NoSession \notin Sessions /\ NoProposal \notin Proposals
    /\ IsFiniteSet(Sessions)
    /\ CellOf \in [Proposals -> Cells]
    /\ HostsOf \in [Proposals -> SUBSET Hosts]
    /\ Scope \in [Windows -> SUBSET Proposals]
    /\ Invertible \subseteq Proposals /\ Preflighted \subseteq Proposals
    /\ Kinds \subseteq AllKinds
    /\ GrantLevels \subseteq Level /\ Ceilings \subseteq BoundaryView
    /\ MaxRuns \in Nat

VARIABLES db,       \* the committed database
          draft,    \* the database inside the open write transaction
          writer,   \* the session that holds the write lock
          session,  \* session[e]: where the handler of session e stands
          expired,  \* windows whose expires_at has passed
          runs,     \* sessions begun so far (bounded by MaxRuns)
          ran,      \* history: ran[p][r], dispatches of p that ended in r
          lost,     \* history: lost[p][r], of those, rolled back with their receipt
          raced     \* history: proposals two sessions have held at once

vars == <<db, draft, writer, session, expired, runs, ran, lost, raced>>

(* ProposalOutcome.  "executed" and "accepted" are both USER_ACCEPTED: the *)
(* executor's outcome_notes names its receipt, the CLI's says "by hand".   *)
Outcome == {"pending", "executed", "accepted", "rejected"}
Result  == {"succeeded", "failed", "refused"}
Answer  == {"approve", "deny", "timeout"}

Database == [outcome   : [Proposals -> Outcome],
             cell      : [Cells -> CellRow],
             bound     : [Hosts -> SUBSET BoundaryView],
             window    : [Windows -> {"unopened", "open", "revoked"}],
             receipts  : [Proposals -> [Result -> Nat]],
             approvals : [Proposals -> [Answer -> Nat]],
             overrides : SUBSET Proposals]

PC == {"idle", "resolved", "probing", "decided", "asking", "answered", "cleared",
       "capturing", "dispatched", "judging", "closing"}

Session == [pc       : PC,
            kind     : AllKinds,
            proposal : Proposals \cup {NoProposal},
            ctx      : TrustContext,
            verified : BOOLEAN,
            answer   : Answer \cup {"none"},
            result   : Result \cup {"none"}]
-----------------------------------------------------------------------------
NoContext == [level |-> BLOCK, probation |-> FALSE, max |-> BLOCK,
              absolute |-> FALSE, bounds |-> {}, window |-> NoWindow,
              override |-> FALSE]

Idle == [pc |-> "idle", kind |-> "cli", proposal |-> NoProposal,
         ctx |-> NoContext, verified |-> FALSE, answer |-> "none",
         result |-> "none"]

Zero(S) == [x \in S |-> 0]

Init ==
    /\ db = [outcome   |-> [p \in Proposals |-> "pending"],
             cell      |-> [c \in Cells |-> NewCell(c)],
             bound     |-> [h \in Hosts |-> {}],
             window    |-> [w \in Windows |-> "unopened"],
             receipts  |-> [p \in Proposals |-> Zero(Result)],
             approvals |-> [p \in Proposals |-> Zero(Answer)],
             overrides |-> {}]
    /\ draft = db
    /\ writer = NoSession
    /\ session = [e \in Sessions |-> Idle]
    /\ expired = {}
    /\ runs = 0
    /\ ran  = [p \in Proposals |-> Zero(Result)]
    /\ lost = [p \in Proposals |-> Zero(Result)]
    /\ raced = {}
-----------------------------------------------------------------------------
(* What session e reads: its own transaction if it has one open.           *)
View(e) == IF writer = e THEN draft ELSE db

Open(d, w) == d.window[w] = "open" /\ w \notin expired

(* load_trust_context(): everything decide() may consider, read once.  The *)
(* windows come in whatever order the query returns them, so the first one *)
(* that matches may be any that matches.                                   *)
Covering(d, p) == {w \in Windows : Open(d, w) /\ p \in Scope[w]}

FirstMatch(d, p) == IF Covering(d, p) = {} THEN {NoWindow} ELSE Covering(d, p)

LoadContext(d, p, w, override) ==
    LET c == CellOf[p]
    IN  [level     |-> d.cell[c].level,
         probation |-> d.cell[c].probation,
         max       |-> MaxLevel[c],
         absolute  |-> c \in AbsoluteCells,
         bounds    |-> UNION {d.bound[h] : h \in HostsOf[p]},
         window    |-> w,
         override  |-> override]

(* The decision a session acts on: taken on its frozen context and on what *)
(* the probe of the target found.                                          *)
DecidedLevel(x) == Decide(x.ctx, x.verified)

(* _log_override(): the override changed the outcome.                      *)
OverrideBore(x) ==
    x.ctx.override /\ DecidedLevel(x) # Decide([x.ctx EXCEPT !.override = FALSE], x.verified)

(* Flushes: take the write lock, or already hold it, and change the draft. *)
MayWrite(e) == writer \in {e, NoSession}

Flush(e, d) == /\ MayWrite(e)
               /\ writer' = e
               /\ draft' = d

Move(e, x) == session' = [session EXCEPT ![e] = x]
-----------------------------------------------------------------------------
(* Mutant: whatever became of the proposal.                                *)
ResolvableAnyway(p) == p \in Proposals

(* _resolve_pending(), or the test on the proposal's outcome.              *)
Resolvable(p) == db.outcome[p] = "pending"

(* A command resolves its proposal: a session opens and finds p pending.   *)
(* The object it holds from here on keeps saying "pending".                *)
Resolve(e, p, k) ==
    /\ session[e].pc = "idle" /\ runs < MaxRuns
    /\ k \in Kinds
    /\ Resolvable(p)
    /\ Move(e, [Idle EXCEPT !.pc = IF k \in {"accept", "reject"}
                                   THEN "judging" ELSE "resolved",
                            !.kind = k, !.proposal = p])
    /\ raced' = IF \E f \in Sessions \ {e} : session[f].proposal = p
                THEN raced \cup {p} ELSE raced
    /\ runs' = runs + 1
    /\ UNCHANGED <<db, draft, writer, expired, ran, lost>>

(* execute_proposal() up to the provisional decision: freeze the context,  *)
(* and go on only if the pessimistic decision (no rollback) executes.  An  *)
(* override gets here once the operator has retyped the cell's key.        *)
Gate(e, w) ==
    LET p   == session[e].proposal
        ctx == LoadContext(View(e), p, w, session[e].kind = "override")
    IN  /\ session[e].pc = "resolved"
        /\ w \in FirstMatch(View(e), p)
        /\ Move(e, [session[e] EXCEPT
                      !.pc = IF Executes(Decide(ctx, FALSE)) THEN "probing" ELSE "closing",
                      !.ctx = ctx])
        /\ UNCHANGED <<db, draft, writer, expired, runs, ran, lost, raced>>

(* The key did not match: the override, and the run, are given up.         *)
Mistype(e) ==
    /\ session[e].pc = "resolved" /\ session[e].kind = "override"
    /\ Move(e, [session[e] EXCEPT !.pc = "closing"])
    /\ UNCHANGED <<db, draft, writer, expired, runs, ran, lost, raced>>

(* verify_rollback() answers; decide() runs again on the same context.     *)
Probe(e) ==
    /\ session[e].pc = "probing"
    /\ \E verified \in BOOLEAN :
          /\ verified => session[e].proposal \in Invertible
          /\ Move(e, [session[e] EXCEPT !.pc = "decided", !.verified = verified])
    /\ UNCHANGED <<db, draft, writer, expired, runs, ran, lost, raced>>

(* An override that changed the outcome is written to the audit spine;     *)
(* then CONFIRM asks, and any other level goes straight on.                *)
Route(e) ==
    /\ session[e].pc = "decided"
    /\ IF OverrideBore(session[e])
       THEN Flush(e, [View(e) EXCEPT !.overrides = @ \cup {session[e].proposal}])
       ELSE UNCHANGED <<draft, writer>>
    /\ Move(e, [session[e] EXCEPT
                  !.pc = IF DecidedLevel(session[e]) = CONFIRM
                         THEN "asking" ELSE "cleared"])
    /\ UNCHANGED <<db, expired, runs, ran, lost, raced>>

(* The CLI prompt (or --yes): an answer nothing records.                   *)
AnswerPrompt(e) ==
    /\ session[e].pc = "asking" /\ session[e].kind # "channel"
    /\ \E a \in {"approve", "deny"} :
          Move(e, [session[e] EXCEPT !.pc = "answered", !.answer = a])
    /\ UNCHANGED <<db, draft, writer, expired, runs, ran, lost, raced>>

(* A tap on the phone.  The button ids name the proposal, not the session: *)
(* every session listening for p hears the same event.                     *)
Tap(p, a) ==
    LET hears(e) == /\ session[e].pc = "asking" /\ session[e].kind = "channel"
                    /\ session[e].proposal = p
    IN  /\ \E e \in Sessions : hears(e)
        /\ session' = [e \in Sessions |->
                         IF hears(e)
                         THEN [session[e] EXCEPT !.pc = "answered", !.answer = a]
                         ELSE session[e]]
        /\ UNCHANGED <<db, draft, writer, expired, runs, ran, lost, raced>>

(* Mutant: the listener waits for an answer without a timeout.             *)
AskForever(e) == /\ session[e].pc = "asking" /\ session[e].kind = "channel"
                 /\ UNCHANGED vars

(* No tap within timeout_s: the same ApprovalResult as a Deny, without a   *)
(* responder.                                                              *)
AskTimeout(e) ==
    /\ session[e].pc = "asking" /\ session[e].kind = "channel"
    /\ Move(e, [session[e] EXCEPT !.pc = "answered", !.answer = "timeout"])
    /\ UNCHANGED <<db, draft, writer, expired, runs, ran, lost, raced>>

(* The channel cannot deliver, or is not configured: refused, unrecorded.  *)
ChannelFails(e) ==
    /\ session[e].pc = "asking" /\ session[e].kind = "channel"
    /\ Move(e, [session[e] EXCEPT !.pc = "closing"])
    /\ UNCHANGED <<db, draft, writer, expired, runs, ran, lost, raced>>

(* Mutant: a timeout is a yes.                                             *)
ConsentsUnlessDenied(a) == a # "deny"

Consents(a) == a = "approve"

(* Mutant: only the answers that refuse are recorded.                      *)
WithRefusal(d, p, a) == IF a = "approve" THEN d ELSE [d EXCEPT !.approvals[p][a] = @ + 1]

(* The "approval" event of a channel's answer, whatever it says.           *)
WithAnswer(d, p, a) == [d EXCEPT !.approvals[p][a] = @ + 1]

(* _confirm() returns: a channel's answer is recorded; anything but a yes  *)
(* refuses, and the proposal stays pending.                                *)
Confirm(e) ==
    LET p == session[e].proposal
        a == session[e].answer
    IN  /\ session[e].pc = "answered"
        /\ IF session[e].kind = "channel"
           THEN Flush(e, WithAnswer(View(e), p, a))
           ELSE UNCHANGED <<draft, writer>>
        /\ Move(e, [session[e] EXCEPT !.pc = IF Consents(a) THEN "cleared" ELSE "closing"])
        /\ UNCHANGED <<db, expired, runs, ran, lost, raced>>

(* Mutant: the window is not looked at again.                              *)
HaltsNever(e, w) == e \notin Sessions

Halts(e, w) == w # NoWindow /\ ~Open(View(e), w)

(* The kill switch's checkpoint: the window the decision is tagged with    *)
(* must still be open.  Nothing else is read again.                        *)
Checkpoint(e) ==
    /\ session[e].pc = "cleared"
    /\ Move(e, [session[e] EXCEPT
                  !.pc = IF Halts(e, DecisionWindow(session[e].ctx))
                         THEN "closing" ELSE "capturing"])
    /\ UNCHANGED <<db, draft, writer, expired, runs, ran, lost, raced>>

(* capture_rollback() has returned (its errors are kept in the plan); the  *)
(* one adapter write runs and is classified.                               *)
Dispatch(e) ==
    LET p == session[e].proposal
    IN  /\ session[e].pc = "capturing"
        /\ \E r \in Result :
              /\ r = "refused" => p \in Preflighted
              /\ Move(e, [session[e] EXCEPT !.pc = "dispatched", !.result = r])
              /\ ran' = [ran EXCEPT ![p][r] = @ + 1]
        /\ UNCHANGED <<db, draft, writer, expired, runs, lost, raced>>

(* Mutant: a failed run closes its proposal too.                           *)
OutcomeAlwaysDone(o, r) == IF r = "refused" THEN o ELSE "executed"

(* Mutant: a successful run leaves its proposal pending.                   *)
OutcomeKept(o, r) == o

(* A success closes the proposal, over whatever the row holds by now: the  *)
(* object in memory still says "pending".                                  *)
OutcomeAfter(o, r) == IF r = "succeeded" THEN "executed" ELSE o

CellAfter(c, row, r) == CASE r = "succeeded" -> CleanOutcome(c, row)
                          [] r = "failed"    -> BadOutcome
                          [] r = "refused"   -> row

(* Mutant: a preflight refusal leaves no receipt.                          *)
RecordedUnlessRefused(d, p, r) ==
    IF r = "refused" THEN d
    ELSE [d EXCEPT !.receipts[p][r] = @ + 1,
                   !.outcome[p]     = OutcomeAfter(@, r),
                   !.cell[CellOf[p]] = CellAfter(CellOf[p], @, r)]

(* The receipt, the proposal's outcome and the cell's, in one transaction. *)
Recorded(d, p, r) == [d EXCEPT !.receipts[p][r]  = @ + 1,
                               !.outcome[p]      = OutcomeAfter(@, r),
                               !.cell[CellOf[p]] = CellAfter(CellOf[p], @, r)]

Record(e) ==
    /\ session[e].pc = "dispatched"
    /\ Flush(e, Recorded(View(e), session[e].proposal, session[e].result))
    /\ Move(e, [session[e] EXCEPT !.pc = "closing"])
    /\ UNCHANGED <<db, expired, runs, ran, lost, raced>>

(* session_scope() exits cleanly: the transaction, if any, commits.        *)
Commit(e) ==
    /\ session[e].pc = "closing"
    /\ IF writer = e THEN db' = draft /\ writer' = NoSession
                     ELSE UNCHANGED <<db, writer>>
    /\ Move(e, Idle)
    /\ UNCHANGED <<draft, expired, runs, ran, lost, raced>>
-----------------------------------------------------------------------------
(* `helper exec accept|reject`: the proposal it resolved is settled by     *)
(* hand, the cell credited or its streak broken.                           *)
Judged(d, p, k) ==
    LET c == CellOf[p]
    IN  IF k = "accept"
        THEN [d EXCEPT !.outcome[p] = "accepted", !.cell[c] = CleanOutcome(c, @)]
        ELSE [d EXCEPT !.outcome[p] = "rejected", !.cell[c] = Rejection(@)]

Judge(e) ==
    /\ session[e].pc = "judging"
    /\ Flush(e, Judged(View(e), session[e].proposal, session[e].kind))
    /\ Move(e, [session[e] EXCEPT !.pc = "closing"])
    /\ UNCHANGED <<db, expired, runs, ran, lost, raced>>
-----------------------------------------------------------------------------
(* Mutant: a transaction rolled back leaves its writes behind.             *)
RollBackKeepsDraft(e) == /\ writer' = IF writer = e THEN NoSession ELSE writer
                         /\ UNCHANGED draft

(* Mutant: a session that fails keeps its lock.                            *)
RollBackKeepsLock(e) == e \in Sessions /\ UNCHANGED <<writer, draft>>

RollBack(e) == IF writer = e THEN writer' = NoSession /\ draft' = db
                             ELSE UNCHANGED <<writer, draft>>

(* An exception that leaves session_scope, or the death of the process:    *)
(* the open transaction is rolled back.  What the target did stays done.   *)
Abort(e) ==
    /\ RollBack(e)
    /\ lost' = IF session[e].result = "none" THEN lost
               ELSE [lost EXCEPT ![session[e].proposal][session[e].result] = @ + 1]
    /\ Move(e, Idle)
    /\ UNCHANGED <<db, expired, runs, ran, raced>>

Crash(e) == session[e].pc # "idle" /\ Abort(e)

(* The steps that must flush, and give up with "database is locked" when   *)
(* another session keeps the lock past the driver's busy timeout.          *)
MustFlush(x) == \/ x.pc = "decided" /\ OverrideBore(x)
                \/ x.pc = "answered" /\ x.kind = "channel"
                \/ x.pc \in {"dispatched", "judging"}

Busy(e) == MustFlush(session[e]) /\ ~MayWrite(e) /\ Abort(e)
-----------------------------------------------------------------------------
(* Mutant: a command commits under an open transaction, which then commits *)
(* over it.                                                                *)
OperatorUnlocked(d) == /\ db' = d
                       /\ draft' = IF writer = NoSession THEN d ELSE draft
                       /\ UNCHANGED <<writer, session, expired, runs, ran, lost, raced>>

(* The operator's short commands: one transaction, committed at once.      *)
Operator(d) == /\ writer = NoSession
               /\ db' = d
               /\ draft' = d
               /\ UNCHANGED <<writer, session, expired, runs, ran, lost, raced>>

Grant(c, level) ==
    MayGrant(c, level) /\ Operator([db EXCEPT !.cell[c] = GrantedRow(@, level)])

SetBoundary(h, b) == Operator([db EXCEPT !.bound[h] = {b}])

OpenWindow(w) == /\ db.window[w] = "unopened"
                 /\ Operator([db EXCEPT !.window[w] = "open"])

RevokeWindow(w) == /\ db.window[w] = "open"
                   /\ Operator([db EXCEPT !.window[w] = "revoked"])

KillSwitch ==
    /\ \E w \in Windows : Open(db, w)
    /\ Operator([db EXCEPT !.window = [w \in Windows |-> IF Open(db, w)
                                                         THEN "revoked" ELSE @[w]]])

Expire(w) ==
    /\ db.window[w] # "unopened" /\ w \notin expired
    /\ expired' = expired \cup {w}
    /\ UNCHANGED <<db, draft, writer, session, runs, ran, lost, raced>>
-----------------------------------------------------------------------------
GateAny(e) == \E w \in Windows \cup {NoWindow} : Gate(e, w)

(* What a session does by itself, a human's answers apart: every wait in   *)
(* it is bounded by a timeout of the adapter, the channel or the database. *)
Handler(e) == \/ session[e].kind # "override" /\ GateAny(e)
              \/ Probe(e) \/ Route(e) \/ AskTimeout(e) \/ Confirm(e)
              \/ Checkpoint(e) \/ Dispatch(e) \/ Record(e) \/ Judge(e)
              \/ Commit(e) \/ Busy(e)

Human == \/ \E e \in Sessions : \/ session[e].kind = "override" /\ GateAny(e)
                                \/ Mistype(e)
                                \/ AnswerPrompt(e)
         \/ \E p \in Proposals, a \in {"approve", "deny"} : Tap(p, a)
         \/ \E c \in Cells, level \in GrantLevels : Grant(c, level)
         \/ \E h \in Hosts, b \in Ceilings : SetBoundary(h, b)
         \/ \E w \in Windows : OpenWindow(w) \/ RevokeWindow(w)
         \/ KillSwitch

Start(e) == \E p \in Proposals, k \in AllKinds : Resolve(e, p, k)

NextUp == \/ \E e \in Sessions : Start(e) \/ Handler(e) \/ ChannelFails(e)
          \/ Human
          \/ \E w \in Windows : Expire(w)

Next == NextUp \/ \E e \in Sessions : Crash(e)

Spec == Init /\ [][Next]_vars

(* The same system on a day when no process dies.                          *)
UpSpec == Init /\ [][NextUp]_vars

FairSpec == Spec /\ \A e \in Sessions : WF_vars(Handler(e))
-----------------------------------------------------------------------------
(* Types, and the discipline of the one write transaction: without a       *)
(* writer there is no draft apart from the database.                       *)
TypeOK ==
    /\ db \in Database /\ draft \in Database
    /\ writer \in Sessions \cup {NoSession}
    /\ writer = NoSession => draft = db
    /\ session \in [Sessions -> Session]
    /\ expired \subseteq Windows
    /\ runs \in 0 .. MaxRuns
    /\ ran \in [Proposals -> [Result -> Nat]]
    /\ lost \in [Proposals -> [Result -> Nat]]
    /\ raced \subseteq Proposals

(* An absolute floor is never crossed: a proposal whose domain stops at    *)
(* PROPOSE is never dispatched, whatever was granted, opened or overridden,*)
(* before the run or during it ("secrets ... no runtime gesture, ever").   *)
AbsoluteFloorHolds ==
    \A p \in Proposals :
        MaxLevel[CellOf[p]] = PROPOSE => \A r \in Result : ran[p][r] = 0

(* Sessions past the gate and its prompt.                                  *)
PastGate(x) == x.pc \in {"cleared", "capturing", "dispatched"} \/ x.result # "none"

(* Whatever reaches the target holds the authority decide() asked for: a   *)
(* human's yes at CONFIRM, a verified rollback, a window or the owner's    *)
(* override at AUTONOMOUS, and never more than an absolute host ceiling.   *)
Authorised ==
    \A e \in Sessions :
        LET x == session[e]
        IN  PastGate(x) =>
              /\ Executes(DecidedLevel(x))
              /\ DecidedLevel(x) = CONFIRM => x.answer = "approve"
              /\ DecidedLevel(x) = AUTONOMOUS =>
                    x.verified \/ DecisionWindow(x.ctx) # NoWindow \/ x.kind = "override"
              /\ \A b \in x.ctx.bounds : b.absolute => DecidedLevel(x) <= b.ceiling

(* The audit spine holds what authorised a run before the run reaches the  *)
(* target: the override that changed the outcome, the channel's approval.  *)
AuthorityOnRecord ==
    \A e \in Sessions :
        LET x == session[e]
        IN  PastGate(x) =>
              /\ OverrideBore(x) => x.proposal \in View(e).overrides
              /\ (x.kind = "channel" /\ DecidedLevel(x) = CONFIRM)
                    => View(e).approvals[x.proposal]["approve"] > 0

(* Every dispatch is accounted for, exactly once: by a committed receipt,  *)
(* by a session still on its way to one, or by a transaction that was      *)
(* rolled back.                                                            *)
ReceiptsBalance ==
    \A p \in Proposals, r \in Result :
        ran[p][r] = db.receipts[p][r] + lost[p][r]
                    + Cardinality({e \in Sessions : session[e].proposal = p
                                                    /\ session[e].result = r})

(* A proposal the executor marked as done has its receipt in the same      *)
(* commit.                                                                 *)
ExecutedHasReceipt ==
    \A p \in Proposals :
        db.outcome[p] = "executed" => db.receipts[p]["succeeded"] > 0

(* Unless two sessions held the proposal at once, or a commit was lost, it *)
(* succeeds at most once.                                                  *)
SequentialRunsOnce ==
    \A p \in Proposals \ raced :
        lost[p]["succeeded"] = 0 => ran[p]["succeeded"] <= 1

(* Unless two sessions held it at once, a decided proposal stays decided.  *)
DecidedIsFinal ==
    [][\A p \in Proposals \ raced' :
          db.outcome[p] # "pending" => db'.outcome[p] = db.outcome[p]]_vars

(* A window that closes before a session's checkpoint stops that session,  *)
(* however far past its decision it is.                                    *)
ClosedWindowHalts ==
    [][\A e \in Sessions :
          /\ session[e].pc \notin {"idle", "judging", "capturing"}
          /\ DecisionWindow(session[e].ctx) # NoWindow
          /\ ~Open(db, DecisionWindow(session[e].ctx))
          => session'[e].pc # "capturing"]_vars

(* However the sessions interleave, abort and overlap, the cell rows only  *)
(* ever take the steps of CellTrust: no outcome is lost, doubled or merged.*)
Floor == INSTANCE CellTrust WITH cell <- db.cell
ImplementsCellTrust == Floor!Spec

(* A session that waits for nobody at a terminal ends.                     *)
SessionsEnd ==
    \A e \in Sessions :
        (session[e].kind \in {"channel", "accept", "reject"} /\ session[e].pc # "idle")
            ~> session[e].pc = "idle"

(* The write lock is given back, unless an override's prompt is open.      *)
LockReleased ==
    \A e \in Sessions :
        (writer = e /\ session[e].kind # "override") ~> writer # e
-----------------------------------------------------------------------------
(* The statements below are what the sources say, and what the code   *)
(* does not keep.  Each is checked by a run that exhibits the behaviour.   *)

(* executor.py: "Every dispatch - success or failure - writes exactly one  *)
(* ExecutionReceipt"; "a surprise is still a failed receipt, never a lost  *)
(* one".  Checked with no crash at all.                                    *)
EveryDispatchReceipted ==
    \A p \in Proposals, r \in Result : lost[p][r] = 0

(* kill_switch(): "the executor re-checks its window immediately before    *)
(* dispatch, so a run authorized under a window that has since been killed *)
(* refuses instead of dispatching".                                        *)
KilledWindowNeverDispatches ==
    [][\A e \in Sessions :
          /\ session[e].pc # "dispatched" /\ session'[e].pc = "dispatched"
          /\ DecisionWindow(session[e].ctx) # NoWindow
          => Open(db, DecisionWindow(session[e].ctx))]_vars

(* execute_proposal(): "Raises ... ExecutionRefused whenever nothing may   *)
(* run (..., non-pending proposal)".                                       *)
DispatchesOnlyPending ==
    [][\A e \in Sessions :
          session[e].pc # "dispatched" /\ session'[e].pc = "dispatched"
              => db.outcome[session[e].proposal] = "pending"]_vars
=============================================================================
