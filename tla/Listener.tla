------------------------------ MODULE Listener ------------------------------
(***************************************************************************)
(* The approval listener of engine/listener.py, as the daemon runs it: a   *)
(* pass asks about every pending proposal it may ask about, all at once,   *)
(* waits for every answer, then puts the answered ones through the         *)
(* executor one after the other, oldest first, all in ONE database session.*)
(*                                                                         *)
(* Passes overlap: the daemon awaits its first pass itself while the       *)
(* scheduler's job is already running, and `helper daemon run --once` may  *)
(* be another process.  The database is the one of Executor (SQLite, one   *)
(* write lock); of execute_proposal() this module keeps what a pass can    *)
(* tell apart: the gate, the probe, the answer, the dispatch, the record.  *)
(***************************************************************************)
EXTENDS CellLadder, Functions, FiniteSets

CONSTANTS Passes, NoPass,
          Proposals,     \* pending proposals, named by the rank of proposed_at
          CellOf,        \* CellOf[p]: the cell of p's manifest
          Invertible,    \* proposals whose action has an inverse to probe for
          GrantLevels,   \* the levels an operator grants
          MaxAsks,       \* MAX_ASKS (3)
          Limit,         \* candidates of one pass (20)
          MaxRuns        \* bound: dispatches after which no pass begins

ASSUME ListenerAssumption ==
    /\ NoPass \notin Passes /\ IsFiniteSet(Passes)
    /\ Proposals \subseteq Nat \ {0}
    /\ CellOf \in [Proposals -> Cells]
    /\ Invertible \subseteq Proposals /\ GrantLevels \subseteq Level
    /\ MaxAsks \in Nat \ {0} /\ Limit \in Nat \ {0} /\ MaxRuns \in Nat

VARIABLES db,         \* the committed database
          draft,      \* the database inside the open write transaction
          writer,     \* the pass that holds the write lock
          pass,       \* pass[s]: where pass s stands
          ran,        \* history: ran[p][r], dispatches of p that ended in r
          lost,       \* history: lost[p][r], of those, rolled back
          overlapped  \* history: proposals two passes have asked about at once

vars == <<db, draft, writer, pass, ran, lost, overlapped>>

Result == {"succeeded", "failed", "refused"}
Answer == {"approve", "deny", "timeout", "channel failed"}

Database == [outcome  : [Proposals -> {"pending", "accepted", "rejected"}],
             cell     : [Cells -> CellRow],
             asks     : [Proposals -> Nat],       \* unanswered "approval" events
             answered : SUBSET Proposals,         \* with a responder, or approved
             fresh    : SUBSET Proposals,         \* last event within REASK_AFTER
             receipts : [Proposals -> [Result -> Nat]]]

Pass == [pc       : {"idle", "asking", "running", "probing", "cleared", "dispatched"},
         asked    : SUBSET Proposals,     \* ready when the pass began
         todo     : SUBSET Proposals,     \* of those, not run yet
         answer   : [Proposals -> Answer \cup {"none"}],
         level    : Level,                \* of the cell, when its gate was asked
         probation : BOOLEAN,
         made     : [Proposals -> Result \cup {"none"}]]
-----------------------------------------------------------------------------
Idle == [pc |-> "idle", asked |-> {}, todo |-> {},
         answer |-> [p \in Proposals |-> "none"], level |-> BLOCK, probation |-> FALSE,
         made |-> [p \in Proposals |-> "none"]]

Init ==
    /\ db = [outcome  |-> [p \in Proposals |-> "pending"],
             cell     |-> [c \in Cells |-> NewCell(c)],
             asks     |-> [p \in Proposals |-> 0],
             answered |-> {},
             fresh    |-> {},
             receipts |-> [p \in Proposals |-> [r \in Result |-> 0]]]
    /\ draft = db
    /\ writer = NoPass
    /\ pass = [s \in Passes |-> Idle]
    /\ ran  = [p \in Proposals |-> [r \in Result |-> 0]]
    /\ lost = [p \in Proposals |-> [r \in Result |-> 0]]
    /\ overlapped = {}
-----------------------------------------------------------------------------
View(s) == IF writer = s THEN draft ELSE db

MayWrite(s) == writer \in {s, NoPass}

Flush(s, d) == MayWrite(s) /\ writer' = s /\ draft' = d

Move(s, x) == pass' = [pass EXCEPT ![s] = x]

(* decide() on a cell without windows, ceilings or overrides.              *)
DecideFor(p, level, probation, verified) ==
    Decide([level |-> level, probation |-> probation, max |-> MaxLevel[CellOf[p]],
            absolute |-> CellOf[p] \in AbsoluteCells, bounds |-> {},
            window |-> NoWindow, override |-> FALSE], verified)

Pessimistic(d, p) ==
    DecideFor(p, d.cell[CellOf[p]].level, d.cell[CellOf[p]].probation, FALSE)

(* The oldest Limit of the pending proposals, whatever their state.        *)
Candidates(d) ==
    LET pending == {p \in Proposals : d.outcome[p] = "pending"}
    IN  {p \in pending : Cardinality({q \in pending : q < p}) < Limit}

(* Mutant: one ask too many.                                               *)
AsksLeftOffByOne(d, p) == d.asks[p] <= MaxAsks

AsksLeft(d, p) == d.asks[p] < MaxAsks

(* _ask_state() says "ask".                                                *)
MayAsk(d, p) == /\ p \notin d.answered
                /\ AsksLeft(d, p)
                /\ p \notin d.fresh

Ready(d) == {p \in Candidates(d) : MayAsk(d, p) /\ Executes(Pessimistic(d, p))}

Dispatches(p) == SumFunction(ran[p])

(* A pass begins: it collects what is ready and sends every prompt.        *)
Begin(s) ==
    /\ pass[s].pc = "idle" /\ \A p \in Proposals : Dispatches(p) < MaxRuns
    /\ Move(s, [Idle EXCEPT !.pc = "asking", !.asked = Ready(db), !.todo = Ready(db)])
    /\ overlapped' = overlapped \cup
                       {p \in Ready(db) : \E t \in Passes \ {s} : p \in pass[t].asked}
    /\ UNCHANGED <<db, draft, writer, ran, lost>>

Waits(s, p) == /\ pass[s].pc = "asking" /\ p \in pass[s].todo
               /\ pass[s].answer[p] = "none"

(* A tap: the button ids name the proposal, so every pass that waits for   *)
(* p hears it.                                                             *)
Tap(p, a) ==
    /\ \E s \in Passes : Waits(s, p)
    /\ pass' = [s \in Passes |-> IF Waits(s, p)
                                 THEN [pass[s] EXCEPT !.answer[p] = a] ELSE pass[s]]
    /\ UNCHANGED <<db, draft, writer, ran, lost, overlapped>>

(* Mutant: a prompt is waited for without a timeout.                       *)
NeverExpires(s, p) == Waits(s, p) /\ UNCHANGED vars

(* The channel's window passes without a tap, or the channel fails.        *)
Expires(s, p) ==
    /\ Waits(s, p)
    /\ \E a \in {"timeout", "channel failed"} :
          Move(s, [pass[s] EXCEPT !.answer[p] = a])
    /\ UNCHANGED <<db, draft, writer, ran, lost, overlapped>>

(* gather() returns when every prompt has its answer; those whose channel  *)
(* failed are dropped, unrecorded.                                         *)
Gathered(s) ==
    /\ pass[s].pc = "asking"
    /\ \A p \in pass[s].todo : ~Waits(s, p)
    /\ Move(s, [pass[s] EXCEPT
                  !.pc = "running",
                  !.todo = {p \in @ : pass[s].answer[p] # "channel failed"}])
    /\ UNCHANGED <<db, draft, writer, ran, lost, overlapped>>
-----------------------------------------------------------------------------
(* The proposal in hand.                                                   *)
Current(s) == Min(pass[s].todo)

(* A pass goes on to its next proposal.                                    *)
Following(x, p) == [x EXCEPT !.pc = "running", !.todo = @ \ {p}]

(* execute_proposal(): the gate.  The object still says "pending"; a cell  *)
(* that fell meanwhile is declined, and the answer is not recorded.        *)
Gate(s) ==
    LET p   == Current(s)
        row == View(s).cell[CellOf[p]]
    IN  /\ pass[s].pc = "running" /\ pass[s].todo # {}
        /\ Move(s, IF Executes(Pessimistic(View(s), p))
                   THEN [pass[s] EXCEPT !.pc = "probing", !.level = row.level,
                                        !.probation = row.probation]
                   ELSE Following(pass[s], p))
        /\ UNCHANGED <<db, draft, writer, ran, lost, overlapped>>

(* The "approval" event of an answer.                                      *)
WithAnswer(d, p, a) ==
    IF a = "timeout"
    THEN [d EXCEPT !.asks[p] = @ + 1, !.fresh = @ \cup {p}]
    ELSE [d EXCEPT !.answered = @ \cup {p}, !.fresh = @ \cup {p}]

(* Mutant: a prompt nobody answered is consent.                            *)
SilenceConsents(a) == a # "deny"

Consents(a) == a = "approve"

(* The probe answers.  At CONFIRM the answer collected earlier is recorded *)
(* and obeyed; at AUTONOMOUS nobody asks for it.                           *)
Confirm(s, verified) ==
    LET p == Current(s)
        a == pass[s].answer[p]
    IN  /\ pass[s].pc = "probing"
        /\ verified => p \in Invertible
        /\ IF DecideFor(p, pass[s].level, pass[s].probation, verified) = CONFIRM
           THEN /\ Flush(s, WithAnswer(View(s), p, a))
                /\ Move(s, IF Consents(a) THEN [pass[s] EXCEPT !.pc = "cleared"]
                                          ELSE Following(pass[s], p))
           ELSE /\ Move(s, [pass[s] EXCEPT !.pc = "cleared"])
                /\ UNCHANGED <<draft, writer>>
        /\ UNCHANGED <<db, ran, lost, overlapped>>

Dispatch(s) ==
    LET p == Current(s)
    IN  /\ pass[s].pc = "cleared"
        /\ \E r \in Result :
              /\ Move(s, [pass[s] EXCEPT !.pc = "dispatched", !.made[p] = r])
              /\ ran' = [ran EXCEPT ![p][r] = @ + 1]
        /\ UNCHANGED <<db, draft, writer, lost, overlapped>>

(* Mutant: a failed run does not demote.                                   *)
CellKeptOnFailure(c, row, r) == IF r = "succeeded" THEN CleanOutcome(c, row) ELSE row

CellAfter(c, row, r) == CASE r = "succeeded" -> CleanOutcome(c, row)
                          [] r = "failed"    -> BadOutcome
                          [] r = "refused"   -> row

(* Mutant: only what succeeded leaves a receipt.                           *)
SuccessRecorded(d, p, r) ==
    IF r # "succeeded" THEN [d EXCEPT !.cell[CellOf[p]] = CellAfter(CellOf[p], @, r)]
    ELSE [d EXCEPT !.receipts[p][r] = @ + 1, !.outcome[p] = "accepted",
                   !.cell[CellOf[p]] = CellAfter(CellOf[p], @, r)]

Recorded(d, p, r) ==
    [d EXCEPT !.receipts[p][r] = @ + 1,
              !.outcome[p] = IF r = "succeeded" THEN "accepted" ELSE @,
              !.cell[CellOf[p]] = CellAfter(CellOf[p], @, r)]

Record(s) ==
    LET p == Current(s)
    IN  /\ pass[s].pc = "dispatched"
        /\ Flush(s, Recorded(View(s), p, pass[s].made[p]))
        /\ Move(s, Following(pass[s], p))
        /\ UNCHANGED <<db, ran, lost, overlapped>>

(* The pass is over: its one session commits.                              *)
Commit(s) ==
    /\ pass[s].pc = "running" /\ pass[s].todo = {}
    /\ IF writer = s THEN db' = draft /\ writer' = NoPass ELSE UNCHANGED <<db, writer>>
    /\ Move(s, Idle)
    /\ UNCHANGED <<draft, ran, lost, overlapped>>
-----------------------------------------------------------------------------
(* Mutant: the rolled back rows stay in the open database.                 *)
RollBackKeepsDraft(s) ==
    IF writer = s THEN writer' = NoPass /\ UNCHANGED draft ELSE UNCHANGED <<writer, draft>>

RollBack(s) ==
    IF writer = s THEN writer' = NoPass /\ draft' = db ELSE UNCHANGED <<writer, draft>>

(* An exception leaves ask_pending(), or the process dies: everything the  *)
(* pass has recorded is rolled back, whichever proposal was in hand.       *)
Abort(s) ==
    /\ RollBack(s)
    /\ lost' = [p \in Proposals |->
                  [r \in Result |-> lost[p][r] + IF pass[s].made[p] = r THEN 1 ELSE 0]]
    /\ Move(s, Idle)
    /\ UNCHANGED <<db, ran, overlapped>>

Crash(s) == pass[s].pc # "idle" /\ Abort(s)

(* "database is locked".                                                   *)
Busy(s) ==
    /\ ~MayWrite(s)
    /\ \/ pass[s].pc = "dispatched"
       \/ /\ pass[s].pc = "probing"
          /\ \E verified \in BOOLEAN :
                /\ verified => Current(s) \in Invertible
                /\ DecideFor(Current(s), pass[s].level, pass[s].probation, verified) = CONFIRM
    /\ Abort(s)

(* Operators' commands, each a short transaction of its own.               *)
Operator(d) == /\ writer = NoPass /\ db' = d /\ draft' = d
               /\ UNCHANGED <<writer, pass, ran, lost, overlapped>>

Grant(c, level) ==
    MayGrant(c, level) /\ Operator([db EXCEPT !.cell[c] = GrantedRow(@, level)])

Reject(p) == /\ db.outcome[p] = "pending"
             /\ Operator([db EXCEPT !.outcome[p] = "rejected",
                                    !.cell[CellOf[p]] = Rejection(@)])

(* REASK_AFTER goes by.                                                    *)
Elapse == /\ db.fresh \cup draft.fresh # {}
          /\ db' = [db EXCEPT !.fresh = {}]
          /\ draft' = [draft EXCEPT !.fresh = {}]
          /\ UNCHANGED <<writer, pass, ran, lost, overlapped>>
-----------------------------------------------------------------------------
(* What a pass does by itself; every wait in it has a timeout.             *)
Handler(s) == \/ \E p \in Proposals : Expires(s, p)
              \/ Gathered(s) \/ Gate(s)
              \/ \E verified \in BOOLEAN : Confirm(s, verified)
              \/ Dispatch(s) \/ Record(s) \/ Commit(s) \/ Busy(s)

NextUp == \/ \E s \in Passes : Begin(s) \/ Handler(s)
          \/ \E p \in Proposals, a \in {"approve", "deny"} : Tap(p, a)
          \/ \E p \in Proposals : Reject(p)
          \/ \E c \in Cells, level \in GrantLevels : Grant(c, level)
          \/ Elapse

Next == NextUp \/ \E s \in Passes : Crash(s)

Spec == Init /\ [][Next]_vars

FairSpec == Spec /\ \A s \in Passes : WF_vars(Handler(s))
(* The same on a day when no process dies, with a scheduler that begins a  *)
(* pass every minute.                                                      *)
DaemonSpec == /\ Init /\ [][NextUp]_vars
              /\ \A s \in Passes : WF_vars(Handler(s)) /\ WF_vars(Begin(s))
-----------------------------------------------------------------------------
(* Types, and the discipline of the one write transaction.                 *)
TypeOK ==
    /\ db \in Database /\ draft \in Database
    /\ writer \in Passes \cup {NoPass}
    /\ writer = NoPass => draft = db
    /\ pass \in [Passes -> Pass]
    /\ \A s \in Passes : /\ pass[s].todo \subseteq pass[s].asked
                         /\ pass[s].pc \in {"probing", "cleared", "dispatched"}
                              => pass[s].todo # {}
    /\ ran \in [Proposals -> [Result -> Nat]]
    /\ lost \in [Proposals -> [Result -> Nat]]
    /\ overlapped \subseteq Proposals

(* A prompt that expires is asked again "three times at most": however the *)
(* passes overlap and die, the asks on record exceed the limit by no more  *)
(* than the passes that were asking together.                              *)
AsksBounded ==
    \A p \in Proposals : db.asks[p] <= MaxAsks + Cardinality(Passes) - 1

(* "Approve or Deny is final": unless two passes asked about it at once,   *)
(* no pass has in hand a proposal whose answer is on record.               *)
AnswerIsFinal ==
    \A p \in Proposals \ overlapped, s \in Passes :
        p \in pass[s].todo => p \notin db.answered

(* Asking comes to an end.                                                 *)
AskingStops == AsksBounded /\ AnswerIsFinal

(* A run that fails demotes its cell at once: in the same pass, no later   *)
(* proposal of that cell is dispatched, approved or not, and no grant can  *)
(* slip in between, since the pass holds the write lock.                   *)
FailureStopsCell ==
    \A s \in Passes, p, q \in Proposals :
        /\ p < q /\ CellOf[p] = CellOf[q]
        /\ pass[s].made[p] = "failed" /\ p \notin pass[s].todo
        => pass[s].made[q] = "none"

(* Where the cell does not act by itself, nothing runs without a yes.      *)
ConfirmedRuns ==
    \A s \in Passes :
        LET p == Current(s)
        IN  /\ pass[s].pc \in {"cleared", "dispatched"}
            /\ pass[s].level # AUTONOMOUS \/ p \notin Invertible
            => pass[s].answer[p] = "approve"

(* Every dispatch of every pass is accounted for, exactly once: committed, *)
(* carried by a pass that has not committed yet, or rolled back with one.  *)
PassesBalance ==
    \A p \in Proposals, r \in Result :
        ran[p][r] = db.receipts[p][r] + lost[p][r]
                    + Cardinality({s \in Passes : pass[s].made[p] = r})

(* Every pass ends, whoever answers.                                       *)
PassEnds == \A s \in Passes : pass[s].pc # "idle" ~> pass[s].pc = "idle"
-----------------------------------------------------------------------------
(* What the sources say, and the code does not keep.                       *)

(* docs/trust-gradient.md: "Deny, or no answer within the timeout,         *)
(* executes nothing and leaves the proposal pending".                      *)
OnlyApprovedRuns ==
    \A s \in Passes, p \in Proposals :
        pass[s].made[p] # "none" => pass[s].answer[p] = "approve"

MayBeAsked(p) == /\ db.outcome[p] = "pending" /\ MayAsk(db, p)
                 /\ Executes(Pessimistic(db, p))

(* listener.py: "those proposals still reach the phone", "ask about every  *)
(* remaining proposal at once".  A proposal behind others that are         *)
(* answered and still pending is asked about in the end.                   *)
EveryProposalAsked ==
    \A p \in Proposals :
        /\ MayBeAsked(p)
        /\ \A q \in Proposals : q < p => q \in db.answered
        ~> \/ \E s \in Passes : p \in pass[s].todo
           \/ ~MayBeAsked(p)
=============================================================================
