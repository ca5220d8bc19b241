------------------------------ MODULE Findings ------------------------------
(***************************************************************************)
(* Findings and the playbooks that draft proposals for them:               *)
(* engine/category_findings.py, engine/playbooks.py and `helper findings`. *)
(*                                                                         *)
(* A discovery pass hands over the issues it saw and the categories and    *)
(* targets it looked at; that is one transaction with no wait inside.  A   *)
(* playbook pass reads without a lock and writes its drafts behind the     *)
(* database's write lock, so another transaction may commit between the    *)
(* two.  The operator acknowledges, resolves, suppresses, and decides the  *)
(* drafts.  The clock counts the playbooks' quarter hours.                 *)
(***************************************************************************)
EXTENDS Integers, Sequences, FiniteSets, SequencesExt

CONSTANTS Categories, TargetRefs, \* a finding's fingerprint: what is wrong, and where
          Playbooks,   \* processes running a playbook pass: daemon, CLI, MCP
          Actions,     \* what a finding's evidence may propose
          RedraftOnce, \* categories of redraft_after_success = False
          MinAge, Cooldown,
          MaxQuarters, \* bound: quarter hours
          MaxDrafts    \* bound: proposals of one finding

ASSUME FindingsAssumption ==
    /\ MinAge \in Nat /\ Cooldown \in Nat /\ MaxQuarters \in Nat /\ MaxDrafts \in Nat
    /\ RedraftOnce \subseteq Categories /\ Actions # {}

VARIABLES quarter,     \* the clock
          finding,   \* finding[f]: the row of a fingerprint
          drafts,    \* drafts[f]: the ProposalLog rows of a finding, oldest first
          pass,      \* pass[p]: the drafts a playbook pass has yet to write
          since,     \* history: when the finding last came to be open
          raced      \* history: findings or drafts that changed under a pass

findingsVars == <<quarter, finding, drafts, pass, since, raced>>

Pairs == Categories \X TargetRefs

Finding == [status : {"none", "open", "acknowledged", "suppressed", "resolved"},
            first_seen : Nat, action : Actions]
DraftRow == [outcome : {"pending", "accepted", "rejected", "expired"},
             proposed : Nat, decided : Nat, action : Actions]

FindingsInit ==
    /\ quarter = 0
    /\ finding = [f \in Pairs |-> [status |-> "none", first_seen |-> 0,
                                   action |-> CHOOSE a \in Actions : TRUE]]
    /\ drafts = [f \in Pairs |-> <<>>]
    /\ pass = [p \in Playbooks |-> {}]
    /\ since = [f \in Pairs |-> 0]
    /\ raced = {}
-----------------------------------------------------------------------------
(* The findings a pass has loaded and is about to draft for.               *)
Busy == {d[1] : d \in UNION {pass[p] : p \in Playbooks}}

QuarterPasses ==
    /\ quarter < MaxQuarters /\ Busy = {}
    /\ quarter' = quarter + 1
    /\ UNCHANGED <<finding, drafts, pass, since, raced>>

(* Mutant: a finding that comes back keeps the day it was first seen.      *)
ReportedAgain(row, a) ==
    [row EXCEPT !.status = IF @ \in {"none", "resolved"} THEN "open" ELSE @, !.action = a,
                !.first_seen = IF row.status = "none" THEN quarter ELSE @]

(* The row of an issue that was seen: made, reopened, or refreshed.        *)
Reported(row, a) ==
    IF row.status \in {"none", "resolved"}
    THEN [status |-> "open", first_seen |-> quarter, action |-> a]
    ELSE [row EXCEPT !.action = a]

(* A finding is resolved by silence only where the pass looked.            *)
LookedAt(f, cats, targets) == f[1] \in cats /\ f[2] \in targets

(* reconcile_category_findings()                                           *)
Reconcile(cats, targets, issues, a) ==
    /\ finding' = [f \in Pairs |->
          IF f \in issues THEN Reported(finding[f], a)
          ELSE IF /\ LookedAt(f, cats, targets)
                  /\ finding[f].status \in {"open", "acknowledged"}
               THEN [finding[f] EXCEPT !.status = "resolved"]
               ELSE finding[f]]
    /\ since' = [f \in Pairs |->
          IF finding'[f].status = "open" /\ finding[f].status # "open" THEN quarter ELSE since[f]]
    /\ raced' = raced \cup {f \in Busy : finding'[f] # finding[f]}
    /\ UNCHANGED <<quarter, drafts, pass>>

Discover ==
    \E cats \in SUBSET Categories, targets \in SUBSET TargetRefs, a \in Actions :
       \E issues \in SUBSET (cats \X targets) : Reconcile(cats, targets, issues, a)

(* `helper findings ack | resolve | suppress` and their MCP tools set the  *)
(* status whatever it was.                                                 *)
TriageFinding(f, status) ==
    /\ finding[f].status # "none"
    /\ finding' = [finding EXCEPT ![f].status = status]
    /\ raced' = raced \cup ({f} \cap Busy)
    /\ UNCHANGED <<quarter, drafts, pass, since>>

(* A draft is executed, which records it accepted, or turned down.         *)
DecideDraft(f, outcome) ==
    \E i \in DOMAIN drafts[f] :
       /\ drafts[f][i].outcome = "pending"
       /\ drafts' = [drafts EXCEPT ![f][i].outcome = outcome, ![f][i].decided = quarter]
       /\ raced' = raced \cup ({f} \cap Busy)
       /\ UNCHANGED <<quarter, finding, pass, since>>
-----------------------------------------------------------------------------
Decided == {"accepted", "rejected"}

(* Mutant: the cooldown runs from the day the proposal was made.           *)
CoolingSinceProposed(f) ==
    \E i \in DOMAIN drafts[f] :
       /\ drafts[f][i].outcome \in Decided
       /\ \A j \in i + 1 .. Len(drafts[f]) : drafts[f][j].outcome = "expired"
       /\ quarter - drafts[f][i].proposed < Cooldown

(* _blocking_proposal(): newest first, the first row that is pending or    *)
(* decided answers; a withdrawn row is looked past.                        *)
Cooling(f) ==
    \E i \in DOMAIN drafts[f] :
       /\ drafts[f][i].outcome \in Decided
       /\ \A j \in i + 1 .. Len(drafts[f]) : drafts[f][j].outcome = "expired"
       /\ quarter - drafts[f][i].decided < Cooldown

Live(f) ==
    \E i \in DOMAIN drafts[f] :
       /\ drafts[f][i].outcome = "pending"
       /\ \A j \in i + 1 .. Len(drafts[f]) : drafts[f][j].outcome = "expired"

(* _already_done()                                                         *)
AlreadyDone(f) ==
    \E i \in DOMAIN drafts[f] :
       drafts[f][i].outcome = "accepted" /\ drafts[f][i].action = finding[f].action

Draftable(f) ==
    /\ finding[f].status = "open"
    /\ quarter - finding[f].first_seen >= MinAge
    /\ ~Live(f) /\ ~Cooling(f)
    /\ f[1] \in RedraftOnce => ~AlreadyDone(f)

(* _withdraw_stale()                                                       *)
Stale(f) == finding[f].status = "resolved" /\ \E i \in DOMAIN drafts[f] : drafts[f][i].outcome = "pending"

Withdrawn(rows) ==
    [i \in DOMAIN rows |->
        IF rows[i].outcome = "pending"
        THEN [rows[i] EXCEPT !.outcome = "expired", !.decided = quarter] ELSE rows[i]]

NewDraft(a) == [outcome |-> "pending", proposed |-> quarter, decided |-> quarter, action |-> a]

(* ds pairs each finding to draft for with the action it proposes.         *)
WithDrafts(rows, ds) ==
    [f \in Pairs |-> IF \E d \in ds : d[1] = f
                     THEN Append(rows[f], NewDraft((CHOOSE d \in ds : d[1] = f)[2])) ELSE rows[f]]

Drafts(fs) == {<<f, finding[f].action>> : f \in fs}

HasRoom(f) == Len(drafts[f]) < MaxDrafts

(* A pass that withdraws something holds the write lock from there on, and *)
(* is done before anybody else writes.                                     *)
RunPlaybooks(p) ==
    /\ pass[p] = {} /\ \E f \in Pairs : Stale(f)
    /\ \A f \in Pairs : Draftable(f) => HasRoom(f)
    /\ drafts' = WithDrafts([f \in Pairs |-> IF Stale(f) THEN Withdrawn(drafts[f]) ELSE drafts[f]],
                            Drafts({f \in Pairs : Draftable(f)}))
    /\ raced' = raced \cup {f \in Busy : drafts'[f] # drafts[f]}
    /\ UNCHANGED <<quarter, finding, pass, since>>

(* Any other pass has only read when it comes to its first draft.          *)
ReadFindings(p) ==
    /\ pass[p] = {} /\ \A f \in Pairs : ~Stale(f)
    /\ pass' = [pass EXCEPT ![p] = Drafts({f \in Pairs : Draftable(f) /\ HasRoom(f)})]
    /\ pass'[p] # {}
    /\ UNCHANGED <<quarter, finding, drafts, since, raced>>

(* The first draft waits for the lock with its checks behind it; the       *)
(* others are looked at again under it.                                    *)
WriteDrafts(p) ==
    \E first \in pass[p] :
       LET now == {first} \cup {d \in pass[p] : ~Live(d[1]) /\ ~Cooling(d[1])} IN
       /\ \A d \in now : HasRoom(d[1])
       /\ drafts' = WithDrafts(drafts, now)
       /\ pass' = [pass EXCEPT ![p] = {}]
       /\ raced' = raced \cup {d[1] : d \in now \cap UNION {pass[q] : q \in Playbooks \ {p}}}
       /\ UNCHANGED <<quarter, finding, since>>

FindingsNext ==
    \/ QuarterPasses
    \/ Discover
    \/ \E f \in Pairs : \/ \E s \in {"acknowledged", "resolved", "suppressed"} : TriageFinding(f, s)
                        \/ \E o \in Decided : DecideDraft(f, o)
    \/ \E p \in Playbooks : RunPlaybooks(p) \/ ReadFindings(p) \/ WriteDrafts(p)

FindingsSpec == FindingsInit /\ [][FindingsNext]_findingsVars
-----------------------------------------------------------------------------
FindingsTypeOK ==
    /\ quarter \in 0 .. MaxQuarters
    /\ finding \in [Pairs -> Finding]
    /\ \A f \in Pairs : drafts[f] \in Seq(DraftRow)
    /\ pass \in [Playbooks -> SUBSET (Pairs \X Actions)]
    /\ since \in [Pairs -> Nat] /\ raced \subseteq Pairs

(* A finding never has two proposals waiting at once, and a decided one is *)
(* followed by the next no sooner than the cooldown, and for a category    *)
(* that redrafts once never by the action that was carried out, unless two *)
(* playbook passes ran over each other or the row changed under one.       *)
OneLiveProposal ==
    \A f \in Pairs \ raced : \A i, j \in DOMAIN drafts[f] : i < j =>
       /\ drafts[f][i].outcome # "pending"
       /\ drafts[f][i].outcome \in Decided
            => drafts[f][j].proposed >= drafts[f][i].decided + Cooldown
       /\ f[1] \in RedraftOnce /\ drafts[f][i].outcome = "accepted"
            => drafts[f][j].action # drafts[f][i].action

(* What is proposed has been wrong for MinAge without a break: a finding   *)
(* that healed and came back starts its wait over.                         *)
DraftStep ==
    \A f \in Pairs \ raced' : Len(drafts'[f]) > Len(drafts[f])
       => finding[f].status = "open" /\ quarter >= since[f] + MinAge
DraftedOnPurpose == [][DraftStep]_findingsVars

=============================================================================
