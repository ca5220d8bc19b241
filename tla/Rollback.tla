------------------------------ MODULE Rollback ------------------------------
(***************************************************************************)
(* Undoing an executed action: engine/rollback.py, rollback_receipt() of   *)
(* engine/executor.py and `helper exec rollback`.                          *)
(*                                                                         *)
(* A run probes the target before it is authorised (verify_rollback), may  *)
(* take a snapshot once it is (capture_rollback), dispatches, and leaves a *)
(* receipt that carries the plan.  How a run is gated, and what happens    *)
(* between its dispatch and its receipt, is Executor's; here a run is the  *)
(* probe, the wait that follows it, and the rest.  An undo is a process of *)
(* its own: it loads a receipt, waits for its operator, restores, and only *)
(* then writes.                                                            *)
(*                                                                         *)
(* Ten strategies are five here.  "prior-state" is the six that read one   *)
(* setting and put it back (power, config, replicas, rollout revision,     *)
(* Argo CD history, DNS record); the other four are as in the source.      *)
(***************************************************************************)
EXTENDS CellLadder, Sequences

CONSTANTS Requests,    \* proposals, all of one target and one trust cell
          Cell,        \* that cell
          Undoers,     \* processes running `helper exec rollback`
          Settings,    \* what the target may be set to
          Nothing,     \* no captured value: the None of the plan's state
          NoReceipt,
          MaxReceipts, \* bound: receipts of runs and undos together
          MaxActive    \* bound: runs begun and undos at work together

RollbackAssumption ==
    /\ Cell \in Cells /\ Nothing \notin Settings /\ NoReceipt \notin Nat /\ MaxReceipts \in Nat /\ MaxActive \in Nat

VARIABLES at,        \* the target's setting
          spare,     \* the install in a Talos node's other boot partition
          plan,      \* plan[q]: strategy and wanted setting of a request (fixed)
          run,       \* run[q]: where the request's run stands, and its probe
          receipts,  \* the receipts committed, oldest first
          undo,      \* undo[u]: where an undo stands, and the receipt as it loaded it
          trust,      \* the trust cell's row
          restored,  \* history: restores from each receipt, counted up to 2
          shaky      \* history: receipts two undos held at once, or one lost

rollbackVars == <<at, spare, plan, run, receipts, undo, trust, restored, shaky>>

Strategy == {"prior-state", "prior-node", "snapshot", "prior-image", "no-inverse"}

Prior == Settings \cup {Nothing}

Receipt == [request  : Requests,
            strategy : Strategy,
            verified : BOOLEAN,
            prior    : Prior,         \* state["prior"], what the probe read
            snapshot : Prior,         \* the content of state["snapshot"]
            error    : BOOLEAN,       \* capture_error
            outcome  : {"succeeded", "failed"},
            undoes   : Nat,           \* action["of_receipt"], 0 for a run
            undone   : BOOLEAN,       \* rolled_back_at is not None
            was      : Settings]      \* history: the setting before its dispatch

RunState == [pc : {"pending", "probed", "done"}, verified : BOOLEAN, prior : Prior]
Undo     == [pc : {"idle", "held", "restored"}, receipt : Nat \cup {NoReceipt},
             outcome : {"succeeded", "failed"}, undone : BOOLEAN]

(* An image is only upgraded by image requests; a guest takes the rest.    *)
Plans == [strategy : Strategy, wants : Settings]

Away == [pc |-> "idle", receipt |-> NoReceipt, outcome |-> "failed", undone |-> FALSE]

RollbackInit ==
    /\ at \in Settings
    /\ spare = at
    /\ plan \in {f \in [Requests -> Plans] :
                   (\E q \in Requests : f[q].strategy = "prior-image")
                     => \A q \in Requests : f[q].strategy = "prior-image"}
    /\ run = [q \in Requests |-> [pc |-> "pending", verified |-> FALSE, prior |-> Nothing]]
    /\ receipts = <<>>
    /\ undo = [u \in Undoers |-> Away]
    /\ trust = NewCell(Cell)
    /\ restored = [r \in 1 .. MaxReceipts |-> 0]
    /\ shaky = {}
-----------------------------------------------------------------------------
(* verify_rollback(): whether a strategy may come back verified at all.    *)
(* No-inverse never does; an image only if the node runs another release   *)
(* than the one asked for; a migration only away from where the guest is.  *)
Verifiable(q) ==
    /\ plan[q].strategy # "no-inverse"
    /\ plan[q].strategy \in {"prior-image", "prior-node"} => at # plan[q].wants

(* What the probe leaves in the plan: the setting it read.  A snapshot's   *)
(* probe reads only that snapshots can be listed.                          *)
PriorRead(q, verified) ==
    IF verified /\ plan[q].strategy # "snapshot" THEN at ELSE Nothing

Active == Cardinality({q \in Requests : run[q].pc # "pending"})
            + Cardinality({u \in Undoers : undo[u].pc # "idle"})

(* The probe: read-only, before decide(); a target that cannot be read, or *)
(* is not in a state that names one to restore, comes back unverified.     *)
Probe(q) ==
    /\ run[q].pc = "pending" /\ Active < MaxActive
    /\ \E verified \in BOOLEAN :
          /\ verified => Verifiable(q)
          /\ run' = [run EXCEPT ![q] = [pc |-> "probed", verified |-> verified,
                                        prior |-> PriorRead(q, verified)]]
    /\ UNCHANGED <<at, spare, plan, receipts, undo, trust, restored, shaky>>

(* capture_rollback(): a snapshot is wanted by its strategy, or, under an  *)
(* elevation window, by best effort when nothing was verified.  Only a     *)
(* guest has snapshots.                                                    *)
SnapshotWanted(q, window) ==
    \/ plan[q].strategy = "snapshot" /\ run[q].verified
    \/ window /\ ~run[q].verified

Guest(q) == plan[q].strategy # "prior-image"

(* The run goes on after its prompt: capture, dispatch, receipt.  A        *)
(* snapshot that cannot be taken is a capture error and stops nothing; a   *)
(* failed dispatch may have changed the target or not.                     *)
Execute(q) ==
    /\ run[q].pc = "probed" /\ Len(receipts) < MaxReceipts
    /\ \E window, taken \in BOOLEAN, outcome \in {"succeeded", "failed"}, changed \in BOOLEAN :
          /\ taken => SnapshotWanted(q, window) /\ Guest(q)
          /\ outcome = "succeeded" => changed
          /\ at' = IF changed THEN plan[q].wants ELSE at
          /\ spare' = IF changed /\ ~Guest(q) THEN at ELSE spare
          /\ receipts' = Append(receipts,
               [request |-> q, strategy |-> plan[q].strategy,
                verified |-> run[q].verified, prior |-> run[q].prior,
                snapshot |-> IF taken THEN at ELSE Nothing,
                error |-> SnapshotWanted(q, window) /\ ~taken,
                outcome |-> outcome, undoes |-> 0, undone |-> FALSE, was |-> at])
          /\ trust' = IF outcome = "succeeded" THEN CleanOutcome(Cell, trust) ELSE BadOutcome
    /\ run' = [run EXCEPT ![q] = [pc |-> "done", verified |-> FALSE, prior |-> Nothing]]
    /\ UNCHANGED <<plan, undo, restored, shaky>>

(* Somebody changes the target by hand.                                    *)
Touch ==
    /\ \E v \in Settings \ {at} : at' = v
    /\ \E q \in Requests : Guest(q)
    /\ \E q \in Requests : run[q].pc # "done"
    /\ UNCHANGED <<spare, plan, run, receipts, undo, trust, restored, shaky>>
-----------------------------------------------------------------------------
(* An operator names a receipt; it is loaded, and the prompt waits.        *)
Hold(u, r) ==
    /\ undo[u].pc = "idle" /\ r \in DOMAIN receipts /\ Active < MaxActive
    /\ undo' = [undo EXCEPT ![u] = [pc |-> "held", receipt |-> r,
                                    outcome |-> receipts[r].outcome,
                                    undone |-> receipts[r].undone]]
    /\ shaky' = IF \E v \in Undoers \ {u} : undo[v].receipt = r THEN shaky \cup {r} ELSE shaky
    /\ UNCHANGED <<at, spare, plan, run, receipts, trust, restored>>

(* Mutant: a receipt rolled back before may be rolled back again.          *)
MayUndoAgain(x) == x.outcome = "succeeded"

(* rollback_receipt()'s two tests, on the receipt as it was loaded.        *)
MayUndo(x) == x.outcome = "succeeded" /\ ~x.undone

(* restore(): whether the captured state names something to go back to.    *)
(* A best-effort snapshot is not looked at under another strategy.         *)
Restorable(r) ==
    CASE r.strategy = "snapshot"   -> r.snapshot # Nothing
      [] r.strategy = "no-inverse" -> FALSE
      [] OTHER                     -> r.prior # Nothing

(* Mutant: the restore's two settings are swapped.                         *)
RestoredToWanted(r) ==
    CASE r.strategy = "snapshot"    -> r.snapshot
      [] r.strategy = "prior-image" -> spare
      [] OTHER                      -> plan[r.request].wants

(* ...and where it takes the target.  talosctl rollback boots the other    *)
(* partition, whatever is in it.                                           *)
RestoredTo(r) ==
    CASE r.strategy = "snapshot"    -> r.snapshot
      [] r.strategy = "prior-image" -> spare
      [] OTHER                      -> r.prior

(* A guest is migrated back only from the node it was migrated to.         *)
Reachable(r) == r.strategy = "prior-node" => at = plan[r.request].wants

(* The operator said no, or the receipt or its plan cannot be undone, or   *)
(* the adapter fails: nothing is changed and nothing is written.           *)
GiveUp(u) ==
    /\ undo[u].pc = "held"
    /\ undo' = [undo EXCEPT ![u] = Away]
    /\ UNCHANGED <<at, spare, plan, run, receipts, trust, restored, shaky>>

(* The restore itself; wait_for_tag() then refuses an image that came up   *)
(* on another release, when the node has already been rebooted into it.    *)
Restore(u) ==
    LET r == undo[u].receipt
    IN  /\ undo[u].pc = "held" /\ MayUndo(undo[u])
        /\ Restorable(receipts[r]) /\ Reachable(receipts[r])
        /\ at' = RestoredTo(receipts[r])
        /\ spare' = IF receipts[r].strategy = "prior-image" THEN at ELSE spare
        /\ undo' = [undo EXCEPT ![u] =
                      IF receipts[r].strategy = "prior-image" /\ at' # receipts[r].prior
                      THEN Away ELSE [@ EXCEPT !.pc = "restored"]]
        /\ restored' = [restored EXCEPT ![r] = Clamp(@ + 1, 2)]
        /\ shaky' = IF undo'[u] = Away THEN shaky \cup {r} ELSE shaky
        /\ UNCHANGED <<plan, run, receipts, trust>>

(* rolled_back_at and rollback_receipt_id of the original.                 *)
Mark(rs, r) == [rs EXCEPT ![r].undone = TRUE]

(* The undo's own receipt, which carries the same plan, and the mark, in   *)
(* one transaction.                                                        *)
RecordUndo(u) ==
    LET r == undo[u].receipt
    IN  /\ undo[u].pc = "restored" /\ Len(receipts) < MaxReceipts
        /\ receipts' = Append(Mark(receipts, r),
                              [receipts[r] EXCEPT !.undoes = r, !.undone = FALSE,
                                                  !.outcome = "succeeded"])
        /\ undo' = [undo EXCEPT ![u] = Away]
        /\ UNCHANGED <<at, spare, plan, run, trust, restored, shaky>>

(* The process dies, or the database is busy, after the restore.           *)
LoseUndo(u) ==
    /\ undo[u].pc = "restored"
    /\ undo' = [undo EXCEPT ![u] = Away]
    /\ shaky' = shaky \cup {undo[u].receipt}
    /\ UNCHANGED <<at, spare, plan, run, receipts, trust, restored>>

UndoStep(u) == \/ \E r \in 1 .. MaxReceipts : Hold(u, r)
               \/ GiveUp(u) \/ Restore(u) \/ RecordUndo(u) \/ LoseUndo(u)

RollbackNext ==
    \/ \E q \in Requests : Probe(q) \/ Execute(q)
    \/ Touch
    \/ \E u \in Undoers : UndoStep(u)

RollbackSpec == RollbackInit /\ [][RollbackNext]_rollbackVars
-----------------------------------------------------------------------------
RollbackTypeOK ==
    /\ at \in Settings /\ spare \in Settings
    /\ plan \in [Requests -> Plans] /\ run \in [Requests -> RunState]
    /\ receipts \in Seq(Receipt) /\ undo \in [Undoers -> Undo]
    /\ \A u \in Undoers : undo[u].pc # "idle" => undo[u].receipt \in DOMAIN receipts
    /\ trust \in CellRow /\ shaky \subseteq Nat
    /\ restored \in [1 .. MaxReceipts -> 0 .. 2]

(* A receipt says rolled back exactly when an undo receipt of it exists:   *)
(* the two are one transaction, however undos interleave and die.          *)
MarkedByItsUndo ==
    \A r \in DOMAIN receipts :
        receipts[r].undone <=> \E n \in DOMAIN receipts : receipts[n].undoes = r

(* A receipt is restored from once: a second restore takes two undos that  *)
(* held it at the same time, or one that lost its record after restoring.  *)
RestoredOnce ==
    \A r \in DOMAIN restored : restored[r] > 1 => r \in shaky

(* "rollback_available", as the operator is told after a run: verified,    *)
(* and no capture error.  Then the receipt does hold what restore() needs. *)
AvailableMeansRestorable ==
    \A r \in DOMAIN receipts :
        receipts[r].verified /\ ~receipts[r].error => Restorable(receipts[r])

(* Both, and what an operator is promised: an undo receipt and the mark on *)
(* the receipt it undoes are one, a receipt is restored from once but for  *)
(* undos that crossed, and what is offered for rollback can be rolled back.*)
UndoneOnce == RestoredOnce /\ MarkedByItsUndo /\ AvailableMeansRestorable

(* An undo that reports success has put the target back where it was just  *)
(* before the action, whatever moved it since, if nothing had between the  *)
(* probe that read it and the dispatch.                                    *)
UndoRestoresStep ==
    \A u \in Undoers :
        LET r == undo[u].receipt
        IN  /\ undo[u].pc = "held" /\ undo'[u].pc = "restored"
            /\ receipts[r].undoes = 0
            /\ receipts[r].prior \in {Nothing, receipts[r].was}
            => at' = receipts[r].was
UndoRestores == [][UndoRestoresStep]_rollbackVars
-----------------------------------------------------------------------------
(* docs/trust-gradient.md: "One bad outcome - a run that fails, a rollback *)
(* that was needed - drops the cell to PROPOSE and puts it on probation".  *)
RollbackDemotes ==
    [][\A r \in DOMAIN receipts :
         receipts[r].undone # receipts'[r].undone => trust'.probation]_rollbackVars
=============================================================================
