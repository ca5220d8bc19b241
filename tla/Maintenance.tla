---------------------------- MODULE Maintenance ----------------------------
(***************************************************************************)
(* Maintenance runs: engine/maintenance.py, `helper maintenance plan|run|  *)
(* abort` and the MCP tools of the same names.  A run is a list of steps,  *)
(* each an ordinary proposal, executed in order through execute_proposal   *)
(* (Executor; here a step succeeds, fails or is refused).                  *)
(*                                                                         *)
(* An executor loads the run once and works on that copy: it writes the    *)
(* whole list of steps back after each step, and commits.  What a step     *)
(* changes on the cluster is accepted as a task (the dispatch does not     *)
(* wait for Proxmox) that ends later, and may fail.                        *)
(***************************************************************************)
EXTENDS DrainPlan, FiniteSets

CONSTANTS Nodes,      \* the other nodes of the cluster
          Room,       \* Room[n]: what node n can take when a plan is made
          NoNewGuests, \* nodes with a no-new-guests intent
          Members,    \* Talos members, in the order plan_talos_maintenance sorts them
          Executors,  \* processes running a run
          NoRun,
          MaxRuns,    \* bound: runs planned
          MaxMishaps  \* bound: crashes, failed tasks and moves by hand

ASSUME MaintenanceAssumption ==
    /\ Room \in [Nodes -> Int] /\ NoNewGuests \subseteq Nodes /\ Node \notin Nodes
    /\ IsFiniteSet(Guests) /\ MaxMem \in [Guests -> Nat] /\ LocalDisk \subseteq Guests
    /\ Members \in Seq(Range(Members)) /\ NoRun \notin Nat
    /\ MaxRuns \in Nat /\ MaxMishaps \in Nat

VARIABLES where,     \* where[g]: the node a guest is on
          up,        \* up[g]: whether it runs
          task,      \* task[g]: the Proxmox task under way on g
          behind,    \* Talos members not on the wanted release yet
          runs,      \* MaintenanceRun rows, in the order they were planned
          proposal,  \* proposal[r][i]: outcome of step i's proposal
          exec,      \* exec[e]: an executor, and its copy of the run
          writer,    \* the executor that holds the write lock
          contested, \* history: runs another process touched under an executor
          mishaps    \* history: crashes, failed tasks, moves by hand

maintenanceVars == <<where, up, task, behind, runs, proposal, exec, writer, contested, mishaps>>

OpenStatus == {"planned", "running"}
Status == OpenStatus \cup {"succeeded", "failed", "aborted"}

NoTask == [kind |-> "none", to |-> Node]

Off == [pc |-> "off", run |-> NoRun, i |-> 0, status |-> "planned", state |-> <<>>,
        result |-> "none"]

(* Guests of the node, running or stopped, before anything is planned.     *)
MaintenanceInit ==
    /\ where = [g \in Guests |-> Node] /\ up \in [Guests -> BOOLEAN]
    /\ task = [g \in Guests |-> NoTask]
    /\ behind \in {{}, Range(Members)}
    /\ runs = <<>> /\ proposal = <<>>
    /\ exec = [e \in Executors |-> Off]
    /\ writer = NoRun
    /\ contested = {} /\ mishaps = 0
-----------------------------------------------------------------------------
(* The guests an online plan finds running on the node, and the orders it  *)
(* may take them in: largest first, equals as Proxmox lists them.          *)
Running == {g \in Guests : where[g] = Node /\ up[g]}

LargestFirst == Orders([g \in Running |-> -MaxMem[g]])

Succeeded(r, kinds) == {i \in DOMAIN runs[r].steps :
                          runs[r].steps[i].kind \in kinds /\ runs[r].state[i] = "succeeded"}

ReturnKinds == {"return-start", "return-migrate"}

(* The guest is where the drain left it; else somebody moved it since.     *)
StillParked(d) == where[d.what] = (IF d.kind = "drain-migrate" THEN d.to ELSE Node)

(* _displaced(): the stopped run's succeeded drain steps whose guest it    *)
(* never brought back and which is still where that run left it.           *)
DrainKinds == {"drain-migrate", "drain-shutdown"}

Displaced(r) ==
    {i \in Succeeded(r, DrainKinds) :
        /\ StillParked(runs[r].steps[i])
        /\ \A j \in Succeeded(r, ReturnKinds) : runs[r].steps[j].what # runs[r].steps[i].what}

LeftBehind(r) == IF r = NoRun THEN {<<>>} ELSE Orders([i \in Displaced(r) |-> i])

(* _refuse_open_run(): one unfinished run at a time.  The Proxmox node and *)
(* the Talos control plane are two nodes.                                  *)
NodeIsFree(plane) ==
    \A r \in DOMAIN runs : runs[r].plane = plane => runs[r].status \notin OpenStatus

(* Mutant: the return leg gets no proposals.                               *)
ProposalsOutward(steps) ==
    LET out == SelectSeq(steps, LAMBDA s : s.kind \notin ReturnKinds)
    IN  [i \in 1 .. Len(out) |-> "pending"]

(* _record_steps(): every step is a proposal of its own.                   *)
Proposals(steps) == [i \in 1 .. Len(steps) |-> "pending"]

(* A plan with anything to do is drafted, with its proposals, and          *)
(* committed.                                                              *)
DraftRun(plane, steps, resumed) ==
    /\ NodeIsFree(plane) /\ Len(runs) < MaxRuns /\ Len(steps) \in Nat \ {0}
    /\ runs' = Append(runs, [plane |-> plane, status |-> "planned", steps |-> steps,
                             state |-> [i \in 1 .. Len(steps) |-> "planned"],
                             resumed |-> resumed, found |-> Running])
    /\ proposal' = Append(proposal, Proposals(steps))
    /\ UNCHANGED <<where, up, task, behind, exec, writer, contested, mishaps>>

PlanNode(named, resumed) ==
    \E order \in LargestFirst, left \in LeftBehind(resumed) :
        LET d == Drain(order, Room, Nodes \ NoNewGuests, named)
            displaced == [k \in 1 .. Len(left) |-> runs[resumed].steps[left[k]]]
        IN  /\ resumed # NoRun => /\ runs[resumed].plane = "proxmox"
                                  /\ runs[resumed].status \notin OpenStatus
            /\ d.ok
            /\ DraftRun("proxmox", NodeSteps(d.steps, displaced), resumed)

(* The members behind, by their places in the order.                       *)
PlanTalos(kubernetes) ==
    \E places \in Orders([k \in {m \in DOMAIN Members : Members[m] \in behind} |-> k]) :
        DraftRun("talos",
                 TalosSteps([k \in 1 .. Len(places) |-> Members[places[k]]], kubernetes), NoRun)
-----------------------------------------------------------------------------
(* A process loads a run and asks for the operator's one consent.          *)
Load(e, r) ==
    /\ exec[e].pc = "off" /\ r \in DOMAIN runs
    /\ runs[r].status \in OpenStatus
    /\ exec' = [exec EXCEPT ![e] = [Off EXCEPT !.pc = "asking", !.run = r,
                                               !.status = runs[r].status,
                                               !.state = runs[r].state]]
    /\ contested' = IF \E f \in Executors : exec[f].run = r
                    THEN contested \cup {r} ELSE contested
    /\ UNCHANGED <<where, up, task, behind, runs, proposal, writer, mishaps>>

(* execute_maintenance() begins: if the run was not running yet, RUNNING   *)
(* is flushed, and the write lock taken, until the first step commits.     *)
Start(e) ==
    /\ exec[e].pc = "asking"
    /\ IF exec[e].status = "planned" THEN writer = NoRun /\ writer' = e
                                     ELSE UNCHANGED writer
    /\ exec' = [exec EXCEPT ![e].pc = "next", ![e].i = 1, ![e].status = "running"]
    /\ UNCHANGED <<where, up, task, behind, runs, proposal, contested, mishaps>>

Mine(e) == runs[exec[e].run]
StepOf(e) == Mine(e).steps[exec[e].i]
MayWrite(e) == writer \in {e, NoRun}

(* The next step: done before, or its proposal loaded and found pending    *)
(* with the cluster healthy (a Talos run asks, after the first step), or a *)
(* failure of the run.                                                     *)
Take(e) ==
    LET x == exec[e]
    IN  /\ x.pc = "next" /\ x.i <= Len(x.state)
        /\ \E healthy \in BOOLEAN :
              /\ ~healthy => Mine(e).plane = "talos" /\ x.i > 1
              /\ exec' = [exec EXCEPT ![e] =
                     IF x.state[x.i] = "succeeded" THEN [x EXCEPT !.i = x.i + 1]
                     ELSE IF healthy /\ proposal[x.run][x.i] = "pending"
                          THEN [x EXCEPT !.pc = "acting"]
                          ELSE [x EXCEPT !.pc = "acted", !.result = "failed"]]
        /\ UNCHANGED <<where, up, task, behind, runs, proposal, writer, contested, mishaps>>

(* What Proxmox accepts: the guest is on the node the artifact names and   *)
(* no task holds it.                                                       *)
Accepts(s) == where[s.what] = s.from /\ task[s.what] = NoTask

TaskKind(kind) == CASE kind \in {"drain-migrate", "return-migrate"} -> "migrate"
                    [] kind = "drain-shutdown" -> "stop"
                    [] kind = "return-start" -> "start"

GuestKinds == ReturnKinds \cup DrainKinds

(* The step's dispatch.  Guest steps succeed when their task is accepted;  *)
(* the node's own are refused while a guest runs on it; any step may be    *)
(* refused by its cell, or fail.                                           *)
Succeeds(s) ==
    CASE s.kind \in GuestKinds -> /\ Accepts(s)
                                  /\ task' = [task EXCEPT ![s.what] =
                                                 [kind |-> TaskKind(s.kind), to |-> s.to]]
                                  /\ UNCHANGED behind
      [] s.kind \in {"node-update", "node-reboot"} -> Running = {} /\ UNCHANGED <<task, behind>>
      [] s.kind = "talos-upgrade" -> s.what \in behind /\ behind' = behind \ {s.what}
                                     /\ UNCHANGED task
      [] s.kind = "k8s-upgrade" -> UNCHANGED <<task, behind>>

Act(e) ==
    /\ exec[e].pc = "acting"
    /\ \/ /\ Succeeds(StepOf(e))
          /\ exec' = [exec EXCEPT ![e].pc = "acted", ![e].result = "succeeded"]
       \/ /\ exec' = [exec EXCEPT ![e].pc = "acted", ![e].result = "failed"]
          /\ UNCHANGED <<task, behind>>
    /\ UNCHANGED <<where, up, runs, proposal, writer, contested, mishaps>>

(* The step succeeded: its receipt, its proposal and the whole list of     *)
(* steps are committed.                                                    *)
CommitStep(e) ==
    LET done == [exec[e].state EXCEPT ![exec[e].i] = "succeeded"]
    IN  /\ exec[e].pc = "acted" /\ exec[e].result = "succeeded" /\ MayWrite(e)
        /\ runs' = [runs EXCEPT ![exec[e].run].state = done,
                                ![exec[e].run].status = IF writer = e THEN "running" ELSE @]
        /\ proposal' = [proposal EXCEPT ![exec[e].run][exec[e].i] = "executed"]
        /\ exec' = [exec EXCEPT ![e].pc = "next", ![e].i = @ + 1, ![e].state = done]
        /\ writer' = NoRun
        /\ UNCHANGED <<where, up, task, behind, contested, mishaps>>

(* Mutant: what was decided meanwhile is rejected too.                     *)
RejectEvery(props, state, from) ==
    [i \in DOMAIN props |-> IF i >= from /\ state[i] = "planned" THEN "rejected" ELSE props[i]]

(* Mutant: the steps after the failed one keep their proposals.            *)
RejectNothing(props, state, from) == IF from > 0 THEN props ELSE state

(* _reject_remaining(): the planned steps from an index on are skipped,    *)
(* and those of their proposals still pending are rejected.                *)
RejectFrom(props, state, from) ==
    [i \in DOMAIN props |-> IF i >= from /\ state[i] = "planned" /\ props[i] = "pending"
                            THEN "rejected" ELSE props[i]]

SkipFrom(state, from) ==
    [i \in DOMAIN state |-> IF i >= from /\ state[i] = "planned" THEN "skipped" ELSE state[i]]

(* The step failed or was refused: the run ends there, in one commit.  The *)
(* failed step's own proposal is left as it is.                            *)
StopRun(e) ==
    LET r == exec[e].run
        i == exec[e].i
    IN  /\ exec[e].pc = "acted" /\ exec[e].result = "failed" /\ MayWrite(e)
        /\ runs' = [runs EXCEPT ![r].state = SkipFrom([exec[e].state EXCEPT ![i] = "failed"], i + 1),
                                ![r].status = "failed"]
        /\ proposal' = [proposal EXCEPT ![r] = RejectFrom(@, exec[e].state, i + 1)]
        /\ exec' = [exec EXCEPT ![e] = Off]
        /\ writer' = NoRun
        /\ UNCHANGED <<where, up, task, behind, contested, mishaps>>

Finish(e) ==
    /\ exec[e].pc = "next" /\ exec[e].i > Len(exec[e].state) /\ MayWrite(e)
    /\ runs' = [runs EXCEPT ![exec[e].run].status = "succeeded"]
    /\ exec' = [exec EXCEPT ![e] = Off]
    /\ writer' = NoRun
    /\ UNCHANGED <<where, up, task, behind, proposal, contested, mishaps>>

(* The operator says no, the lock is not to be had, or the process dies:   *)
(* what was not committed is gone, what was dispatched is not.             *)
Crash(e) ==
    /\ exec[e].pc # "off"
    /\ exec[e].pc # "asking" => mishaps < MaxMishaps
    /\ mishaps' = IF exec[e].pc = "asking" THEN mishaps ELSE mishaps + 1
    /\ exec' = [exec EXCEPT ![e] = Off]
    /\ writer' = IF writer = e THEN NoRun ELSE writer
    /\ UNCHANGED <<where, up, task, behind, runs, proposal, contested>>

(* abort_maintenance(), in a process of its own.                           *)
Abort(r) ==
    /\ r \in DOMAIN runs /\ runs[r].status \in OpenStatus /\ writer = NoRun
    /\ runs' = [runs EXCEPT ![r].state = SkipFrom(@, 1), ![r].status = "aborted"]
    /\ proposal' = [proposal EXCEPT ![r] = RejectFrom(@, runs[r].state, 1)]
    /\ contested' = IF \E e \in Executors : exec[e].run = r
                    THEN contested \cup {r} ELSE contested
    /\ UNCHANGED <<where, up, task, behind, exec, writer, mishaps>>

(* A Proxmox task ends; one that fails leaves the guest as it was.         *)
TaskEnds(g) ==
    /\ task[g] # NoTask
    /\ task' = [task EXCEPT ![g] = NoTask]
    /\ \/ /\ CASE task[g].kind = "migrate" -> /\ where' = [where EXCEPT ![g] = task[g].to]
                                              /\ UNCHANGED up
               [] OTHER -> /\ up' = [up EXCEPT ![g] = (task[g].kind = "start")]
                           /\ UNCHANGED where
          /\ UNCHANGED mishaps
       \/ mishaps < MaxMishaps /\ mishaps' = mishaps + 1 /\ UNCHANGED <<where, up>>
    /\ UNCHANGED <<behind, runs, proposal, exec, writer, contested>>

(* Somebody moves a guest by hand.                                         *)
MoveByHand(g) ==
    /\ mishaps < MaxMishaps /\ mishaps' = mishaps + 1 /\ task[g] = NoTask
    /\ \E n \in Nodes \cup {Node} : n # where[g] /\ where' = [where EXCEPT ![g] = n]
    /\ UNCHANGED <<up, task, behind, runs, proposal, exec, writer, contested>>

ExecutorStep(e) == \/ Start(e) \/ Take(e) \/ Act(e) \/ CommitStep(e) \/ StopRun(e) \/ Finish(e)

MaintenanceNext ==
    \/ \E named \in Nodes \cup {NoNode}, resumed \in DOMAIN runs \cup {NoRun} :
          PlanNode(named, resumed)
    \/ \E kubernetes \in BOOLEAN : PlanTalos(kubernetes)
    \/ \E e \in Executors : \/ \E r \in DOMAIN runs : Load(e, r)
                            \/ ExecutorStep(e) \/ Crash(e)
    \/ \E r \in DOMAIN runs : Abort(r)
    \/ \E g \in Guests : TaskEnds(g) \/ MoveByHand(g)

MaintenanceSpec == MaintenanceInit /\ [][MaintenanceNext]_maintenanceVars
-----------------------------------------------------------------------------
(* Types; a run, its ledger and its proposals have the same steps.         *)
MaintenanceTypeOK ==
    /\ where \in [Guests -> Nodes \cup {Node}] /\ up \in [Guests -> BOOLEAN]
    /\ behind \subseteq Range(Members)
    /\ DOMAIN proposal = DOMAIN runs /\ Len(runs) <= MaxRuns
    /\ \A r \in DOMAIN runs :
          /\ runs[r].status \in Status /\ runs[r].found \subseteq Guests
          /\ DOMAIN runs[r].state = DOMAIN runs[r].steps
          /\ DOMAIN proposal[r] = DOMAIN runs[r].steps
          /\ Range(runs[r].state) \subseteq {"planned", "succeeded", "failed", "skipped"}
          /\ Range(proposal[r]) \subseteq {"pending", "executed", "rejected"}
    /\ writer \in Executors \cup {NoRun}
    /\ contested \subseteq DOMAIN runs /\ mishaps \in 0 .. MaxMishaps

(* The ledger claims no step that was not executed: whoever else runs or   *)
(* aborts the run, a succeeded step's proposal is executed, in the same    *)
(* commit.                                                                 *)
LedgerMatchesProposals ==
    \A r \in DOMAIN runs : \A i \in DOMAIN runs[r].state :
        runs[r].state[i] = "succeeded" => proposal[r][i] = "executed"

(* A run that one process executed, and nobody aborted meanwhile, stopped  *)
(* at its first failure: before it all succeeded, after it all is skipped, *)
(* and a finished run has no other step.                                   *)
StopsWhole ==
    \A r \in DOMAIN runs \ contested :
        /\ runs[r].status = "succeeded" => Range(runs[r].state) = {"succeeded"}
        /\ runs[r].status = "failed" =>
             \E i \in DOMAIN runs[r].state :
                /\ runs[r].state[i] = "failed"
                /\ \A j \in DOMAIN runs[r].state :
                      /\ j < i => runs[r].state[j] = "succeeded"
                      /\ j > i => runs[r].state[j] = "skipped" /\ proposal[r][j] = "rejected"

(* No step of an aborted run is begun after the abort: an executor at work *)
(* finds the proposal rejected, one that had loaded the run before the     *)
(* abort too.                                                              *)
AbortHoldsStep ==
    \A e \in Executors :
        exec[e].pc = "next" /\ exec'[e].pc = "acting"
        => runs[exec[e].run].status # "aborted"
AbortHolds == [][AbortHoldsStep]_maintenanceVars

(* One unfinished run of a node at a time, whatever is executed, aborted,  *)
(* finished late or lost: a closed run never opens again beside another.   *)
OneOpenRun ==
    \A r, q \in DOMAIN runs \ contested :
        /\ runs[r].status \in OpenStatus /\ runs[q].status \in OpenStatus
        /\ runs[r].plane = runs[q].plane
        => r = q

(* A run stops at its first failure, claims no step that was not executed, *)
(* and is the only unfinished one of its node.                             *)
StopsAtFirstFailure == StopsWhole /\ LedgerMatchesProposals /\ OneOpenRun

(* A guest that is back, or that its task brings back.                     *)
Home(g) == \/ where[g] = Node /\ up[g] /\ task[g] = NoTask
           \/ task[g].kind = "migrate" /\ task[g].to = Node /\ up[g]
           \/ task[g].kind = "start" /\ where[g] = Node

Quiet == mishaps = 0 /\ contested = {}

(* No later run of the Proxmox node; Talos runs may have followed.         *)
LatestOfNode(r) ==
    runs[r].plane = "proxmox" /\ \A q \in DOMAIN runs : q > r => runs[q].plane # "proxmox"

NothingBetween(q, r) == \A k \in DOMAIN runs : q < k /\ k < r => runs[k].plane # "proxmox"

(* A run that succeeded has brought back every guest it found running on   *)
(* the node, and every one that the stopped run it resumes, if that was    *)
(* the run before it, had drained.                                         *)
GuestsReturned ==
    Quiet => \A r \in DOMAIN runs :
        LatestOfNode(r) /\ runs[r].status = "succeeded"
        => /\ \A g \in runs[r].found : Home(g)
           /\ \A q \in DOMAIN runs :
                 q = runs[r].resumed /\ NothingBetween(q, r)
                 => \A i \in Succeeded(q, DrainKinds) : Home(runs[q].steps[i].what)
-----------------------------------------------------------------------------
(* docs/live-validation.md: "the run stops there with the remaining        *)
(* proposals rejected (... nothing from that run is left pending)".        *)
StoppedRunLeavesNothingPending ==
    \A r \in DOMAIN runs : \A i \in DOMAIN proposal[r] :
        runs[r].status = "failed" => proposal[r][i] # "pending"

(* The guests a chain of resumed runs set out to bring back.               *)
Owed[r \in Nat] ==
    IF r \notin DOMAIN runs THEN {}
    ELSE runs[r].found \cup IF runs[r].resumed = NoRun THEN {} ELSE Owed[runs[r].resumed]

(* README.md: "A run that stopped after its drain is finished by a second  *)
(* one", which "adds the guests it moved and never returned".              *)
ResumedRunsStrandNobody ==
    Quiet => \A r \in DOMAIN runs :
        r = Len(runs) /\ runs[r].status = "succeeded" /\ runs[r].plane = "proxmox"
        => \A g \in Owed[r] : Home(g)
=============================================================================
