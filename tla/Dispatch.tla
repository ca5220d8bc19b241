------------------------------ MODULE Dispatch ------------------------------
(***************************************************************************)
(* The one adapter write of an executed action: _dispatch() and what it    *)
(* calls in engine/executor.py, wait_for_tag() of adapters/talos.py, and   *)
(* the classification into succeeded, failed and refused.                  *)
(*                                                                         *)
(* A node's reboot and a Talos upgrade wait for the node to come back, by  *)
(* polling what the Proxmox API or the node itself says; the API's view    *)
(* of a node trails the node.  Time is counted in polls.                   *)
(***************************************************************************)
EXTENDS Integers

CONSTANTS GoingDown,  \* polls that wait for the node to leave
          Timeout     \* polls in all before the dispatch gives up

ASSUME DispatchAssumption == GoingDown \in Nat /\ Timeout \in Nat /\ GoingDown < Timeout

VARIABLES action,   \* the manifest's action kind, and whether it is well-formed
          target,   \* the target as it is
          seen,     \* the node's status as the Proxmox API last reported it
          pc,       \* where the dispatch stands
          waited,   \* polls made since the write
          outcome,  \* what _dispatch_and_classify() returned
          touched,  \* history: the adapter's write was sent
          left      \* history: the node went down after the write

dispatchVars == <<action, target, seen, pc, waited, outcome, touched, left>>

Kind == {"node-reboot", "node-update", "talos-upgrade", "k8s-upgrade", "resize", "other"}

Release == {"old", "new"}

Target == [up : BOOLEAN, guests : BOOLEAN, login : BOOLEAN, quorate : BOOLEAN,
           release : Release, ready : BOOLEAN, healthy : BOOLEAN, mixed : BOOLEAN,
           room : BOOLEAN]

(* Fields a kind never looks at are fixed, so that only what matters       *)
(* varies.                                                                 *)
Relevant(k, t) ==
    /\ t.up /\ t.quorate
    /\ k \notin {"node-reboot", "node-update"} => ~t.guests /\ t.login
    /\ k \notin {"talos-upgrade", "k8s-upgrade"} => t.release = "old" /\ t.ready
    /\ k # "k8s-upgrade" => t.healthy /\ ~t.mixed
    /\ k # "resize" => t.room

DispatchInit ==
    /\ action \in Kind
    /\ target \in {t \in Target : Relevant(action, t)}
    /\ seen = TRUE
    /\ pc = "preflight" /\ waited = 0 /\ outcome = "none"
    /\ touched = FALSE /\ left = FALSE

End(o) == pc' = "ended" /\ outcome' = o

(* _node_preflight(): a host with a login, and no guest running on it.     *)
NodeDrained == target.login /\ ~target.guests

(* What a preflight refuses before the target is touched, by kind.         *)
Cleared ==
    CASE action \in {"node-reboot", "node-update"} -> NodeDrained
      [] action = "talos-upgrade" -> target.release # "new" /\ target.ready
      [] action = "k8s-upgrade" -> target.release # "new" /\ ~target.mixed /\ target.healthy
      [] OTHER -> TRUE

Refuse ==
    /\ pc = "preflight" /\ ~Cleared
    /\ End("refused")
    /\ UNCHANGED <<action, target, seen, waited, touched, left>>

(* The preflight's own reads fail, or _dispatch_resize() finds more asked  *)
(* than the node has: an exception, and so a failure.                      *)
PreflightFails ==
    /\ pc = "preflight"
    /\ End("failed")
    /\ UNCHANGED <<action, target, seen, waited, touched, left>>

Waits == action \in {"node-reboot", "talos-upgrade"}

(* The write is sent.  A command that exits badly fails at once; one that  *)
(* nobody waits for has succeeded.                                         *)
Write ==
    /\ pc = "preflight" /\ Cleared /\ target.room
    /\ touched' = TRUE
    /\ \/ End("failed")
       \/ IF Waits THEN pc' = "leaving" /\ UNCHANGED outcome
          ELSE IF action = "k8s-upgrade" THEN pc' = "verifying" /\ UNCHANGED outcome
          ELSE End("succeeded")
    /\ UNCHANGED <<action, target, seen, waited, left>>

(* upgrade-k8s has returned; the kubelet must report the version, and the  *)
(* cluster be healthy.                                                     *)
Verify ==
    /\ pc = "verifying"
    /\ \E release \in Release, healthy \in BOOLEAN :
          /\ target' = [target EXCEPT !.release = release, !.healthy = healthy]
          /\ End(IF release = "new" /\ healthy THEN "succeeded" ELSE "failed")
    /\ UNCHANGED <<action, seen, waited, touched, left>>

(* What ends the wait for the node to leave: the API shows it away, or the *)
(* Talos node does not answer, or already reports the new release.         *)
Gone == IF action = "node-reboot" THEN ~seen ELSE ~target.up \/ target.release = "new"

PollLeaving ==
    /\ pc = "leaving" /\ (Gone \/ waited < GoingDown)
    /\ IF Gone THEN pc' = "returning" /\ UNCHANGED waited
               ELSE waited' = waited + 1 /\ UNCHANGED pc
    /\ UNCHANGED <<action, target, seen, outcome, touched, left>>

(* Ninety seconds and the node was never seen to leave: go on all the same. *)
GiveUpLeaving ==
    /\ pc = "leaving" /\ ~Gone /\ waited >= GoingDown
    /\ pc' = "returning"
    /\ UNCHANGED <<action, target, seen, waited, outcome, touched, left>>

(* Mutant: any release will do.                                            *)
BackReady == IF action = "node-reboot" THEN seen /\ target.quorate /\ target.up
             ELSE target.up /\ target.ready

(* _node_is_back(): online, quorate and SSH answers; or, for Talos, the    *)
(* wanted release and ready.                                               *)
Back == IF action = "node-reboot" THEN seen /\ target.quorate /\ target.up
        ELSE target.up /\ target.ready /\ target.release = "new"

PollReturning ==
    /\ pc = "returning" /\ waited < Timeout
    /\ IF Back THEN End("succeeded") /\ UNCHANGED waited
               ELSE waited' = waited + 1 /\ UNCHANGED <<pc, outcome>>
    /\ UNCHANGED <<action, target, seen, touched, left>>

(* Mutant: no timeout on the return.                                       *)
WaitForever ==
    /\ pc = "returning" /\ waited >= Timeout
    /\ UNCHANGED dispatchVars

GiveUpReturning ==
    /\ pc = "returning" /\ waited >= Timeout
    /\ End("failed")
    /\ UNCHANGED <<action, target, seen, waited, touched, left>>
-----------------------------------------------------------------------------
Waiting == pc \in {"leaving", "returning"}

(* The node shuts down, some time after it was told to.                    *)
NodeLeaves ==
    /\ Waiting /\ target.up /\ ~left
    /\ target' = [target EXCEPT !.up = FALSE, !.ready = FALSE,
                                !.quorate = action # "node-reboot"]
    /\ left' = TRUE
    /\ UNCHANGED <<action, seen, pc, waited, outcome, touched>>

(* It boots: a Talos node into the new release, or back into the old one.  *)
NodeBoots ==
    /\ Waiting /\ ~target.up
    /\ \E release \in Release :
          /\ action = "node-reboot" => release = target.release
          /\ target' = [target EXCEPT !.up = TRUE, !.release = release]
    /\ UNCHANGED <<action, seen, pc, waited, outcome, touched, left>>

NodeSettles ==
    /\ Waiting /\ target.up /\ left /\ ~(target.ready /\ target.quorate)
    /\ target' = [target EXCEPT !.ready = TRUE, !.quorate = TRUE]
    /\ UNCHANGED <<action, seen, pc, waited, outcome, touched, left>>

ApiCatchesUp ==
    /\ Waiting /\ seen # target.up /\ seen' = target.up
    /\ UNCHANGED <<action, target, pc, waited, outcome, touched, left>>

DispatchStep == Refuse \/ PreflightFails \/ Write \/ Verify \/ PollLeaving \/ GiveUpLeaving
           \/ PollReturning \/ GiveUpReturning

DispatchNext == DispatchStep \/ NodeLeaves \/ NodeBoots \/ NodeSettles \/ ApiCatchesUp

DispatchSpec == DispatchInit /\ [][DispatchNext]_dispatchVars

FairDispatchSpec == DispatchSpec /\ WF_dispatchVars(DispatchStep)
-----------------------------------------------------------------------------
(* A refusal, which costs the cell nothing and leaves the proposal         *)
(* pending, is only given while the target is as it was; and nothing is    *)
(* written to a node that still runs guests.                               *)
RefusedUntouched ==
    /\ outcome = "refused" => ~touched
    /\ touched /\ action \in {"node-reboot", "node-update"} => ~target.guests

(* "Succeeded" means the node is back: a Talos node on the release asked   *)
(* for and ready; a rebooted node has gone down and come up, unless it     *)
(* took longer than the polls that wait for it to leave.                   *)
SucceededMeansBack ==
    outcome = "succeeded" =>
        /\ action \in {"talos-upgrade", "k8s-upgrade"} => target.release = "new"
        /\ action = "talos-upgrade" => target.ready /\ left
        /\ action = "node-reboot" => target.up /\ (left \/ waited >= GoingDown)

(* What a dispatch reports is so.                                          *)
OutcomesTellTheTruth == SucceededMeansBack /\ RefusedUntouched

(* Whatever the node does, a dispatch ends.                                *)
DispatchEnds == pc # "ended" ~> pc = "ended"
-----------------------------------------------------------------------------
(* executor.py: "so a stale "online" from before the reboot is not         *)
(* mistaken for its return".                                               *)
RebootMeansReturned ==
    outcome = "succeeded" /\ action = "node-reboot" => left
=============================================================================
