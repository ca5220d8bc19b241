----------------------------- MODULE DrainPlan -----------------------------
(***************************************************************************)
(* How engine/maintenance.py plans a run: which guests leave the node and  *)
(* for where, and the steps in order.  Pure functions of what the cluster  *)
(* looked like when the plan was made; Maintenance carries the plans out.  *)
(*                                                                         *)
(* A step's artifact is reduced to the guest (or Talos member) it acts on, *)
(* the node the guest is on and the node it goes to.                       *)
(***************************************************************************)
EXTENDS Integers, SequencesExt

CONSTANTS Node,       \* the node under maintenance
          NoNode,
          Guests,     \* guests, as the numbers of their VMs
          MaxMem,     \* MaxMem[g]: the memory g may use
          LocalDisk   \* guests whose volumes are on node-local storage

(* What sorting by a key may return: of equals, any may come first.        *)
Orders(key) ==
    {s \in SetToSeqs(DOMAIN key) : \A i, j \in DOMAIN s : i < j => key[s[i]] <= key[s[j]]}

Step(kind, what, from, to) == [kind |-> kind, what |-> what, from |-> from, to |-> to]

(* _room_by_node(): what an online node other than this one can still      *)
(* take.  "room" is a function on those nodes, whether open or closed to   *)
(* new guests.                                                             *)
Emptiest(nodes, room) == {n \in nodes : \A m \in nodes : room[m] <= room[n]}

Fits(g, nodes, room) == {n \in nodes : room[n] >= MaxMem[g]}

(* _pick_target(): the node the operator named, even a closed one, if it   *)
(* has room; or else an emptiest open node with room.  No node: no plan.   *)
PickTarget(g, room, open, named) ==
    LET fits == Fits(g, IF named # NoNode THEN {named} \cap DOMAIN room ELSE open, room)
    IN  IF fits = {} THEN NoNode ELSE CHOOSE n \in Emptiest(fits, room) : TRUE

(* _drain_steps(), for the guests in their order (largest first): a guest  *)
(* on a local disk is shut down, any other migrated; the room is taken as  *)
(* it is promised.  "ok" is false once a guest fits nowhere.               *)
Drained(acc, g, open, named) ==
    LET to == PickTarget(g, acc.room, open, named)
    IN  IF g \in LocalDisk
        THEN [acc EXCEPT !.steps = Append(@, Step("drain-shutdown", g, Node, NoNode))]
        ELSE IF to = NoNode THEN [acc EXCEPT !.ok = FALSE]
        ELSE [acc EXCEPT !.steps = Append(@, Step("drain-migrate", g, Node, to)),
                         !.room[to] = @ - MaxMem[g]]

Drain(guests, room, open, named) ==
    LET after[k \in 0 .. Len(guests)] ==
            IF k = 0 THEN [steps |-> <<>>, room |-> room, ok |-> TRUE]
                     ELSE Drained(after[k - 1], guests[k], open, named)
    IN  after[Len(guests)]

(* _return_steps(): the mirror image of the drain, last out first back.    *)
Return(d) ==
    IF d.kind = "drain-shutdown" THEN Step("return-start", d.what, Node, NoNode)
    ELSE Step("return-migrate", d.what, d.to, Node)

(* Mutant: the return leg forgets what was shut down.                      *)
ReturnStepsOfMigrated(drain) ==
    LET migrated == SelectSeq(drain, LAMBDA d : d.kind = "drain-migrate")
    IN  Reverse([i \in DOMAIN migrated |-> Return(migrated[i])])

ReturnSteps(drain) == Reverse([i \in 1 .. Len(drain) |-> Return(drain[i])])

(* plan_maintenance(): the drain, the update, the reboot, and the return   *)
(* of everything drained here or still displaced by the run resumed.       *)
NodeSteps(drain, displaced) ==
    drain \o <<Step("node-update", Node, NoNode, NoNode), Step("node-reboot", Node, NoNode, NoNode)>>
          \o ReturnSteps(drain \o displaced)

(* plan_talos_maintenance(): the members not yet on the release, control   *)
(* planes before workers (members come in that order), Kubernetes last.    *)
TalosSteps(members, kubernetes) ==
    [i \in 1 .. Len(members) |-> Step("talos-upgrade", members[i], NoNode, NoNode)]
    \o IF kubernetes THEN <<Step("k8s-upgrade", Node, NoNode, NoNode)>> ELSE <<>>
=============================================================================
