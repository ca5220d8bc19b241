------------------------------- MODULE HostPush -------------------------------
(***************************************************************************)
(* A host on its way to NetBox (`helper netbox sync-host`, cli/netbox.py   *)
(* and adapters/netbox.py): its custom fields are patched and its open     *)
(* placements mirrored as inventory items, which are the harness's own by  *)
(* their "discovered" mark.                                                *)
(*                                                                         *)
(* Every call to NetBox is a step, and any may fail: the push then ends    *)
(* where it is.  A person works in NetBox, and a second push may run.      *)
(***************************************************************************)
EXTENDS Naturals, FiniteSets, FiniteSetsExt

CONSTANTS Own, Other,  \* device names: the host's, and one that differs in case
          Fields,      \* the custom fields that the harness needs
          Slots, Parts, None,
          Pushers,
          MaxIds,      \* bound: inventory items ever made
          MaxEdits,    \* bound: acts of a person in NetBox, and changes of the host
          MaxPushes    \* bound: pushes

VARIABLES placed,   \* the host's open placements
          host,     \* its fields, as one value
          defined,  \* the custom fields that NetBox has
          device,   \* per name, the device's fields, Unset, or None: no such device
          item,     \* NetBox's inventory items, by id
          push,     \* per pusher, the push under way
          made,     \* the last id that NetBox gave
          edits, pushes,
          done      \* history: what the last push left, while nobody has touched it

vars == <<placed, host, defined, device, item, push, made, edits, pushes, done>>

Unset   == 0
Devices == {Own, Other}

Ids     == 1..MaxIds
Item    == [device : Devices, slot : Slots, part : Parts, discovered : BOOLEAN]

HostPushAssumption ==
    /\ Own # Other /\ Unset \notin Parts
    /\ None \notin Devices /\ None \notin Parts /\ None \notin Item /\ None # Unset
    /\ Slots \subseteq Nat /\ Parts \subseteq Nat /\ Slots # {} /\ Parts # {}
    /\ MaxIds \in Nat /\ MaxEdits \in Nat /\ MaxPushes \in Nat

Resting == [stage |-> "resting", device |-> None, host |-> None, wanted |-> <<>>,
            passes |-> {}, todo |-> {}, twins |-> FALSE, quiet |-> TRUE]

(* Two placements may be open in one slot; the one read last is pushed.    *)
Desired == {w \in [{p.slot : p \in placed} -> Parts] :
               \A s \in DOMAIN w : [slot |-> s, part |-> w[s]] \in placed}

(* The custom fields that bootstrap has yet to make.                       *)
Missing == Fields \ defined

(* get_device_by_name(): the exact name, or whatever NetBox found.         *)
Found == IF device[Own] # None THEN Own ELSE IF device[Other] # None THEN Other ELSE None

(* list_inventory_items() asks for the discovered ones.                    *)
Listed(d) == {i \in Ids : item[i] # None /\ item[i].device = d /\ item[i].discovered}

Row(d, s) == {i \in Listed(d) : item[i].slot = s}
Twins(d)  == \E i, j \in Listed(d) : i # j /\ item[i].slot = item[j].slot
-----------------------------------------------------------------------------
To(p, changes) == push' = [push EXCEPT ![p] = changes]

Begin(p) ==
    /\ push[p].stage = "resting" /\ pushes < MaxPushes /\ pushes' = pushes + 1
    /\ \E passes \in SUBSET {"fields", "items"}, w \in Desired :
          push' = [q \in Pushers |->
                     IF q # p THEN [push[q] EXCEPT !.quiet = FALSE]
                     ELSE IF Found = None THEN Resting
                     ELSE [Resting EXCEPT !.stage = "fields", !.device = Found, !.host = host, !.wanted = w,
                              !.passes = passes, !.quiet = \A r \in Pushers : push[r].stage = "resting"]]
    /\ done' = None
    /\ UNCHANGED <<placed, host, defined, device, item, made, edits>>

(* sync_host() looks the device up anew; without one it does nothing.      *)
(* NetBox refuses a patch of a field that it does not have.                *)
SyncHost(p) ==
    /\ push[p].stage = "fields"
    /\ IF "fields" \in push[p].passes /\ Found # None
       THEN /\ Missing = {}
            /\ device' = [device EXCEPT ![Found] = push[p].host]
       ELSE UNCHANGED device
    /\ To(p, [push[p] EXCEPT !.stage = IF "items" \in push[p].passes THEN "listing" ELSE "ending"])
    /\ UNCHANGED <<placed, host, defined, item, made, edits, pushes, done>>

(* sync_inventory_items(): the slot is the key; of two items of one slot   *)
(* the last listed counts.                                                 *)
List(p) ==
    LET d      == push[p].device
        wanted == push[p].wanted
        last(s) == Max(Row(d, s))
        shown  == {item[i].slot : i \in Listed(d)}
    IN /\ push[p].stage = "listing"
       /\ To(p, [push[p] EXCEPT
             !.stage = "writing", !.twins = Twins(d),
             !.todo = {[op |-> "create", slot |-> s, id |-> None] : s \in DOMAIN wanted \ shown}
                 \cup {[op |-> "update", slot |-> s, id |-> last(s)] :
                          s \in {t \in DOMAIN wanted \cap shown : item[last(t)].part # wanted[t]}}
                 \cup {[op |-> "delete", slot |-> s, id |-> last(s)] : s \in shown \ DOMAIN wanted}])
       /\ UNCHANGED <<placed, host, defined, device, item, made, edits, pushes, done>>

New == made + 1

(* The creates and updates go before the deletes.                          *)
Write(p, call) ==
    LET new == [device |-> push[p].device, slot |-> call.slot, part |-> push[p].wanted[call.slot],
                discovered |-> TRUE]
    IN /\ push[p].stage = "writing" /\ call \in push[p].todo
       /\ call.op = "delete" => \A other \in push[p].todo : other.op = "delete"
       /\ CASE call.op = "create" ->
                  device[push[p].device] # None /\ New \in Ids /\ item' = [item EXCEPT ![New] = new]
            [] call.op = "update" -> item[call.id] # None /\ item' = [item EXCEPT ![call.id] = new]
            [] OTHER -> item[call.id] # None /\ item' = [item EXCEPT ![call.id] = None]
       /\ made' = IF call.op = "create" THEN New ELSE made
       /\ To(p, [push[p] EXCEPT !.todo = @ \ {call}])
       /\ UNCHANGED <<placed, host, defined, device, edits, pushes, done>>

End(p) ==
    /\ push[p].stage \in {"ending", "writing"} /\ push[p].todo = {}
    /\ To(p, Resting)
    /\ done' = IF ~push[p].quiet THEN done
               ELSE [device |-> push[p].device, host |-> push[p].host, wanted |-> push[p].wanted,
                     passes |-> push[p].passes, twins |-> push[p].twins]
    /\ UNCHANGED <<placed, host, defined, device, item, made, edits, pushes>>

(* A call fails, or the process dies.                                      *)
Fail(p) ==
    /\ push[p].stage # "resting"
    /\ To(p, Resting)
    /\ UNCHANGED <<placed, host, defined, device, item, made, edits, pushes, done>>
-----------------------------------------------------------------------------
(* bootstrap_custom_fields(): the missing ones, of which some may fail.    *)
Bootstrap ==
    /\ \E new \in SUBSET (Fields \ defined) : new # {} /\ defined' = defined \cup new
    /\ UNCHANGED <<placed, host, device, item, push, made, edits, pushes, done>>

(* What the reconciler finds next.                                         *)
Rediscover ==
    /\ edits < MaxEdits /\ edits' = edits + 1
    /\ \/ \E s \in Slots, part \in Parts :
             /\ \/ placed' = placed \cup {[slot |-> s, part |-> part]}
                \/ placed' = placed \ {[slot |-> s, part |-> part]}
             /\ placed' # placed /\ UNCHANGED host
       \/ \E v \in Parts : v # host /\ host' = v /\ UNCHANGED placed
    /\ UNCHANGED <<defined, device, item, push, made, pushes, done>>

(* A person makes or removes a device, whose items go with it, or makes,   *)
(* changes or removes an item.                                             *)
Edit ==
    /\ edits < MaxEdits /\ edits' = edits + 1
    /\ \/ \E d \in Devices :
             /\ device' = [device EXCEPT ![d] = IF @ = None THEN Unset ELSE None]
             /\ item' = [i \in Ids |-> IF item[i] # None /\ item[i].device = d THEN None ELSE item[i]]
             /\ UNCHANGED made
       \/ \E i \in Ids, x \in Item \cup {None} :
             /\ x # item[i] /\ (item[i] = None => i = New /\ ~x.discovered)
             /\ x # None => device[x.device] # None
             /\ item[i] # None /\ x # None => x.device = item[i].device /\ x.slot = item[i].slot
             /\ item' = [item EXCEPT ![i] = x] /\ UNCHANGED device
             /\ made' = IF i = New THEN New ELSE made
    /\ push' = [p \in Pushers |-> [push[p] EXCEPT !.quiet = FALSE]]
    /\ done' = None
    /\ UNCHANGED <<placed, host, defined, pushes>>

Init ==
    /\ placed \in {{}, {[slot |-> Min(Slots), part |-> Min(Parts)]}}
    /\ host = Min(Parts) /\ defined = {}
    /\ device = [d \in Devices |-> IF d = Own THEN Unset ELSE None]
    /\ item = [i \in Ids |-> None]
    /\ push = [p \in Pushers |-> Resting]
    /\ made = 0 /\ edits = 0 /\ pushes = 0 /\ done = None

Next ==
    \/ \E p \in Pushers :
          \/ Begin(p) \/ SyncHost(p) \/ List(p) \/ End(p) \/ Fail(p)
          \/ \E call \in push[p].todo : Write(p, call)
    \/ Bootstrap \/ Rediscover \/ Edit

Spec == Init /\ [][Next]_vars
-----------------------------------------------------------------------------
TypeOK ==
    /\ placed \subseteq [slot : Slots, part : Parts] /\ host \in Parts
    /\ defined \subseteq Fields /\ device \in [Devices -> Parts \cup {Unset, None}]
    /\ item \in [Ids -> Item \cup {None}]
    /\ \A i \in Ids : item[i] # None => device[item[i].device] # None

(* A push that no other and no person came near leaves the placements it   *)
(* read, whatever an earlier push that failed half way had left; and the   *)
(* host's fields.  An item's twin, which only two pushes at once make, is  *)
(* the one thing it may overlook.                                          *)
MirrorsPlacements ==
    done # None =>
        LET d == done.device IN
        /\ "fields" \in done.passes => device[d] = done.host
        /\ "items" \in done.passes =>
              /\ \A s \in DOMAIN done.wanted :
                    Row(d, s) # {} /\ item[Max(Row(d, s))].part = done.wanted[s]
              /\ ~done.twins => \A i \in Listed(d) : item[i].slot \in DOMAIN done.wanted

(* An item that is not marked "discovered" is never changed by a push, but *)
(* by one that had listed it before a person took the mark away.           *)
HumanItemsKeptStep ==
    \A i \in Ids :
        item[i] # None /\ ~item[i].discovered /\ item'[i] # item[i] =>
            edits' = edits + 1 \/ \E p \in Pushers : ~push[p].quiet /\ \E call \in push[p].todo : call.id = i

(* Doc (cli/netbox.py:183): Device.name == Host.hostname.  A device whose  *)
(* name differs in case is taken where there is no other.  Does not hold.  *)
OwnDeviceOnly == \A p \in Pushers : push[p].device # Other

(* Doc (cli/netbox.py:191-192): items that the harness's active set lacks  *)
(* are deleted; of twins, one is.  Does not hold.                          *)
NothingOverlooked ==
    done # None /\ "items" \in done.passes =>
        \A i \in Listed(done.device) : item[i].slot \in DOMAIN done.wanted
=============================================================================
