----------------------------- MODULE GuestSync -----------------------------
(***************************************************************************)
(* The guests of one cluster on their way from the hypervisor to NetBox:   *)
(* engine/virt_reconcile.py keeps the VirtualMachine rows,                 *)
(* engine/netbox_vm_sync.py pushes them with a three-way merge, and        *)
(* sync_cluster_vms() of adapters/netbox.py (`helper discover proxmox      *)
(* --netbox-sync`) pushes what was discovered without one.                 *)
(*                                                                         *)
(* A guest's synced fields (status, vcpus, memory) are one value; Unknown  *)
(* is a field the hypervisor did not give, which a write then leaves out.  *)
(* A sync lists NetBox once, writes guest by guest over the network, and   *)
(* commits its rows at the end.  A dry run changes nothing and is not      *)
(* here; nor are templates, which NetBox does not model.                   *)
(***************************************************************************)
EXTENDS Integers, FiniteSets

CONSTANTS Guests,   \* VMIDs of the cluster
          Names, Values, Unknown, None,
          MaxIds,   \* bound: NetBox rows ever made
          MaxEdits, \* bound: changes on the hypervisor and by hand in NetBox
          MaxPasses,\* bound: discoveries and syncs
          Direct    \* whether discoveries push to NetBox themselves

VARIABLES source,   \* source[g]: the guest on its hypervisor, or None
          vm,       \* vm[g]: its VirtualMachine row, or None
          netbox,   \* netbox[i]: NetBox's VM of id i, or None
          diverged, \* guests whose row has an open NETBOX_DIVERGENCE finding
          sync,     \* the sync under way: what it listed, what it has yet to do
          edits, passes,
          meant,    \* history: meant[g]: the value the harness last wrote of a guest, or left
          shaky,    \* history: NetBox rows edited by hand, written by a sync that
                    \* failed, or written without the value
          late,     \* history: of those, the ones no listing has shown since
          fresh     \* history: whether nothing has happened since the sync began, or committed

vars == <<source, vm, netbox, diverged, sync, edits, passes, meant, shaky, late, fresh>>

Ids   == 1 .. MaxIds
Known == Values \cup {Unknown}
Guest == [name : Names, value : Known]
Row   == [name : Names, value : Known, nb : Ids \cup {None}, baseline : Known \cup {None}]

GuestSyncAssumption ==
    /\ Unknown \notin Values /\ None \notin Known \cup Nat \cup Guest \cup Row
    /\ MaxIds \in Nat /\ MaxEdits \in Nat /\ MaxPasses \in Nat /\ Direct \in BOOLEAN

Idle == [busy |-> FALSE, listed |-> [i \in Ids |-> None], todo |-> {}, vm |-> [g \in Guests |-> None],
         diverged |-> {}, wrote |-> {}, meant |-> [g \in Guests |-> None]]

Init ==
    /\ source \in [Guests -> {[name |-> n, value |-> v] : n \in Names, v \in Values}]
    /\ vm = [g \in Guests |-> None]
    /\ netbox = [i \in Ids |-> None]
    /\ diverged = {}
    /\ sync = Idle
    /\ edits = 0 /\ passes = 0
    /\ meant = [g \in Guests |-> None]
    /\ shaky = {} /\ late = {} /\ fresh = "no"

There(rows) == {x \in DOMAIN rows : rows[x] # None}
Named(rows, n) == {i \in There(rows) : rows[i].name = n}
-----------------------------------------------------------------------------
(* NetBox never gives an id twice; only a person removes a VM.             *)
NeverUsed(i) == netbox[i] = None /\ i \notin shaky

Edited == edits < MaxEdits /\ edits' = edits + 1 /\ fresh' = "no"

(* A guest is made, changed, renamed or destroyed.                         *)
Change(g) ==
    /\ Edited
    /\ \E x \in Guest \cup {None} : x # source[g] /\ source' = [source EXCEPT ![g] = x]
    /\ UNCHANGED <<vm, netbox, diverged, sync, passes, meant, shaky, late>>

(* A person works in NetBox, which keeps a cluster's names apart.          *)
EditNetBox(i, x) ==
    /\ Edited
    /\ netbox[i] # x /\ (netbox[i] = None => NeverUsed(i))
    /\ x # None => Named(netbox, x.name) \subseteq {i}
    /\ netbox' = [netbox EXCEPT ![i] = x]
    /\ shaky' = shaky \cup {i} /\ late' = late \cup {i}
    /\ UNCHANGED <<source, vm, diverged, sync, passes, meant>>
-----------------------------------------------------------------------------
Begun == passes < MaxPasses /\ passes' = passes + 1 /\ ~sync.busy

(* _remove_absent(): whether a guest that is not listed is gone.           *)
Trusted(listing, quorate) == quorate /\ listing # {}

(* reconcile_proxmox_cluster(): rows by VMID, their NetBox id and baseline *)
(* kept.                                                                   *)
Reconciled(listing, quorate) ==
    [g \in Guests |->
        IF g \in listing
        THEN [name |-> source[g].name, value |-> source[g].value,
              nb |-> IF vm[g] = None THEN None ELSE vm[g].nb,
              baseline |-> IF vm[g] = None THEN None ELSE vm[g].baseline]
        ELSE IF Trusted(listing, quorate) THEN None ELSE vm[g]]

(* A cluster that has lost its quorum may list some of its guests only.    *)
(* A finding is its row's: it stays open when the row goes, about a row    *)
(* that is no more, and the guest's next row starts without one.           *)
Discover ==
    \E quorate \in BOOLEAN : \E listing \in SUBSET There(source) :
       /\ Begun
       /\ quorate => listing = There(source)
       /\ vm' = Reconciled(listing, quorate)
       /\ diverged' = {g \in diverged : vm'[g] # None}
       /\ fresh' = "no"
       /\ UNCHANGED <<source, netbox, sync, edits, meant, shaky, late>>

(* What a write leaves: an unknown value is not part of it.                *)
Patched(old, new) == [name |-> new.name, value |-> IF new.value = Unknown THEN old.value ELSE new.value]

(* sync_cluster_vms(): one discovered guest, by name, whatever NetBox      *)
(* shows; its listing and its write are one step here.                     *)
Push(g) ==
    LET hits == Named(netbox, source[g].name) IN
    /\ Direct /\ Begun /\ source[g] # None
    /\ \E i \in (IF hits # {} THEN hits ELSE {j \in Ids : NeverUsed(j)}) :
          /\ netbox' = [netbox EXCEPT ![i] = IF @ = None THEN source[g] ELSE Patched(@, source[g])]
    /\ meant' = [meant EXCEPT ![g] = source[g].value]
    /\ fresh' = "no"
    /\ UNCHANGED <<source, vm, diverged, sync, edits, shaky, late>>
-----------------------------------------------------------------------------
(* sync_cluster_to_netbox(): list the cluster's VMs.                       *)
List ==
    /\ Begun
    /\ sync' = [busy |-> TRUE, listed |-> netbox, todo |-> There(vm), vm |-> vm,
                diverged |-> diverged, wrote |-> {}, meant |-> meant]
    /\ late' = {} /\ fresh' = "syncing"
    /\ UNCHANGED <<source, vm, netbox, diverged, edits, meant, shaky>>

(* By id once that is known, else by name, in the listing.                 *)
Match(row) ==
    IF row.nb # None /\ sync.listed[row.nb] # None THEN {row.nb} ELSE Named(sync.listed, row.name)

(* Mutant: only a NetBox that shows something else than wanted diverged.   *)
DivergedFromWanted(row, current) == row.baseline # None /\ current = row.value

(* Somebody changed it since the harness's last write.                     *)
Diverged(row, current) == row.baseline # None /\ current # row.baseline

(* Mutant: what NetBox showed is taken down, not what was written.         *)
BaselineShown(row, current) == current

Baseline(row, current) == row.value

Done(g, row) == [sync EXCEPT !.todo = @ \ {g}, !.vm[g] = row]

(* No VM of that name: one is made.                                        *)
CreateIn(g) ==
    LET row == sync.vm[g] IN
    /\ Match(row) = {} /\ Named(netbox, row.name) = {}
    /\ \E i \in Ids :
          /\ NeverUsed(i)
          /\ netbox' = [netbox EXCEPT ![i] = [name |-> row.name, value |-> row.value]]
          /\ sync' = [Done(g, [row EXCEPT !.nb = i, !.baseline = row.value]) EXCEPT !.wrote = @ \cup {i},
                                                                     !.meant[g] = row.value]
    /\ UNCHANGED <<shaky, late>>

(* A hand edit: the write is skipped, and a finding says so.               *)
SkipIn(g) ==
    LET row == sync.vm[g] IN
    \E i \in Match(row) :
       /\ Diverged(row, sync.listed[i].value)
       /\ sync' = [Done(g, [row EXCEPT !.nb = i]) EXCEPT !.diverged = @ \cup {g}]
       /\ UNCHANGED <<netbox, shaky, late>>

(* Else the finding is resolved, NetBox written unless it agrees already   *)
(* (the value counts, and not the name), and the baseline renewed.         *)
UpdateIn(g) ==
    LET row == sync.vm[g] IN
    \E i \in Match(row) :
       LET current == sync.listed[i].value
           writes  == current # row.value
       IN /\ ~Diverged(row, current)
          /\ writes => netbox[i] # None /\ Named(netbox, row.name) \subseteq {i}
          /\ netbox' = IF writes THEN [netbox EXCEPT ![i] = Patched(@, row)] ELSE netbox
          /\ sync' = [Done(g, [row EXCEPT !.nb = i, !.baseline = Baseline(row, current)])
                         EXCEPT !.diverged = @ \ {g},
                                !.wrote = IF writes THEN @ \cup {i} ELSE @,
                                !.meant[g] = row.value]
          /\ shaky' = IF row.value = Unknown /\ writes THEN shaky \cup {i} ELSE shaky
          /\ UNCHANGED late

(* netbox_vm_id is unique: a VM that two rows match ends the sync at the   *)
(* flush that comes before the write.                                      *)
Alone(g) == \A i \in Match(sync.vm[g]) : \A h \in There(sync.vm) \ {g} : sync.vm[h].nb # i

StepIn(g) ==
    /\ sync.busy /\ g \in sync.todo /\ Alone(g)
    /\ CreateIn(g) \/ SkipIn(g) \/ UpdateIn(g)
    /\ UNCHANGED <<source, vm, diverged, edits, passes, meant, fresh>>

Commit ==
    /\ sync.busy /\ sync.todo = {}
    /\ vm' = sync.vm /\ diverged' = sync.diverged /\ meant' = sync.meant
    /\ sync' = Idle /\ fresh' = IF fresh = "syncing" THEN "yes" ELSE "no"
    /\ UNCHANGED <<source, netbox, edits, passes, shaky, late>>

(* The network, NetBox or the process fails: the rows roll back, what was  *)
(* written to NetBox does not.                                             *)
Fail ==
    /\ sync.busy
    /\ shaky' = shaky \cup sync.wrote /\ late' = late \cup sync.wrote
    /\ sync' = Idle /\ fresh' = "no"
    /\ UNCHANGED <<source, vm, netbox, diverged, edits, passes, meant>>

Next ==
    \/ \E g \in Guests : Change(g) \/ Push(g) \/ StepIn(g)
    \/ \E i \in Ids, x \in Guest \cup {None} : EditNetBox(i, x)
    \/ Discover
    \/ List \/ Commit \/ Fail

Spec == Init /\ [][Next]_vars
-----------------------------------------------------------------------------
(* Types of every variable.                                                *)
TypeOK ==
    /\ source \in [Guests -> Guest \cup {None}]
    /\ vm \in [Guests -> Row \cup {None}] /\ sync.vm \in [Guests -> Row \cup {None}]
    /\ netbox \in [Ids -> Guest \cup {None}] /\ sync.listed \in [Ids -> Guest \cup {None}]
    /\ diverged \subseteq There(vm) /\ sync.todo \subseteq There(sync.vm)
    /\ meant \in [Guests -> Known \cup {None}]
    /\ shaky \subseteq Ids /\ late \subseteq Ids /\ fresh \in {"no", "syncing", "yes"}
    /\ edits \in 0 .. MaxEdits /\ passes \in 0 .. MaxPasses

(* What a sync overwrites in the NetBox VM of a guest that was synced      *)
(* before is what the harness itself last wrote of that guest, or left;    *)
(* and so never a value that a person has set since, unless no listing has *)
(* shown it yet: the skip of sync_cluster_to_netbox().                     *)
HandEditsKeptStep ==
    \A i \in Ids, g \in There(vm) :
       /\ edits' = edits /\ i \notin late
       /\ netbox[i] # None /\ netbox[i] # netbox'[i]
       /\ vm[g].nb = i /\ vm[g].baseline # None
       => netbox[i].value = meant[g]

HandEditsKept == [][HandEditsKeptStep]_vars

(* An undisturbed sync leaves NetBox as the rows are, but for what the     *)
(* hypervisor did not give and for the guests it reports; and it reports   *)
(* none that nobody touched: each had its VM edited or removed by hand, or *)
(* left in doubt by a write that the harness could not record.             *)
SyncedMeansSame ==
    /\ fresh = "yes" => \A g \in There(vm) \ diverged :
          vm[g].value # Unknown => netbox[vm[g].nb].value = vm[g].value
    /\ \A g \in diverged : \E i \in shaky : vm[g].nb = i \/ netbox[i] = None
=============================================================================
