-------------------------- MODULE GuestSync_proofs --------------------------
(***************************************************************************)
(* What a sync to NetBox keeps and reports, for every number of guests,    *)
(* names, values, NetBox rows, passes and edits, where discoveries do not  *)
(* push to NetBox themselves; and, in the second section, what a push of a *)
(* host leaves there.                                                      *)
(*                                                                         *)
(* Between syncs a row's baseline is what NetBox shows of it, unless the   *)
(* VM is shaky (Mirrored).  During a sync the listing is still what NetBox *)
(* shows of every VM but those a person touched since and those the sync   *)
(* wrote; and no guest that is still to come has any of the latter.        *)
(***************************************************************************)
EXTENDS GuestSync, WellFoundedInduction, TLAPS

CONSTANTS Own, Other, Fields, Slots, Parts, Pushers, MaxItems, MaxPushes
VARIABLES placed, host, defined, device, item, push, made, touches, pushes, done

(* Its parameters are apart from GuestSync's, but for MaxEdits and None.   *)
Host == INSTANCE HostPush WITH MaxIds <- MaxItems, edits <- touches
-----------------------------------------------------------------------------
SyncType == [busy : BOOLEAN, listed : [Ids -> Guest \cup {None}], todo : SUBSET Guests,
             vm : [Guests -> Row \cup {None}], diverged : SUBSET Guests, wrote : SUBSET Ids,
             meant : [Guests -> Known \cup {None}]]

(* The row x of guest g has a baseline once it has a NetBox id, and the    *)
(* baseline is what the harness meant.                                     *)
Linked(g, x, m) ==
    /\ x.nb = None <=> x.baseline = None
    /\ x.baseline # None => x.baseline = m[g]

(* There is a reason to report the row x.                                  *)
Touched(x) == \E i \in shaky : x.nb = i \/ netbox[i] = None

(* NetBox shows the baseline of the row x, or its VM is in doubt, or there *)
(* is a reason why it shows something else.                                *)
Mirrored(x, doubt) ==
    x.nb # None /\ x.nb \notin doubt
      => netbox[x.nb] # None /\ (netbox[x.nb].value = x.baseline \/ Touched(x))

(* NetBox shows what the row x says.                                       *)
Shown(x) == x.value # Unknown => netbox[x.nb].value = x.value

(* How far a sync has come: the rows of the guests that are done, ...      *)
DoneOK(g) ==
    /\ sync.vm[g].nb # None /\ Mirrored(sync.vm[g], shaky)
    /\ vm[g].nb # None /\ sync.listed[vm[g].nb] # None => sync.vm[g].nb = vm[g].nb
    /\ fresh = "syncing" /\ g \notin sync.diverged => Shown(sync.vm[g])

(* ... and what it has listed and written.                                 *)
SyncOK ==
    /\ There(sync.vm) = There(vm) /\ sync.todo \subseteq There(vm) /\ sync.diverged \subseteq There(vm)
    /\ \A g \in There(vm) :
          /\ Linked(g, sync.vm[g], sync.meant)
          /\ IF g \in sync.todo THEN sync.vm[g] = vm[g] ELSE DoneOK(g)
          /\ vm[g].nb # None /\ sync.listed[vm[g].nb] = None
               => vm[g].nb \in shaky /\ netbox[vm[g].nb] = None
    /\ \A g \in sync.diverged : Touched(sync.vm[g])
    /\ \A i \in sync.wrote : \E g \in There(vm) \ sync.todo : sync.vm[g].nb = i
    /\ \A i \in Ids \ (late \cup sync.wrote) : netbox[i] = sync.listed[i]

(* The inductive invariant.                                                *)
SyncInv ==
    /\ TypeOK /\ sync \in SyncType /\ late \subseteq shaky
    /\ \A g \in There(vm) : Linked(g, vm[g], meant) /\ Mirrored(vm[g], shaky \cup sync.wrote)
    /\ \A g \in diverged : Touched(vm[g])
    /\ fresh = "yes" => ~sync.busy /\ \A g \in There(vm) \ diverged : Shown(vm[g])
    /\ fresh = "syncing" => sync.busy /\ late = {}
    /\ IF sync.busy THEN SyncOK ELSE sync = Idle
-----------------------------------------------------------------------------
(* At the start nothing is known, in NetBox or of it.                      *)
LEMMA InitSyncInv ==
    ASSUME GuestSyncAssumption, Init
    PROVE  SyncInv
<1>1. Idle \in SyncType BY DEF Idle, SyncType
<1>2. There(vm) = {} BY DEF Init, There
<1>3. TypeOK
  <2>1. source \in [Guests -> Guest \cup {None}] BY DEF Init, Guest, Known
  <2>2. sync.vm \in [Guests -> Row \cup {None}] /\ sync.listed \in [Ids -> Guest \cup {None}]
        /\ sync.todo = {}
    BY DEF Init, Idle
  <2>. QED BY <2>1, <2>2 DEF Init, TypeOK, GuestSyncAssumption
<1>. QED BY <1>1, <1>2, <1>3 DEF Init, SyncInv, Idle

(* A row that there is is a row.                                           *)
LEMMA RowsThere ==
    ASSUME SyncInv, NEW g \in There(vm)
    PROVE  g \in Guests /\ vm[g] \in Row /\ vm[g] # None
BY DEF SyncInv, TypeOK, There

(* A reason to report stays one.                                           *)
LEMMA StaysTouched ==
    ASSUME NEW x, Touched(x), shaky \subseteq shaky',
           \A i \in shaky : netbox[i] = None => netbox'[i] = None
    PROVE  Touched(x)'
BY DEF Touched

(* A guest changes on its hypervisor.                                      *)
LEMMA ChangeKeeps ==
    ASSUME GuestSyncAssumption, SyncInv, NEW g \in Guests, Change(g)
    PROVE  SyncInv'
<1>1. /\ UNCHANGED <<vm, netbox, diverged, sync, passes, meant, shaky, late>>
      /\ fresh' = "no" /\ edits < MaxEdits /\ edits' = edits + 1
  BY DEF Change, Edited
<1>2. TypeOK'
  <2>1. source' \in [Guests -> Guest \cup {None}] BY DEF Change, SyncInv, TypeOK
  <2>. QED BY <1>1, <2>1 DEF SyncInv, TypeOK, There, GuestSyncAssumption
<1>3. ASSUME sync.busy PROVE SyncOK'
  <2>1. SyncOK BY <1>3 DEF SyncInv
  <2>. QED BY <2>1, <1>1 DEF SyncOK, There, Linked, DoneOK, Mirrored, Touched
<1>4. \A h \in There(vm)' : Linked(h, vm[h], meant)' /\ Mirrored(vm[h], shaky \cup sync.wrote)'
  BY <1>1 DEF SyncInv, There, Linked, Mirrored, Touched
<1>5. \A h \in diverged' : Touched(vm[h])' BY <1>1 DEF SyncInv, Touched
<1>6. ~sync.busy => sync' = Idle BY <1>1 DEF SyncInv
<1>. QED BY <1>1, <1>2, <1>3, <1>4, <1>5, <1>6 DEF SyncInv, Idle

(* A person works in NetBox: the VM is shaky, and one that is gone does    *)
(* not come back.                                                          *)
LEMMA EditKeeps ==
    ASSUME GuestSyncAssumption, SyncInv, NEW i \in Ids, NEW x \in Guest \cup {None}, EditNetBox(i, x)
    PROVE  SyncInv'
<1>1. /\ UNCHANGED <<source, vm, diverged, sync, passes, meant>>
      /\ fresh' = "no" /\ edits < MaxEdits /\ edits' = edits + 1
      /\ netbox' = [netbox EXCEPT ![i] = x] /\ shaky' = shaky \cup {i} /\ late' = late \cup {i}
      /\ netbox[i] = None => i \notin shaky
  BY DEF EditNetBox, Edited, NeverUsed
<1>2. netbox' \in [Ids -> Guest \cup {None}] /\ \A j \in Ids \ {i} : netbox'[j] = netbox[j]
  BY <1>1 DEF SyncInv, TypeOK
<1>3. TypeOK' BY <1>1, <1>2 DEF SyncInv, TypeOK, There, GuestSyncAssumption
<1>4. shaky \subseteq Ids BY DEF SyncInv, TypeOK
<1>5. ASSUME NEW j \in shaky, netbox[j] = None PROVE netbox'[j] = None
  BY <1>1, <1>2, <1>4, <1>5
<1>6. ASSUME NEW y, Touched(y) PROVE Touched(y)' BY <1>1, <1>5, <1>6, StaysTouched
<1>7. ASSUME NEW y, NEW d, y.nb \in Ids \cup {None}, Mirrored(y, d), y.nb \notin d \cup {i}, y.nb # None
      PROVE  netbox'[y.nb] # None /\ (netbox'[y.nb].value = y.baseline \/ Touched(y)')
  BY <1>2, <1>6, <1>7 DEF Mirrored
<1>8. \A h \in There(vm)' : Linked(h, vm[h], meant)' /\ Mirrored(vm[h], shaky \cup sync.wrote)'
  <2>. SUFFICES ASSUME NEW h \in There(vm)
                PROVE  Linked(h, vm[h], meant)' /\ Mirrored(vm[h], shaky \cup sync.wrote)'
    BY <1>1 DEF There
  <2>1. vm[h].nb \in Ids \cup {None} BY RowsThere DEF Row
  <2>2. Linked(h, vm[h], meant) /\ Mirrored(vm[h], shaky \cup sync.wrote) BY DEF SyncInv
  <2>3. (shaky \cup sync.wrote) \cup {i} = shaky' \cup sync.wrote BY <1>1
  <2>4. PICK y : y = vm[h] OBVIOUS
  <2>5. y.nb # None /\ y.nb \notin shaky' \cup sync.wrote
          => netbox'[y.nb] # None /\ (netbox'[y.nb].value = y.baseline \/ Touched(y)')
    BY <1>7, <2>1, <2>2, <2>3, <2>4
  <2>. QED BY <1>1, <2>2, <2>4, <2>5 DEF Linked, Mirrored
<1>9. \A h \in diverged' : Touched(vm[h])' BY <1>1, <1>6 DEF SyncInv, Touched
<1>10. ~sync.busy => sync' = Idle BY <1>1 DEF SyncInv
<1>11. ASSUME sync.busy PROVE SyncOK'
  <2>1. SyncOK BY <1>11 DEF SyncInv
  <2>2. ASSUME NEW h \in There(vm)
        PROVE  /\ Linked(h, sync.vm[h], sync.meant)'
               /\ IF h \in sync.todo THEN sync.vm[h] = vm[h] ELSE DoneOK(h)'
               /\ vm[h].nb # None /\ sync.listed[vm[h].nb] = None
                    => vm[h].nb \in shaky' /\ netbox'[vm[h].nb] = None
    <3>1. Linked(h, sync.vm[h], sync.meant)' BY <1>1, <2>1 DEF SyncOK, Linked
    <3>2. ASSUME h \notin sync.todo PROVE DoneOK(h)'
      <4>1. DoneOK(h) BY <2>1, <3>2 DEF SyncOK
      <4>2. sync.vm[h].nb \in Ids \cup {None}
        <5>1. h \in There(sync.vm) BY <2>1 DEF SyncOK
        <5>2. sync.vm[h] \in Row BY <5>1 DEF SyncInv, TypeOK, There
        <5>. QED BY <5>2 DEF Row
      <4>3. PICK y : y = sync.vm[h] OBVIOUS
      <4>4. Mirrored(y, shaky)' BY <4>1, <4>2, <4>3, <1>1, <1>7 DEF DoneOK, Mirrored
      <4>5. Mirrored(sync.vm[h], shaky)' BY <4>3, <4>4, <1>1 DEF Mirrored, Touched
      <4>. QED BY <4>1, <4>5, <1>1 DEF DoneOK
    <3>3. vm[h].nb # None /\ sync.listed[vm[h].nb] = None
            => vm[h].nb \in shaky' /\ netbox'[vm[h].nb] = None
      BY <2>1, <1>1, <1>5 DEF SyncOK
    <3>. QED BY <2>1, <3>1, <3>2, <3>3 DEF SyncOK
  <2>3. \A h \in sync.diverged : Touched(sync.vm[h])' BY <2>1, <1>1, <1>6 DEF SyncOK, Touched
  <2>4. \A j \in Ids \ (late \cup sync.wrote)' : netbox'[j] = sync.listed[j]
    BY <2>1, <1>1, <1>2 DEF SyncOK
  <2>. QED BY <2>1, <2>2, <2>3, <2>4, <1>1 DEF SyncOK, There
<1>. QED BY <1>1, <1>3, <1>4, <1>8, <1>9, <1>10, <1>11 DEF SyncInv, Idle

(* A discovery keeps the NetBox id and the baseline of the rows it keeps.  *)
LEMMA DiscoverKeeps ==
    ASSUME GuestSyncAssumption, SyncInv, Discover
    PROVE  SyncInv'
<1>1. PICK quorate \in BOOLEAN, listing \in SUBSET There(source) :
        /\ Begun /\ vm' = Reconciled(listing, quorate)
        /\ diverged' = {g \in diverged : vm'[g] # None} /\ fresh' = "no"
        /\ UNCHANGED <<source, netbox, sync, edits, meant, shaky, late>>
  BY DEF Discover
<1>2. ~sync.busy /\ sync = Idle /\ passes < MaxPasses /\ passes' = passes + 1
  BY <1>1 DEF Begun, SyncInv
<1>3. ASSUME NEW g \in Guests, vm'[g] # None
      PROVE  /\ vm'[g] \in Row
             /\ \/ vm[g] = None /\ vm'[g].nb = None /\ vm'[g].baseline = None
                \/ g \in There(vm) /\ vm'[g].nb = vm[g].nb /\ vm'[g].baseline = vm[g].baseline
  <2>1. vm[g] \in Row \cup {None} /\ (vm[g] # None => g \in There(vm) /\ vm[g] \in Row)
    BY DEF SyncInv, TypeOK, There
  <2>2. CASE g \in listing
    <3>1. source[g] \in Guest /\ source[g].name \in Names /\ source[g].value \in Known
      BY <2>2 DEF SyncInv, TypeOK, There, Guest
    <3>2. vm'[g] = [name |-> source[g].name, value |-> source[g].value,
                    nb |-> IF vm[g] = None THEN None ELSE vm[g].nb,
                    baseline |-> IF vm[g] = None THEN None ELSE vm[g].baseline]
      BY <1>1, <2>2 DEF Reconciled
    <3>. QED BY <2>1, <3>1, <3>2 DEF Row
  <2>3. CASE g \notin listing BY <1>1, <1>3, <2>1, <2>3 DEF Reconciled
  <2>. QED BY <2>2, <2>3
<1>4. vm' \in [Guests -> Row \cup {None}] /\ \A g \in There(vm)' : g \in Guests /\ vm'[g] # None
  <2>1. vm' = [g \in Guests |-> vm'[g]] BY <1>1 DEF Reconciled
  <2>2. DOMAIN vm' = Guests BY <2>1
  <2>. QED BY <1>3, <2>1, <2>2 DEF There
<1>5. diverged' \subseteq There(vm)'
  BY <1>1, <1>4 DEF SyncInv, TypeOK, There
<1>6. TypeOK' BY <1>1, <1>2, <1>4, <1>5 DEF SyncInv, TypeOK, There, GuestSyncAssumption
<1>7. ASSUME NEW g \in There(vm)' PROVE Linked(g, vm[g], meant)' /\ Mirrored(vm[g], shaky \cup sync.wrote)'
  BY <1>1, <1>3, <1>4 DEF SyncInv, Linked, Mirrored, Touched
<1>8. ASSUME NEW g \in diverged' PROVE Touched(vm[g])'
  BY <1>1, <1>3, <1>4, <1>5 DEF SyncInv, TypeOK, There, Touched
<1>. QED BY <1>1, <1>2, <1>6, <1>7, <1>8 DEF SyncInv, Idle

(* A sync begins.                                                          *)
LEMMA ListKeeps ==
    ASSUME GuestSyncAssumption, SyncInv, List
    PROVE  SyncInv'
<1>1. /\ ~sync.busy /\ sync = Idle /\ passes < MaxPasses /\ passes' = passes + 1
      /\ late' = {} /\ fresh' = "syncing"
      /\ UNCHANGED <<source, vm, netbox, diverged, edits, meant, shaky>>
  BY DEF List, Begun, SyncInv
<1>2. /\ sync'.busy /\ sync'.listed = netbox /\ sync'.todo = There(vm) /\ sync'.vm = vm
      /\ sync'.diverged = diverged /\ sync'.wrote = {} /\ sync'.meant = meant
  BY DEF List
<1>3. sync.wrote = {} BY <1>1 DEF Idle
<1>4. There(vm) \subseteq Guests BY DEF There, SyncInv, TypeOK
<1>5. sync' \in SyncType
  <2>1. diverged \in SUBSET Guests BY <1>4 DEF SyncInv, TypeOK
  <2>. QED BY <1>4, <2>1 DEF List, SyncInv, TypeOK, SyncType
<1>6. TypeOK' BY <1>1, <1>2 DEF SyncInv, TypeOK, There, GuestSyncAssumption
<1>7. ASSUME NEW g \in There(vm)
      PROVE  /\ Linked(g, vm[g], meant) /\ vm[g].nb \in Ids \cup {None}
             /\ vm[g].nb # None /\ netbox[vm[g].nb] = None
                  => vm[g].nb \in shaky /\ netbox[vm[g].nb] = None
             /\ Mirrored(vm[g], shaky)
  BY <1>3, RowsThere DEF SyncInv, Mirrored, Row
<1>8. There(vm)' = There(vm) /\ There(sync.vm)' = There(vm) BY <1>1, <1>2 DEF There
<1>9. SyncOK'
  <2>1. \A g \in There(vm) : Linked(g, sync.vm[g], sync.meant)' BY <1>1, <1>2, <1>7 DEF Linked
  <2>2. \A g \in diverged : Touched(sync.vm[g])' BY <1>1, <1>2 DEF SyncInv, Touched
  <2>3. diverged \subseteq There(vm) BY DEF SyncInv, TypeOK
  <2>. QED BY <1>1, <1>2, <1>7, <1>8, <2>1, <2>2, <2>3 DEF SyncOK
<1>10. \A g \in There(vm) : Linked(g, vm[g], meant)' /\ Mirrored(vm[g], shaky \cup sync.wrote)'
  BY <1>1, <1>2, <1>7 DEF Linked, Mirrored, Touched
<1>11. \A g \in diverged' : Touched(vm[g])' BY <1>1 DEF SyncInv, Touched
<1>. QED BY <1>1, <1>2, <1>5, <1>6, <1>8, <1>9, <1>10, <1>11 DEF SyncInv

(* A sync commits: its rows are the rows now.                              *)
LEMMA CommitKeeps ==
    ASSUME GuestSyncAssumption, SyncInv, Commit
    PROVE  SyncInv'
<1>1. /\ sync.busy /\ sync.todo = {}
      /\ vm' = sync.vm /\ diverged' = sync.diverged /\ meant' = sync.meant
      /\ sync' = Idle /\ fresh' = IF fresh = "syncing" THEN "yes" ELSE "no"
      /\ UNCHANGED <<source, netbox, edits, passes, shaky, late>>
  BY DEF Commit
<1>2. SyncOK BY <1>1 DEF SyncInv
<1>3. There(vm)' = There(vm) BY <1>1, <1>2 DEF SyncOK, There
<1>4. Idle \in SyncType /\ Idle.wrote = {} /\ ~Idle.busy BY DEF Idle, SyncType
<1>5. TypeOK'
  <2>1. Idle.vm \in [Guests -> Row \cup {None}] /\ Idle.listed \in [Ids -> Guest \cup {None}]
        /\ Idle.todo = {}
    BY DEF Idle
  <2>2. /\ sync.vm \in [Guests -> Row \cup {None}] /\ sync.diverged \subseteq There(vm)
        /\ sync.meant \in [Guests -> Known \cup {None}]
    BY <1>2 DEF SyncOK, SyncInv, SyncType
  <2>. QED BY <1>1, <1>3, <2>1, <2>2 DEF SyncInv, TypeOK
<1>6. ASSUME NEW g \in There(vm)
      PROVE  /\ Linked(g, vm[g], meant)' /\ Mirrored(vm[g], shaky \cup sync.wrote)'
             /\ fresh = "syncing" /\ g \notin sync.diverged => Shown(vm[g])'
  <2>1. Linked(g, sync.vm[g], sync.meant) /\ DoneOK(g) BY <1>1, <1>2 DEF SyncOK
  <2>2. Mirrored(sync.vm[g], shaky) BY <2>1 DEF DoneOK
  <2>. QED BY <1>1, <1>4, <2>1, <2>2 DEF DoneOK, Linked, Mirrored, Touched, Shown
<1>7. \A g \in diverged' : Touched(vm[g])' BY <1>1, <1>2 DEF SyncOK, Touched
<1>. QED BY <1>1, <1>3, <1>4, <1>5, <1>6, <1>7 DEF SyncInv

(* A sync fails: what it has written is shaky.                             *)
LEMMA FailKeeps ==
    ASSUME GuestSyncAssumption, SyncInv, Fail
    PROVE  SyncInv'
<1>1. /\ sync.busy /\ shaky' = shaky \cup sync.wrote /\ late' = late \cup sync.wrote
      /\ sync' = Idle /\ fresh' = "no"
      /\ UNCHANGED <<source, vm, netbox, diverged, edits, passes, meant>>
  BY DEF Fail
<1>2. Idle \in SyncType /\ Idle.wrote = {} /\ ~Idle.busy BY DEF Idle, SyncType
<1>3. TypeOK'
  <2>1. Idle.vm \in [Guests -> Row \cup {None}] /\ Idle.listed \in [Ids -> Guest \cup {None}]
        /\ Idle.todo = {}
    BY DEF Idle
  <2>2. sync.wrote \subseteq Ids BY DEF SyncInv, SyncType
  <2>. QED BY <1>1, <2>1, <2>2 DEF SyncInv, TypeOK, There
<1>4. There(vm)' = There(vm) BY <1>1 DEF There
<1>5. ASSUME NEW g \in There(vm)
      PROVE  Linked(g, vm[g], meant)' /\ Mirrored(vm[g], shaky \cup sync.wrote)'
  <2>1. Linked(g, vm[g], meant) /\ Mirrored(vm[g], shaky \cup sync.wrote) BY DEF SyncInv
  <2>. QED BY <1>1, <1>2, <2>1 DEF Linked, Mirrored, Touched
<1>6. \A g \in diverged' : Touched(vm[g])' BY <1>1 DEF SyncInv, Touched
<1>. QED BY <1>1, <1>2, <1>3, <1>4, <1>5, <1>6 DEF SyncInv

(* The VM that a guest's row is matched with: it was listed, the sync has  *)
(* not written it, and no other row has its id.  Where the row had another *)
(* id, that VM is gone.                                                    *)
LEMMA Matched ==
    ASSUME GuestSyncAssumption, SyncInv, NEW g \in Guests, sync.busy, g \in sync.todo, Alone(g),
           NEW i \in Match(sync.vm[g])
    PROVE  /\ i \in Ids /\ sync.listed[i] # None /\ i \notin sync.wrote
           /\ i \notin late => netbox[i] = sync.listed[i]
           /\ \A h \in There(vm) \ {g} : sync.vm[h].nb # i
           /\ sync.vm[g].nb # None =>
                 IF sync.listed[sync.vm[g].nb] # None THEN i = sync.vm[g].nb
                 ELSE sync.vm[g].nb \in shaky /\ netbox[sync.vm[g].nb] = None
<1>1. SyncOK BY DEF SyncInv
<1>2. g \in There(vm) /\ sync.vm[g] = vm[g] /\ vm[g] \in Row BY <1>1, RowsThere DEF SyncOK
<1>3. vm[g].nb \in Ids \cup {None} BY <1>2 DEF Row
<1>4. i \in Ids /\ sync.listed[i] # None
  BY <1>2, <1>3 DEF Match, Named, There, SyncInv, TypeOK
<1>5. \A h \in There(vm) \ {g} : sync.vm[h].nb # i BY <1>1 DEF Alone, SyncOK
<1>6. i \notin sync.wrote BY <1>1, <1>5 DEF SyncOK
<1>7. i \notin late => netbox[i] = sync.listed[i] BY <1>1, <1>4, <1>6 DEF SyncOK
<1>8. vm[g].nb # None => IF sync.listed[vm[g].nb] # None THEN i = vm[g].nb
                         ELSE vm[g].nb \in shaky /\ netbox[vm[g].nb] = None
  BY <1>1, <1>2 DEF Match, SyncOK
<1>. QED BY <1>2, <1>4, <1>5, <1>6, <1>7, <1>8

(* One guest is done: x is its row now, i its VM, which no other row has.  *)
LEMMA StepKeeps ==
    ASSUME GuestSyncAssumption, SyncInv, sync.busy, NEW g \in sync.todo, NEW i \in Ids, NEW x \in Row,
           x.nb = i, x.value \in Known,
           \A h \in There(vm) \ {g} : sync.vm[h].nb # i,
           UNCHANGED <<source, vm, diverged, edits, passes, meant, fresh, late>>,
           shaky \subseteq shaky', shaky' \subseteq shaky \cup {i},
           netbox' \in [Ids -> Guest \cup {None}], \A j \in Ids \ {i} : netbox'[j] = netbox[j],
           netbox[i] = None /\ netbox'[i] # None => i \notin shaky,
           netbox[i] # None => netbox'[i] # None,
           sync' \in SyncType, sync'.busy, sync'.listed = sync.listed, sync'.todo = sync.todo \ {g},
           sync'.vm = [sync.vm EXCEPT ![g] = x],
           sync'.diverged \subseteq sync.diverged \cup {g}, sync.diverged \ {g} \subseteq sync'.diverged,
           sync.wrote \subseteq sync'.wrote, sync'.wrote \subseteq sync.wrote \cup {i},
           netbox'[i] # netbox[i] => i \in sync'.wrote,
           \A h \in Guests \ {g} : sync'.meant[h] = sync.meant[h],
           x.baseline # None, x.baseline = sync'.meant[g],
           i \notin shaky' => netbox'[i] # None /\ (netbox'[i].value = x.baseline \/ Touched(x)'),
           vm[g].nb # None /\ sync.listed[vm[g].nb] # None => i = vm[g].nb,
           fresh = "syncing" /\ g \notin sync'.diverged /\ x.value # Unknown => netbox'[i].value = x.value,
           g \in sync'.diverged => Touched(x)'
    PROVE  SyncInv'
<1>1. SyncOK BY DEF SyncInv
<1>2. /\ shaky \subseteq Ids /\ x # None /\ i # None /\ There(vm) \subseteq Guests
      /\ There(sync.vm) = There(vm) /\ sync.todo \subseteq There(vm)
      /\ sync.vm \in [Guests -> Row \cup {None}]
  BY <1>1 DEF SyncInv, TypeOK, SyncOK, There, GuestSyncAssumption, Ids
<1>3. There(vm)' = There(vm) /\ There(sync.vm)' = There(vm)
  BY <1>2 DEF There
<1>4. TypeOK'
  <2>1. /\ sync'.vm \in [Guests -> Row \cup {None}] /\ sync'.listed \in [Ids -> Guest \cup {None}]
        /\ sync'.todo \subseteq There(vm)
    BY <1>2 DEF SyncType
  <2>2. shaky' \subseteq Ids BY <1>2
  <2>. QED BY <1>3, <2>1, <2>2 DEF SyncInv, TypeOK
<1>5. ASSUME NEW j \in shaky, netbox[j] = None PROVE netbox'[j] = None
  BY <1>2, <1>5
<1>6. ASSUME NEW y, Touched(y) PROVE Touched(y)' BY <1>5, <1>6, StaysTouched
<1>7. ASSUME NEW h \in There(vm)
      PROVE  Linked(h, vm[h], meant)' /\ Mirrored(vm[h], shaky \cup sync.wrote)'
  <2>1. Linked(h, vm[h], meant) /\ Mirrored(vm[h], shaky \cup sync.wrote) BY DEF SyncInv
  <2>2. vm[h].nb \in Ids \cup {None} BY RowsThere DEF Row
  <2>3. PICK y : y = vm[h] OBVIOUS
  <2>4. ASSUME y.nb # None, y.nb \notin shaky' \cup sync'.wrote
        PROVE  netbox'[y.nb] # None /\ (netbox'[y.nb].value = y.baseline \/ Touched(y)')
    <3>1. netbox'[y.nb] = netbox[y.nb] BY <2>2, <2>3, <2>4
    <3>2. netbox[y.nb] # None /\ (netbox[y.nb].value = y.baseline \/ Touched(y))
      BY <2>1, <2>3, <2>4 DEF Mirrored
    <3>. QED BY <3>1, <3>2, <1>6
  <2>5. Mirrored(y, shaky \cup sync.wrote)' BY <2>4 DEF Mirrored
  <2>. QED BY <2>1, <2>3, <2>5 DEF Linked, Mirrored, Touched
<1>8. \A h \in diverged' : Touched(vm[h])' BY <1>6 DEF SyncInv, Touched
<1>9. ASSUME NEW h \in There(vm)
      PROVE  /\ Linked(h, sync.vm[h], sync.meant)'
             /\ h \in sync'.todo => sync'.vm[h] = vm[h]
             /\ h \notin sync'.todo => DoneOK(h)'
             /\ vm[h].nb # None /\ sync.listed[vm[h].nb] = None
                  => vm[h].nb \in shaky' /\ netbox'[vm[h].nb] = None
  <2>1. vm[h].nb # None /\ sync.listed[vm[h].nb] = None
          => vm[h].nb \in shaky' /\ netbox'[vm[h].nb] = None
    BY <1>1, <1>5 DEF SyncOK
  <2>2. CASE h = g
    <3>1. sync'.vm[h] = x /\ h \notin sync'.todo BY <1>2, <2>2
    <3>2. Linked(h, sync.vm[h], sync.meant)' BY <1>2, <2>2, <3>1 DEF Linked
    <3>3. Mirrored(x, shaky)' BY DEF Mirrored
    <3>4. DoneOK(h)' BY <1>2, <2>2, <3>1, <3>3 DEF DoneOK, Mirrored, Touched, Shown
    <3>. QED BY <2>1, <3>1, <3>2, <3>4
  <2>3. CASE h # g
    <3>1. sync'.vm[h] = sync.vm[h] /\ (h \in sync'.todo <=> h \in sync.todo) BY <1>2, <2>3
    <3>2. Linked(h, sync.vm[h], sync.meant)'
      <4>1. Linked(h, sync.vm[h], sync.meant) /\ sync'.meant[h] = sync.meant[h] BY <1>1, <1>2, <2>3 DEF SyncOK
      <4>. QED BY <3>1, <4>1 DEF Linked
    <3>3. ASSUME h \notin sync.todo PROVE DoneOK(h)'
      <4>1. DoneOK(h) BY <1>1, <3>3 DEF SyncOK
      <4>2. PICK y : y = sync.vm[h] OBVIOUS
      <4>3. y.nb \in Ids /\ y.nb # i
        <5>1. h \in There(sync.vm) BY <1>2
        <5>2. sync.vm[h] \in Row BY <1>2, <5>1 DEF There
        <5>. QED BY <4>1, <4>2, <5>2, <2>3 DEF Row, DoneOK
      <4>4. netbox'[y.nb] = netbox[y.nb] BY <4>3
      <4>5. Mirrored(y, shaky)' BY <4>1, <4>2, <4>4, <1>6 DEF DoneOK, Mirrored
      <4>6. Shown(y) => Shown(y)' BY <4>4 DEF Shown
      <4>. QED BY <2>3, <3>1, <4>1, <4>2, <4>5, <4>6 DEF DoneOK, Mirrored, Touched, Shown
    <3>. QED BY <1>1, <2>1, <3>1, <3>2, <3>3 DEF SyncOK
  <2>. QED BY <2>2, <2>3
<1>10. ASSUME NEW h \in sync'.diverged PROVE Touched(sync.vm[h])'
  <2>1. CASE h = g BY <1>2, <1>10, <2>1 DEF Touched
  <2>2. CASE h # g
    <3>1. h \in sync.diverged BY <2>2
    <3>2. Touched(sync.vm[h]) /\ h \in Guests BY <1>1, <1>2, <3>1 DEF SyncOK
    <3>3. sync'.vm[h] = sync.vm[h] BY <1>2, <2>2, <3>2
    <3>. QED BY <1>6, <3>2, <3>3 DEF Touched
  <2>. QED BY <2>1, <2>2
<1>11. ASSUME NEW j \in sync'.wrote PROVE \E h \in There(vm) \ sync'.todo : sync'.vm[h].nb = j
  <2>1. CASE j = i BY <1>2, <2>1
  <2>2. CASE j # i
    <3>1. PICK h \in There(vm) \ sync.todo : sync.vm[h].nb = j BY <1>1, <1>11, <2>2 DEF SyncOK
    <3>. QED BY <1>2, <3>1
  <2>. QED BY <2>1, <2>2
<1>12. \A j \in Ids \ (late \cup sync'.wrote) : netbox'[j] = sync.listed[j] BY <1>1 DEF SyncOK
<1>13. SyncOK'
  <2>1. sync'.todo \subseteq There(vm) /\ sync'.diverged \subseteq There(vm) BY <1>1 DEF SyncOK
  <2>. QED BY <1>3, <1>9, <1>10, <1>11, <1>12, <2>1 DEF SyncOK
<1>. QED BY <1>3, <1>4, <1>7, <1>8, <1>13 DEF SyncInv

(* Where a sync stands when it comes to a guest.                           *)
LEMMA Turn ==
    ASSUME GuestSyncAssumption, SyncInv, NEW g \in Guests, StepIn(g)
    PROVE  /\ sync.busy /\ g \in sync.todo /\ Alone(g) /\ SyncOK
           /\ g \in There(vm) /\ sync.vm[g] = vm[g] /\ vm[g] \in Row
           /\ vm[g].name \in Names /\ vm[g].value \in Known /\ vm[g].nb \in Ids \cup {None}
           /\ vm[g].baseline \in Known \cup {None} /\ vm[g].value # None
           /\ Linked(g, vm[g], sync.meant) /\ Mirrored(vm[g], shaky \cup sync.wrote)
           /\ g \in sync.diverged => Touched(vm[g])
           /\ UNCHANGED <<source, vm, diverged, edits, passes, meant, fresh>>
<1>1. sync.busy /\ g \in sync.todo /\ Alone(g) BY DEF StepIn
<1>2. UNCHANGED <<source, vm, diverged, edits, passes, meant, fresh>> BY DEF StepIn
<1>3. SyncOK BY <1>1 DEF SyncInv
<1>4. g \in There(vm) /\ sync.vm[g] = vm[g] BY <1>1, <1>3 DEF SyncOK
<1>5. vm[g] \in Row BY <1>4, RowsThere
<1>6. /\ vm[g].name \in Names /\ vm[g].value \in Known /\ vm[g].nb \in Ids \cup {None}
      /\ vm[g].baseline \in Known \cup {None}
  BY <1>5 DEF Row
<1>7. vm[g].value # None BY <1>6 DEF GuestSyncAssumption
<1>8. Linked(g, vm[g], sync.meant) BY <1>3, <1>4 DEF SyncOK
<1>9. Mirrored(vm[g], shaky \cup sync.wrote) BY <1>4 DEF SyncInv
<1>10. g \in sync.diverged => Touched(vm[g]) BY <1>3, <1>4 DEF SyncOK
<1>. QED BY <1>1, <1>2, <1>3, <1>4, <1>5, <1>6, <1>7, <1>8, <1>9, <1>10

(* A VM is made for a guest: no row has its id, which NetBox has never     *)
(* given.                                                                  *)
LEMMA CreateKeeps ==
    ASSUME GuestSyncAssumption, SyncInv, NEW g \in Guests, StepIn(g), CreateIn(g)
    PROVE  SyncInv'
<1>1. /\ sync.busy /\ g \in sync.todo /\ SyncOK /\ g \in There(vm) /\ sync.vm[g] = vm[g]
      /\ vm[g] \in Row /\ vm[g].name \in Names /\ vm[g].value \in Known /\ vm[g].nb \in Ids \cup {None}
      /\ vm[g].value # None
      /\ g \in sync.diverged => Touched(vm[g])
      /\ UNCHANGED <<source, vm, diverged, edits, passes, meant, fresh>>
  BY Turn
<1>2. PICK row : row = vm[g] OBVIOUS
<1>3. PICK i \in Ids :
        /\ NeverUsed(i)
        /\ netbox' = [netbox EXCEPT ![i] = [name |-> row.name, value |-> row.value]]
        /\ sync' = [Done(g, [row EXCEPT !.nb = i, !.baseline = row.value]) EXCEPT !.wrote = @ \cup {i},
                                                                   !.meant[g] = row.value]
  BY <1>1, <1>2 DEF CreateIn
<1>4. Match(row) = {} /\ UNCHANGED <<shaky, late>> BY <1>1, <1>2 DEF CreateIn
<1>5. netbox[i] = None /\ i \notin shaky /\ i # None
  BY <1>3 DEF NeverUsed, GuestSyncAssumption, Ids
<1>6. PICK x : x = [row EXCEPT !.nb = i, !.baseline = row.value] OBVIOUS
<1>7. x \in Row /\ x.nb = i /\ x.value = row.value /\ x.baseline = row.value
  BY <1>1, <1>2, <1>6 DEF Row
<1>8. /\ netbox' \in [Ids -> Guest \cup {None}] /\ netbox'[i].value = row.value /\ netbox'[i] # None
      /\ \A j \in Ids \ {i} : netbox'[j] = netbox[j]
  <2>1. netbox \in [Ids -> Guest \cup {None}] BY DEF SyncInv, TypeOK
  <2>2. [name |-> row.name, value |-> row.value] \in Guest BY <1>1, <1>2 DEF Guest
  <2>3. None \notin Guest BY DEF GuestSyncAssumption
  <2>. QED BY <1>3, <2>1, <2>2, <2>3
<1>9. sync' = [Done(g, x) EXCEPT !.wrote = @ \cup {i}, !.meant[g] = row.value] BY <1>3, <1>6
<1>10. /\ sync' \in SyncType /\ sync'.busy /\ sync'.listed = sync.listed /\ sync'.todo = sync.todo \ {g}
       /\ sync'.vm = [sync.vm EXCEPT ![g] = x] /\ sync'.diverged = sync.diverged
       /\ sync'.wrote = sync.wrote \cup {i} /\ sync'.meant = [sync.meant EXCEPT ![g] = row.value]
  BY <1>1, <1>2, <1>7, <1>9 DEF SyncInv, SyncType, Done
<1>11. sync'.meant[g] = row.value /\ \A h \in Guests \ {g} : sync'.meant[h] = sync.meant[h]
  BY <1>10 DEF SyncInv, SyncType
<1>12. ASSUME NEW h \in There(vm) \ {g}, sync.vm[h].nb = i PROVE FALSE
  <2>1. ASSUME NEW k \in There(vm) \ sync.todo, sync.vm[k].nb = i PROVE FALSE
    <3>1. Mirrored(sync.vm[k], shaky) BY <1>1, <2>1 DEF SyncOK, DoneOK
    <3>. QED BY <1>5, <2>1, <3>1 DEF Mirrored
  <2>2. h \in sync.todo /\ sync.vm[h] = vm[h] BY <1>1, <1>12, <2>1 DEF SyncOK
  <2>3. Mirrored(vm[h], shaky \cup sync.wrote) BY DEF SyncInv
  <2>4. i \in sync.wrote BY <1>5, <1>12, <2>2, <2>3 DEF Mirrored
  <2>. QED BY <1>1, <2>1, <2>4 DEF SyncOK
<1>13. row.nb # None => sync.listed[row.nb] = None /\ row.nb \in shaky /\ netbox[row.nb] = None
  <2>1. row.nb # None => sync.listed[row.nb] = None BY <1>4 DEF Match
  <2>. QED BY <1>1, <1>2, <2>1 DEF SyncOK
<1>14. ASSUME g \in sync.diverged PROVE Touched(x)'
  <2>1. PICK k \in shaky : row.nb = k \/ netbox[k] = None BY <1>1, <1>2, <1>14 DEF Touched
  <2>2. k \in Ids BY <2>1 DEF SyncInv, TypeOK
  <2>3. k # None BY <2>2 DEF Ids, GuestSyncAssumption
  <2>4. netbox[k] = None BY <1>13, <2>1, <2>3
  <2>5. netbox'[k] = None /\ k \in shaky' BY <1>4, <1>5, <1>8, <2>1, <2>2, <2>4
  <2>. QED BY <2>5 DEF Touched
<1>15. UNCHANGED <<source, vm, diverged, edits, passes, meant, fresh, late, shaky>> BY <1>1, <1>4
<1>. QED BY <1>1, <1>2, <1>4, <1>5, <1>7, <1>8, <1>10, <1>11, <1>12, <1>13, <1>14, <1>15, StepKeeps

(* A hand edit is left, and reported: the VM is shaky, or took the place   *)
(* of one that is gone.                                                    *)
LEMMA SkipKeeps ==
    ASSUME GuestSyncAssumption, SyncInv, NEW g \in Guests, StepIn(g), SkipIn(g)
    PROVE  SyncInv'
<1>1. /\ sync.busy /\ g \in sync.todo /\ Alone(g) /\ SyncOK /\ g \in There(vm) /\ sync.vm[g] = vm[g]
      /\ vm[g] \in Row /\ vm[g].value \in Known /\ vm[g].nb \in Ids \cup {None}
      /\ Linked(g, vm[g], sync.meant) /\ Mirrored(vm[g], shaky \cup sync.wrote)
      /\ UNCHANGED <<source, vm, diverged, edits, passes, meant, fresh>>
  BY Turn
<1>2. PICK row : row = vm[g] OBVIOUS
<1>3. PICK i \in Match(row) :
        /\ Diverged(row, sync.listed[i].value)
        /\ sync' = [Done(g, [row EXCEPT !.nb = i]) EXCEPT !.diverged = @ \cup {g}]
        /\ UNCHANGED <<netbox, shaky, late>>
  BY <1>1, <1>2 DEF SkipIn
<1>4. /\ i \in Ids /\ sync.listed[i] # None /\ i \notin sync.wrote
      /\ i \notin late => netbox[i] = sync.listed[i]
      /\ \A h \in There(vm) \ {g} : sync.vm[h].nb # i
      /\ row.nb # None => IF sync.listed[row.nb] # None THEN i = row.nb
                          ELSE row.nb \in shaky /\ netbox[row.nb] = None
  BY <1>1, <1>2, <1>3, Matched
<1>5. row.baseline # None /\ sync.listed[i].value # row.baseline BY <1>3 DEF Diverged
<1>6. PICK x : x = [row EXCEPT !.nb = i] OBVIOUS
<1>7. x \in Row /\ x.nb = i /\ x.value = row.value /\ x.baseline = row.baseline
  BY <1>1, <1>2, <1>4, <1>6 DEF Row
<1>8. sync' = [Done(g, x) EXCEPT !.diverged = @ \cup {g}] BY <1>3, <1>6
<1>9. /\ sync' \in SyncType /\ sync'.busy /\ sync'.listed = sync.listed /\ sync'.todo = sync.todo \ {g}
      /\ sync'.vm = [sync.vm EXCEPT ![g] = x] /\ sync'.diverged = sync.diverged \cup {g}
      /\ sync'.wrote = sync.wrote /\ sync'.meant = sync.meant
  BY <1>1, <1>7, <1>8 DEF SyncInv, SyncType, Done
<1>10. row.nb # None /\ row.baseline = sync.meant[g] BY <1>1, <1>2, <1>5 DEF Linked
<1>11. Touched(x)
  <2>1. CASE i \in shaky BY <1>7, <2>1 DEF Touched
  <2>2. CASE i \notin shaky /\ i = row.nb
    <3>1. netbox[i] = sync.listed[i] BY <1>4, <2>2 DEF SyncInv
    <3>2. netbox[i].value = row.baseline \/ Touched(row) BY <1>1, <1>2, <1>4, <1>10, <2>2 DEF Mirrored
    <3>. QED BY <1>5, <1>7, <2>2, <3>1, <3>2 DEF Touched
  <2>3. CASE i # row.nb BY <1>4, <1>10, <2>3 DEF Touched
  <2>. QED BY <2>1, <2>2, <2>3
<1>12. Touched(x)' BY <1>3, <1>11 DEF Touched
<1>13. i \notin shaky' => netbox'[i] # None BY <1>3, <1>4 DEF SyncInv
<1>14. netbox' \in [Ids -> Guest \cup {None}] BY <1>3 DEF SyncInv, TypeOK
<1>15. UNCHANGED <<source, vm, diverged, edits, passes, meant, fresh, late, shaky, netbox>> BY <1>1, <1>3
<1>16. vm[g].nb # None /\ sync.listed[vm[g].nb] # None => i = vm[g].nb BY <1>2, <1>4
<1>. QED BY <1>1, <1>2, <1>4, <1>5, <1>7, <1>9, <1>10, <1>12, <1>13, <1>14, <1>15, <1>16, StepKeeps

(* NetBox is brought to the row, if the listing shows it elsewhere.        *)
LEMMA UpdateKeeps ==
    ASSUME GuestSyncAssumption, SyncInv, NEW g \in Guests, StepIn(g), UpdateIn(g)
    PROVE  SyncInv'
<1>1. /\ sync.busy /\ g \in sync.todo /\ Alone(g) /\ SyncOK /\ g \in There(vm) /\ sync.vm[g] = vm[g]
      /\ vm[g] \in Row /\ vm[g].name \in Names /\ vm[g].value \in Known /\ vm[g].nb \in Ids \cup {None}
      /\ vm[g].value # None
      /\ UNCHANGED <<source, vm, diverged, edits, passes, meant, fresh>>
  BY Turn
<1>2. PICK row : row = vm[g] OBVIOUS
<1>3. PICK i \in Match(row), writes \in BOOLEAN :
        /\ writes <=> sync.listed[i].value # row.value
        /\ writes => netbox[i] # None
        /\ netbox' = IF writes THEN [netbox EXCEPT ![i] = Patched(@, row)] ELSE netbox
        /\ sync' = [Done(g, [row EXCEPT !.nb = i, !.baseline = row.value])
                      EXCEPT !.diverged = @ \ {g},
                             !.wrote = IF writes THEN @ \cup {i} ELSE @,
                             !.meant[g] = row.value]
        /\ shaky' = IF row.value = Unknown /\ writes THEN shaky \cup {i} ELSE shaky
        /\ UNCHANGED late
  BY <1>1, <1>2, ZenonT(40) DEF UpdateIn, Baseline
<1>4. /\ i \in Ids /\ i # None /\ sync.listed[i] # None
      /\ i \notin late => netbox[i] = sync.listed[i]
      /\ \A h \in There(vm) \ {g} : sync.vm[h].nb # i
      /\ row.nb # None /\ sync.listed[row.nb] # None => i = row.nb
  BY <1>1, <1>2, <1>3, Matched DEF GuestSyncAssumption, Ids
<1>5. PICK x : x = [row EXCEPT !.nb = i, !.baseline = row.value] OBVIOUS
<1>6. x \in Row /\ x.nb = i /\ x.value = row.value /\ x.baseline = row.value
  BY <1>1, <1>2, <1>4, <1>5 DEF Row
<1>7. sync' = [Done(g, x) EXCEPT !.diverged = @ \ {g}, !.wrote = IF writes THEN @ \cup {i} ELSE @,
                                 !.meant[g] = row.value]
  BY <1>3, <1>5
<1>8. /\ sync' \in SyncType /\ sync'.busy /\ sync'.listed = sync.listed /\ sync'.todo = sync.todo \ {g}
      /\ sync'.vm = [sync.vm EXCEPT ![g] = x] /\ sync'.diverged = sync.diverged \ {g}
      /\ sync'.wrote = (IF writes THEN sync.wrote \cup {i} ELSE sync.wrote)
      /\ sync'.meant = [sync.meant EXCEPT ![g] = row.value]
  BY <1>1, <1>2, <1>4, <1>6, <1>7 DEF SyncInv, SyncType, Done
<1>9. sync'.meant[g] = row.value /\ \A h \in Guests \ {g} : sync'.meant[h] = sync.meant[h]
  BY <1>8 DEF SyncInv, SyncType
<1>10. netbox \in [Ids -> Guest \cup {None}] /\ None \notin Guest /\ late \subseteq shaky
  BY DEF SyncInv, TypeOK, GuestSyncAssumption
<1>11. writes => Patched(netbox[i], row) \in Guest /\ (row.value # Unknown => Patched(netbox[i], row).value = row.value)
  BY <1>1, <1>2, <1>3, <1>4, <1>10 DEF Patched, Guest
<1>12. /\ netbox' \in [Ids -> Guest \cup {None}] /\ \A j \in Ids \ {i} : netbox'[j] = netbox[j]
       /\ writes => netbox'[i] = Patched(netbox[i], row)
       /\ ~writes => netbox'[i] = netbox[i]
       /\ netbox[i] # None => netbox'[i] # None
       /\ netbox'[i] # netbox[i] => writes
       /\ netbox[i] = None => netbox'[i] = None
  BY <1>3, <1>4, <1>10, <1>11
<1>13. i \notin late => netbox'[i] # None /\ (~writes \/ row.value # Unknown => netbox'[i].value = row.value)
  BY <1>3, <1>4, <1>10, <1>11, <1>12
<1>14. i \notin shaky' => netbox'[i] # None /\ netbox'[i].value = x.baseline
  BY <1>3, <1>6, <1>10, <1>13
<1>15. fresh = "syncing" /\ row.value # Unknown => netbox'[i].value = row.value
  BY <1>13 DEF SyncInv
<1>16. shaky \subseteq shaky' /\ shaky' \subseteq shaky \cup {i} BY <1>3
<1>17. UNCHANGED <<source, vm, diverged, edits, passes, meant, fresh, late>> BY <1>1, <1>3
<1>18. vm[g].nb # None /\ sync.listed[vm[g].nb] # None => i = vm[g].nb BY <1>2, <1>4
<1>19. x.value \in Known /\ x.baseline # None BY <1>1, <1>2, <1>6
<1>20. x.baseline = sync'.meant[g] BY <1>6, <1>9
<1>21. g \notin sync'.diverged BY <1>8
<1>22. /\ sync'.diverged \subseteq sync.diverged \cup {g} /\ sync.diverged \ {g} \subseteq sync'.diverged
       /\ sync.wrote \subseteq sync'.wrote /\ sync'.wrote \subseteq sync.wrote \cup {i}
       /\ netbox'[i] # netbox[i] => i \in sync'.wrote
  BY <1>8, <1>12
<1>. QED BY <1>1, <1>4, <1>6, <1>8, <1>9, <1>12, <1>14, <1>15, <1>16, <1>17, <1>18, <1>19, <1>20, <1>21, <1>22, StepKeeps

(* The invariant holds throughout.                                         *)
LEMMA NextSyncInv ==
    ASSUME GuestSyncAssumption, ~Direct, SyncInv, [Next]_vars
    PROVE  SyncInv'
<1>1. CASE UNCHANGED vars
  <2>. QED BY <1>1 DEF vars, SyncInv, TypeOK, SyncType, SyncOK, There, Linked, Mirrored, Touched, Shown,
                       DoneOK, Idle
<1>2. ASSUME NEW g \in Guests, Change(g) PROVE SyncInv' BY <1>2, ChangeKeeps
<1>3. ASSUME NEW g \in Guests, Push(g) PROVE SyncInv' BY <1>3 DEF Push
<1>4. ASSUME NEW g \in Guests, StepIn(g) PROVE SyncInv'
  BY <1>4, CreateKeeps, SkipKeeps, UpdateKeeps DEF StepIn
<1>5. ASSUME NEW i \in Ids, NEW x \in Guest \cup {None}, EditNetBox(i, x) PROVE SyncInv'
  BY <1>5, EditKeeps
<1>6. CASE Discover BY <1>6, DiscoverKeeps
<1>7. CASE List BY <1>7, ListKeeps
<1>8. CASE Commit BY <1>8, CommitKeeps
<1>9. CASE Fail BY <1>9, FailKeeps
<1>. QED BY <1>1, <1>2, <1>3, <1>4, <1>5, <1>6, <1>7, <1>8, <1>9 DEF Next

(* Types of the rows, of NetBox and of the sync under way, wherever only   *)
(* syncs write NetBox: every state of the reconciler and of the sync of    *)
(* engine/virt_reconcile.py and engine/netbox_vm_sync.py.                  *)
THEOREM GuestTypes ==
    ASSUME GuestSyncAssumption, ~Direct
    PROVE  Spec => []TypeOK
<1>1. Init => SyncInv BY InitSyncInv
<1>2. SyncInv /\ [Next]_vars => SyncInv' BY NextSyncInv
<1>3. SyncInv => TypeOK BY DEF SyncInv
<1>. QED BY <1>1, <1>2, <1>3, PTL DEF Spec
-----------------------------------------------------------------------------
(* A reported guest has its reason, and after an undisturbed sync NetBox   *)
(* shows the rows that it did not report.                                  *)
LEMMA InvSynced ==
    ASSUME SyncInv
    PROVE  SyncedMeansSame
<1>1. \A g \in There(vm) \ diverged : fresh = "yes" => Shown(vm[g]) BY DEF SyncInv
<1>2. \A g \in diverged : Touched(vm[g]) BY DEF SyncInv
<1>. QED BY <1>1, <1>2 DEF SyncedMeansSame, Shown, Touched

(* An undisturbed sync of sync_cluster_to_netbox() leaves NetBox as the    *)
(* rows are, but for the guests it reports, each of which somebody or an   *)
(* unrecorded write has touched.                                           *)
THEOREM SyncedIsSame ==
    ASSUME GuestSyncAssumption, ~Direct
    PROVE  Spec => []SyncedMeansSame
<1>1. Init => SyncInv BY InitSyncInv
<1>2. SyncInv /\ [Next]_vars => SyncInv' BY NextSyncInv
<1>3. SyncInv => SyncedMeansSame BY InvSynced
<1>. QED BY <1>1, <1>2, <1>3, PTL DEF Spec
-----------------------------------------------------------------------------
(* The VM that a step of a sync changes is none's, or the guest's own, and *)
(* showed the guest's baseline.                                            *)
LEMMA OverwritesOwn ==
    ASSUME GuestSyncAssumption, SyncInv, NEW g \in Guests, StepIn(g),
           NEW i \in Ids, i \notin late, netbox[i] # None, netbox[i] # netbox'[i],
           NEW h \in There(vm), vm[h].nb = i, vm[h].baseline # None
    PROVE  netbox[i].value = meant[h]
<1>1. /\ sync.busy /\ g \in sync.todo /\ Alone(g) /\ SyncOK /\ sync.vm[g] = vm[g]
  BY Turn
<1>2. netbox \in [Ids -> Guest \cup {None}] BY DEF SyncInv, TypeOK
<1>3. ~CreateIn(g) BY <1>2 DEF CreateIn, NeverUsed
<1>4. ~SkipIn(g) BY DEF SkipIn
<1>5. PICK j \in Match(sync.vm[g]) :
        /\ ~Diverged(vm[g], sync.listed[j].value)
        /\ netbox' = netbox \/ netbox' = [netbox EXCEPT ![j] = Patched(@, vm[g])]
  BY <1>1, <1>3, <1>4 DEF StepIn, UpdateIn
<1>6. i = j BY <1>2, <1>5
<1>7. /\ netbox[i] = sync.listed[i] /\ \A k \in There(vm) \ {g} : sync.vm[k].nb # i
  BY <1>1, <1>5, <1>6, Matched
<1>8. h = g
  <2>1. SUFFICES ASSUME h # g PROVE FALSE OBVIOUS
  <2>2. sync.vm[h].nb # i BY <1>7, <2>1
  <2>3. h \notin sync.todo /\ DoneOK(h) BY <1>1, <2>2 DEF SyncOK
  <2>4. sync.listed[i] # None BY <1>7
  <2>5. i # None BY DEF Ids, GuestSyncAssumption
  <2>. QED BY <2>2, <2>3, <2>4, <2>5 DEF DoneOK
<1>9. netbox[i].value = vm[h].baseline BY <1>5, <1>6, <1>7, <1>8 DEF Diverged
<1>10. vm[h].baseline = meant[h] BY DEF SyncInv, Linked
<1>. QED BY <1>9, <1>10

(* A sync overwrites only what the harness itself last wrote of the guest, *)
(* or left, but for a hand edit that its listing could not show: where     *)
(* discoveries do not write NetBox past the merge (they do: see Push).     *)
THEOREM EditsAreKept ==
    ASSUME GuestSyncAssumption, ~Direct
    PROVE  Spec => HandEditsKept
<1>1. Init => SyncInv BY InitSyncInv
<1>2. SyncInv /\ [Next]_vars => SyncInv' BY NextSyncInv
<1>3. SyncInv /\ [Next]_vars => [HandEditsKeptStep]_vars
  <2>. SUFFICES ASSUME SyncInv, Next, NEW i \in Ids, NEW h \in There(vm),
                       edits' = edits, i \notin late, netbox[i] # None, netbox[i] # netbox'[i],
                       vm[h].nb = i, vm[h].baseline # None
                PROVE  netbox[i].value = meant[h]
    BY DEF HandEditsKeptStep
  <2>1. edits \in Nat BY DEF SyncInv, TypeOK
  <2>2. ASSUME NEW g \in Guests, Change(g) PROVE FALSE BY <2>1, <2>2 DEF Change, Edited
  <2>3. ASSUME NEW g \in Guests, Push(g) PROVE FALSE BY <2>3 DEF Push
  <2>4. ASSUME NEW j \in Ids, NEW x \in Guest \cup {None}, EditNetBox(j, x) PROVE FALSE
    BY <2>1, <2>4 DEF EditNetBox, Edited
  <2>5. ~Discover BY DEF Discover
  <2>6. ~List /\ ~Commit /\ ~Fail BY DEF List, Commit, Fail
  <2>7. PICK g \in Guests : StepIn(g) BY <2>2, <2>3, <2>4, <2>5, <2>6 DEF Next
  <2>. QED BY <2>7, OverwritesOwn
<1>. QED BY <1>1, <1>2, <1>3, PTL DEF Spec, HandEditsKept
-----------------------------------------------------------------------------
(***************************************************************************)
(* Hosts: the invariant says of each push what it may still write, and of  *)
(* one that nobody came near that this is all there is to write.           *)
(***************************************************************************)

Calls == [op : {"create", "update", "delete"}, slot : Slots, id : Host!Ids \cup {None}]

(* What a push means each slot to hold.                                   *)
Wanted == UNION {[D -> Parts] : D \in SUBSET Slots}

PushType == [stage : {"resting", "fields", "listing", "writing", "ending"},
             device : Host!Devices \cup {None}, host : Parts \cup {None},
             wanted : Wanted,
             passes : SUBSET {"fields", "items"}, todo : SUBSET Calls, twins : BOOLEAN, quiet : BOOLEAN]

(* A push that is under way knows its device and the host's fields, and    *)
(* what it still has to write is of slots that it wants or of items that   *)
(* sit where it found them, if they are there at all.                      *)
Aimed(x) ==
    /\ x.stage # "resting" => x.device # None /\ x.host # None
    /\ x.todo # {} => x.stage = "writing"
    /\ \A c \in x.todo :
          /\ c.op # "delete" <=> c.slot \in DOMAIN x.wanted
          /\ c.op # "create" =>
                /\ c.id \in Host!Ids /\ c.id <= made
                /\ item[c.id] # None => item[c.id].device = x.device /\ item[c.id].slot = c.slot

(* The item of a wanted slot says what is wanted.                          *)
Shows(d, s, part) == Host!Row(d, s) # {} /\ item[Host!Max(Host!Row(d, s))].part = part

(* What the writes of an undisturbed push have left to do is all that      *)
(* there is to do.                                                         *)
Remaining(x) ==
    /\ \A c \in x.todo :
          /\ c.op = "create" => Host!Row(x.device, c.slot) = {}
          /\ c.op # "create" => c.id \in Host!Row(x.device, c.slot)
          /\ c.op = "update" => c.id = Host!Max(Host!Row(x.device, c.slot))
          /\ \A e \in x.todo : c.slot = e.slot => c = e
    /\ \A s \in DOMAIN x.wanted :
          (\E c \in x.todo : c.slot = s) \/ Shows(x.device, s, x.wanted[s])
    /\ ~x.twins => \A i \in Host!Listed(x.device) :
                      item[i].slot \in DOMAIN x.wanted \/ \E c \in x.todo : c.op = "delete" /\ c.id = i

(* How far an undisturbed push has come.                                   *)
Undisturbed(p, x) ==
    /\ \A q \in Pushers \ {p} : push[q].stage = "resting"
    /\ x.device = Host!Found
    /\ x.stage # "fields" /\ "fields" \in x.passes => device[x.device] = x.host
    /\ x.stage = "ending" => "items" \notin x.passes
    /\ x.stage = "writing" => Remaining(x)

(* The inductive invariant.                                                *)
HostInv ==
    /\ Host!TypeOK /\ push \in [Pushers -> PushType] /\ made \in Nat
    /\ \A i \in Host!Ids : i > made => item[i] = None
    /\ \A p \in Pushers : Aimed(push[p])
    /\ \A p \in Pushers : push[p].stage # "resting" /\ push[p].quiet => Undisturbed(p, push[p])
    /\ done # None => Host!MirrorsPlacements /\ \A p \in Pushers : push[p].stage = "resting"
-----------------------------------------------------------------------------
(* A non-empty set of numbers has a least one, a set of ids a last one.    *)
LEMMA LeastOf ==
    ASSUME NEW S, S \subseteq Nat, S # {}
    PROVE  Host!Min(S) \in S /\ \A m \in S : Host!Min(S) <= m
<1>1. \E n \in S : \A m \in S : ~ (<<m, n>> \in OpToRel(<, Nat))
  BY NatLessThanWellFounded, WFMin, Zenon
<1>2. PICK n \in S : \A m \in S : ~ (<<m, n>> \in OpToRel(<, Nat)) BY <1>1
<1>3. \A m \in S : ~ (m < n) BY <1>2 DEF OpToRel
<1>4. \A m \in S : n <= m BY <1>3
<1>. QED BY <1>4 DEF Host!Min

LEMMA LastOf ==
    ASSUME MaxItems \in Nat, NEW S, S \subseteq Host!Ids, S # {}
    PROVE  Host!Max(S) \in S
<1>. DEFINE above == {n \in Nat : \A i \in S : i <= n}
            top   == Host!Min(above)
<1>1. S \subseteq Nat /\ \A i \in S : i <= MaxItems BY DEF Host!Ids
<1>2. MaxItems \in above BY <1>1
<1>3. top \in above /\ \A m \in above : top <= m BY <1>2, LeastOf
<1>. HIDE DEF top
<1>4. top \in S
  <2>1. SUFFICES ASSUME top \notin S PROVE FALSE OBVIOUS
  <2>2. PICK i \in S : TRUE OBVIOUS
  <2>3. \A j \in S : j \in Nat /\ j < top BY <1>1, <1>3, <2>1
  <2>4. top - 1 \in above BY <1>3, <2>2, <2>3
  <2>. QED BY <1>3, <2>4
<1>5. \A j \in S : top >= j BY <1>1, <1>3
<1>. QED BY <1>4, <1>5 DEF Host!Max

LEMMA LastOfOne == ASSUME NEW i \in Nat PROVE Host!Max({i}) = i
BY DEF Host!Max

(* What is listed of a device are ids, each in the row of its slot.        *)
LEMMA RowsOfListed ==
    ASSUME NEW d, NEW s
    PROVE  /\ Host!Row(d, s) \subseteq Host!Listed(d) /\ Host!Listed(d) \subseteq Host!Ids
           /\ \A i \in Host!Listed(d) : i \in Host!Row(d, item[i].slot)
BY DEF Host!Row, Host!Listed

(* What the items say is what it was while they stay.                      *)
LEMMA SameRows ==
    ASSUME item' = item
    PROVE  /\ \A d : Host!Listed(d)' = Host!Listed(d)
           /\ \A d, s : Host!Row(d, s)' = Host!Row(d, s)
           /\ \A d, s, part : Shows(d, s, part)' = Shows(d, s, part)
<1>1. \A d : Host!Listed(d)' = Host!Listed(d) BY DEF Host!Listed
<1>2. \A d, s : Host!Row(d, s)' = Host!Row(d, s) BY <1>1 DEF Host!Row
<1>3. \A d, s, part : Shows(d, s, part)' = Shows(d, s, part) BY <1>2 DEF Shows
<1>. QED BY <1>1, <1>2, <1>3

(* The device that is found is there.                                      *)
LEMMA FoundIsThere ==
    ASSUME Host!HostPushAssumption, Host!Found # None
    PROVE  Host!Found \in Host!Devices /\ device[Host!Found] # None
BY DEF Host!Found, Host!Devices, Host!HostPushAssumption
-----------------------------------------------------------------------------
LEMMA RestingType == Host!Resting \in PushType
<1>1. <<>> \in [{} -> Parts] OBVIOUS
<1>2. <<>> \in Wanted BY <1>1 DEF Wanted
<1>. QED BY <1>2 DEF Host!Resting, PushType

LEMMA InitHostInv == Host!HostPushAssumption /\ Host!Init => HostInv
<1>. SUFFICES ASSUME Host!HostPushAssumption, Host!Init PROVE HostInv OBVIOUS
<1>1. Host!Min(Parts) \in Parts /\ Host!Min(Slots) \in Slots BY LeastOf DEF Host!HostPushAssumption
<1>2. Host!TypeOK
  BY <1>1 DEF Host!Init, Host!TypeOK, Host!HostPushAssumption, Host!Devices, Host!Ids, Host!Unset
<1>3. Host!Resting \in PushType BY RestingType
<1>4. \A p \in Pushers : Aimed(push[p]) /\ push[p].stage = "resting"
  BY DEF Host!Init, Host!Resting, Aimed
<1>. QED BY <1>2, <1>3, <1>4 DEF Host!Init, HostInv
-----------------------------------------------------------------------------
(* A push that nobody came near when it began has the device to itself.    *)
LEMMA BeginKeeps ==
    ASSUME Host!HostPushAssumption, HostInv, NEW p \in Pushers, Host!Begin(p)
    PROVE  HostInv'
<1>. USE DEF HostInv
<1>1. PICK ways \in SUBSET {"fields", "items"}, w \in Host!Desired :
          push' = [q \in Pushers |->
                     IF q # p THEN [push[q] EXCEPT !.quiet = FALSE]
                     ELSE IF Host!Found = None THEN Host!Resting
                     ELSE [Host!Resting EXCEPT !.stage = "fields", !.device = Host!Found, !.host = host,
                              !.wanted = w, !.passes = ways,
                              !.quiet = \A r \in Pushers : push[r].stage = "resting"]]
  BY DEF Host!Begin
<1>2. UNCHANGED <<placed, host, defined, device, item, made>> /\ done' = None BY DEF Host!Begin
<1>3. w \in Wanted
  <2>1. {q.slot : q \in placed} \in SUBSET Slots BY DEF Host!TypeOK
  <2>. QED BY <2>1 DEF Host!Desired, Wanted
<1>4. host \in Parts /\ host # None BY DEF Host!TypeOK, Host!HostPushAssumption
<1>5. \A q \in Pushers \ {p} :
          /\ push'[q] \in PushType /\ push'[q] = [push[q] EXCEPT !.quiet = FALSE]
          /\ push'[q].quiet = FALSE /\ push'[q].stage = push[q].stage /\ Aimed(push[q])'
  <2>. SUFFICES ASSUME NEW q \in Pushers \ {p}
                PROVE  /\ push'[q] \in PushType /\ push'[q] = [push[q] EXCEPT !.quiet = FALSE]
                       /\ push'[q].quiet = FALSE /\ push'[q].stage = push[q].stage /\ Aimed(push[q])'
    OBVIOUS
  <2>1. push[q] \in PushType /\ push'[q] = [push[q] EXCEPT !.quiet = FALSE] BY <1>1
  <2>2. /\ push'[q] \in PushType /\ push'[q].quiet = FALSE /\ push'[q].stage = push[q].stage
        /\ push'[q].device = push[q].device /\ push'[q].host = push[q].host
        /\ push'[q].wanted = push[q].wanted /\ push'[q].todo = push[q].todo
    BY <2>1 DEF PushType
  <2>3. Aimed(push[q]) OBVIOUS
  <2>4. Aimed(push[q])' BY <1>2, <2>2, <2>3 DEF Aimed
  <2>. QED BY <2>1, <2>2, <2>4
<1>6. CASE Host!Found = None
  <2>1. push'[p] = Host!Resting BY <1>1, <1>6
  <2>2. push'[p] \in PushType BY <2>1, RestingType
  <2>3. Aimed(push[p])' /\ push'[p].stage = "resting" BY <2>1 DEF Host!Resting, Aimed
  <2>4. push' \in [Pushers -> PushType] BY <1>1, <1>5, <2>2
  <2>. QED BY <1>2, <1>5, <2>3, <2>4 DEF Host!TypeOK
<1>7. CASE Host!Found # None
  <2>1. Host!Found \in Host!Devices BY <1>7, FoundIsThere
  <2>2. push'[p] = [stage |-> "fields", device |-> Host!Found, host |-> host, wanted |-> w,
                    passes |-> ways, todo |-> {}, twins |-> FALSE,
                    quiet |-> \A r \in Pushers : push[r].stage = "resting"]
    BY <1>1, <1>7 DEF Host!Resting
  <2>3. push'[p] \in PushType
    BY <1>3, <1>4, <2>1, <2>2 DEF PushType
  <2>4. Aimed(push[p])' BY <1>2, <1>4, <1>7, <2>2 DEF Aimed
  <2>5. push'[p].quiet => Undisturbed(p, push[p])'
    <3>1. SUFFICES ASSUME push'[p].quiet PROVE Undisturbed(p, push[p])' OBVIOUS
    <3>2. \A r \in Pushers : push[r].stage = "resting" BY <2>2, <3>1
    <3>3. \A r \in Pushers \ {p} : push'[r].stage = "resting" BY <1>5, <3>2
    <3>. QED BY <1>2, <2>2, <3>3 DEF Undisturbed, Host!Found
  <2>6. push' \in [Pushers -> PushType] BY <1>1, <1>5, <2>3
  <2>. QED BY <1>2, <1>5, <2>4, <2>5, <2>6 DEF Host!TypeOK
<1>. QED BY <1>6, <1>7
-----------------------------------------------------------------------------
(* While a push is under way, no other one is undisturbed, and no push has *)
(* ended undisturbed since.                                                *)
LEMMA NobodyElse ==
    ASSUME HostInv, NEW p \in Pushers, push[p].stage # "resting"
    PROVE  /\ done = None
           /\ \A q \in Pushers \ {p} : ~ (push[q].stage # "resting" /\ push[q].quiet)
BY DEF HostInv, Undisturbed

(* What a step of push p has to show, where item and made stay.            *)
LEMMA PushStepKeeps ==
    ASSUME HostInv, NEW p \in Pushers, push[p].stage # "resting",
           NEW x \in PushType, push' = [push EXCEPT ![p] = x],
           UNCHANGED <<item, made, placed, host, defined>>, Host!TypeOK',
           Aimed(push[p])',
           push'[p].stage # "resting" /\ push'[p].quiet
             => Undisturbed(p, push[p])',
           done' # None => Host!MirrorsPlacements' /\ \A q \in Pushers : push'[q].stage = "resting"
    PROVE  HostInv'
<1>1. push'[p] = x /\ \A q \in Pushers \ {p} : push'[q] = push[q] BY DEF HostInv
<1>2. push' \in [Pushers -> PushType] BY DEF HostInv
<1>3. \A q \in Pushers : Aimed(push[q])' BY <1>1 DEF HostInv, Aimed
<1>4. \A q \in Pushers \ {p} : ~ (push'[q].stage # "resting" /\ push'[q].quiet)
  BY <1>1, NobodyElse
<1>. QED BY <1>2, <1>3, <1>4 DEF HostInv

(* sync_host() patches the fields of the device it finds.                  *)
LEMMA SyncHostKeeps ==
    ASSUME Host!HostPushAssumption, HostInv, NEW p \in Pushers, Host!SyncHost(p)
    PROVE  HostInv'
<1>. DEFINE x == [push[p] EXCEPT !.stage = IF "items" \in push[p].passes THEN "listing" ELSE "ending"]
            patch == "fields" \in push[p].passes /\ Host!Found # None
<1>1. /\ push[p].stage = "fields" /\ push' = [push EXCEPT ![p] = x]
      /\ UNCHANGED <<placed, host, defined, item, made, done>>
      /\ device' = IF patch THEN [device EXCEPT ![Host!Found] = push[p].host] ELSE device
  BY DEF Host!SyncHost, Host!To
<1>2. push[p] \in PushType BY DEF HostInv
<1>3. /\ x \in PushType /\ x.stage = (IF "items" \in push[p].passes THEN "listing" ELSE "ending")
      /\ x.device = push[p].device /\ x.host = push[p].host /\ x.wanted = push[p].wanted
      /\ x.passes = push[p].passes /\ x.todo = push[p].todo /\ x.quiet = push[p].quiet
  BY <1>2 DEF PushType
<1>4. push'[p] = x /\ \A q \in Pushers \ {p} : push'[q] = push[q] BY <1>1 DEF HostInv
<1>. HIDE DEF x
<1>5. push[p].host \in Parts /\ push[p].host # None
  BY <1>1, <1>2 DEF PushType, HostInv, Aimed
<1>6. Host!TypeOK'
  <2>1. CASE ~patch BY <1>1, <2>1 DEF HostInv, Host!TypeOK
  <2>2. CASE patch
    <3>1. device' = [device EXCEPT ![Host!Found] = push[p].host] BY <1>1, <2>2
    <3>2. device' \in [Host!Devices -> Parts \cup {Host!Unset, None}]
      BY <1>5, <3>1 DEF HostInv, Host!TypeOK
    <3>3. \A i \in Host!Ids : item[i] # None => device'[item[i].device] # None
      BY <1>5, <3>1 DEF HostInv, Host!TypeOK
    <3>. QED BY <1>1, <3>2, <3>3 DEF HostInv, Host!TypeOK
  <2>. QED BY <2>1, <2>2
<1>7. Aimed(push[p])' BY <1>1, <1>3, <1>4 DEF HostInv, Aimed
<1>8. push'[p].quiet => Undisturbed(p, push[p])'
  <2>1. SUFFICES ASSUME push[p].quiet PROVE Undisturbed(p, push[p])' BY <1>3, <1>4
  <2>2. Undisturbed(p, push[p]) BY <1>1, <2>1 DEF HostInv
  <2>3. push[p].device = Host!Found /\ Host!Found # None BY <1>1, <2>2 DEF Undisturbed, HostInv, Aimed
  <2>4. Host!Found' = Host!Found
    <3>1. Host!Found \in Host!Devices /\ device[Host!Found] # None BY <2>3, FoundIsThere
    <3>2. device'[Host!Found] # None /\ \A d \in Host!Devices : d # Host!Found => device'[d] = device[d]
      BY <1>1, <1>5, <3>1 DEF HostInv, Host!TypeOK
    <3>. QED BY <3>1, <3>2 DEF Host!Found, Host!Devices, Host!HostPushAssumption
  <2>5. "fields" \in push[p].passes => device'[push[p].device] = push[p].host
    BY <1>1, <2>3, FoundIsThere DEF HostInv, Host!TypeOK
  <2>. QED BY <1>3, <1>4, <2>2, <2>3, <2>4, <2>5 DEF Undisturbed
<1>9. done' = None BY <1>1, NobodyElse
<1>. QED BY <1>1, <1>3, <1>4, <1>6, <1>7, <1>8, <1>9, PushStepKeeps

LEMMA PushFailKeeps ==
    ASSUME HostInv, NEW p \in Pushers, Host!Fail(p)
    PROVE  HostInv'
<1>1. /\ push[p].stage # "resting" /\ push' = [push EXCEPT ![p] = Host!Resting]
      /\ UNCHANGED <<placed, host, defined, device, item, made, done>>
  BY DEF Host!Fail, Host!To
<1>2. push'[p] = Host!Resting BY <1>1 DEF HostInv
<1>3. push'[p].stage = "resting" /\ Aimed(push[p])' BY <1>2 DEF Host!Resting, Aimed
<1>4. Host!TypeOK' BY <1>1 DEF HostInv, Host!TypeOK
<1>5. done' = None BY <1>1, NobodyElse
<1>. QED BY <1>1, <1>3, <1>4, <1>5, RestingType, PushStepKeeps

(* An undisturbed push that has nothing left to write has written all.     *)
LEMMA EndKeeps ==
    ASSUME HostInv, NEW p \in Pushers, Host!End(p)
    PROVE  HostInv'
<1>1. /\ push[p].stage \in {"ending", "writing"} /\ push[p].todo = {}
      /\ push' = [push EXCEPT ![p] = Host!Resting]
      /\ UNCHANGED <<placed, host, defined, device, item, made>>
      /\ done' = IF ~push[p].quiet THEN done
                 ELSE [device |-> push[p].device, host |-> push[p].host, wanted |-> push[p].wanted,
                       passes |-> push[p].passes, twins |-> push[p].twins]
  BY DEF Host!End, Host!To
<1>2. push'[p] = Host!Resting /\ \A q \in Pushers \ {p} : push'[q] = push[q] BY <1>1 DEF HostInv
<1>3. push'[p].stage = "resting" /\ Aimed(push[p])' BY <1>2 DEF Host!Resting, Aimed
<1>4. Host!TypeOK' BY <1>1 DEF HostInv, Host!TypeOK
<1>5. ASSUME done' # None
      PROVE  Host!MirrorsPlacements' /\ \A q \in Pushers : push'[q].stage = "resting"
  <2>1. done = None BY <1>1, NobodyElse
  <2>2. push[p].quiet BY <1>1, <1>5, <2>1
  <2>3. Undisturbed(p, push[p]) BY <1>1, <2>2 DEF HostInv
  <2>4. \A q \in Pushers : push'[q].stage = "resting" BY <1>2, <1>3, <2>3 DEF Undisturbed
  <2>5. /\ done'.device = push[p].device /\ done'.host = push[p].host /\ done'.wanted = push[p].wanted
        /\ done'.passes = push[p].passes /\ done'.twins = push[p].twins
    BY <1>1, <2>2
  <2>6. "fields" \in push[p].passes => device'[push[p].device] = push[p].host
    BY <1>1, <2>3 DEF Undisturbed
  <2>7. ASSUME "items" \in push[p].passes
        PROVE  /\ \A s \in DOMAIN push[p].wanted :
                     Shows(push[p].device, s, push[p].wanted[s])
               /\ ~push[p].twins => \A i \in Host!Listed(push[p].device) : item[i].slot \in DOMAIN push[p].wanted
    <3>1. Remaining(push[p]) BY <1>1, <2>3, <2>7 DEF Undisturbed
    <3>. QED BY <1>1, <3>1 DEF Remaining
  <2>8. ASSUME "items" \in done'.passes
        PROVE  /\ \A s \in DOMAIN done'.wanted :
                     Shows(done.device, s, done.wanted[s])'
               /\ ~done'.twins => \A i \in Host!Listed(done.device)' : item'[i].slot \in DOMAIN done'.wanted
    <3>1. Host!Listed(done.device)' = Host!Listed(push[p].device)
      BY <1>1, <2>5, SameRows
    <3>2. \A s, part : Shows(done.device, s, part)' = Shows(push[p].device, s, part)
      BY <1>1, <2>5, SameRows
    <3>3. \A s : Shows(done.device, s, done.wanted[s])' = Shows(push[p].device, s, push[p].wanted[s])
      BY <2>5, <3>2
    <3>. QED BY <1>1, <2>5, <2>7, <2>8, <3>1, <3>3
  <2>9. Host!MirrorsPlacements'
    BY <2>5, <2>6, <2>8 DEF Host!MirrorsPlacements, Shows
  <2>. QED BY <2>4, <2>9
<1>. QED BY <1>1, <1>3, <1>4, <1>5, RestingType, PushStepKeeps

(* sync_inventory_items() compares what is listed with what is wanted.     *)
LEMMA PushListKeeps ==
    ASSUME Host!HostPushAssumption, HostInv, NEW p \in Pushers, Host!List(p)
    PROVE  HostInv'
<1>. DEFINE d       == push[p].device
            w       == push[p].wanted
            last(s) == Host!Max(Host!Row(d, s))
            shown   == {item[i].slot : i \in Host!Listed(d)}
            create  == {[op |-> "create", slot |-> s, id |-> None] : s \in DOMAIN w \ shown}
            update  == {[op |-> "update", slot |-> s, id |-> last(s)] :
                          s \in {t \in DOMAIN w \cap shown : item[last(t)].part # w[t]}}
            delete  == {[op |-> "delete", slot |-> s, id |-> last(s)] : s \in shown \ DOMAIN w}
            todo    == create \cup update \cup delete
            x       == [push[p] EXCEPT !.stage = "writing", !.twins = Host!Twins(d), !.todo = todo]
<1>1. /\ push[p].stage = "listing" /\ push' = [push EXCEPT ![p] = x]
      /\ UNCHANGED <<placed, host, defined, device, item, made, done>>
  BY DEF Host!List, Host!To
<1>2. push[p] \in PushType BY DEF HostInv
<1>3. \A s \in shown : last(s) \in Host!Row(d, s)
  <2>. SUFFICES ASSUME NEW s \in shown PROVE last(s) \in Host!Row(d, s) OBVIOUS
  <2>1. Host!Row(d, s) # {} BY DEF Host!Row
  <2>2. Host!Row(d, s) \subseteq Host!Ids BY RowsOfListed
  <2>. QED BY <2>1, <2>2, LastOf DEF Host!HostPushAssumption
<1>4. \A s \in DOMAIN w : s \in Slots BY <1>2 DEF PushType, Wanted
<1>5. shown \subseteq Slots
  BY DEF HostInv, Host!TypeOK, Host!Listed, Host!Item
<1>6. \A s : \A i \in Host!Row(d, s) :
        i \in Host!Ids /\ item[i] # None /\ item[i].device = d /\ item[i].discovered /\ item[i].slot = s
  BY DEF Host!Row, Host!Listed
<1>7. \A c \in todo :
        \/ c.op = "create" /\ c.slot \in DOMAIN w \ shown /\ c.id = None /\ c \in create
        \/ c.op = "update" /\ c.slot \in DOMAIN w \cap shown /\ c.id = last(c.slot) /\ c \in update
        \/ c.op = "delete" /\ c.slot \in shown \ DOMAIN w /\ c.id = last(c.slot) /\ c \in delete
  OBVIOUS
<1>8. todo \in SUBSET Calls
  <2>1. \A s \in shown : last(s) \in Host!Ids BY <1>3, <1>6
  <2>2. create \subseteq Calls BY <1>4 DEF Calls
  <2>3. update \subseteq Calls BY <1>4, <2>1 DEF Calls
  <2>4. delete \subseteq Calls BY <1>5, <2>1 DEF Calls
  <2>. QED BY <2>2, <2>3, <2>4
<1>. HIDE DEF todo
<1>9. /\ x \in PushType /\ x.stage = "writing" /\ x.device = d /\ x.host = push[p].host
      /\ x.wanted = w /\ x.passes = push[p].passes /\ x.todo = todo /\ x.quiet = push[p].quiet
      /\ x.twins = Host!Twins(d)
  BY <1>2, <1>8 DEF PushType, Host!Twins
<1>10. push'[p] = x BY <1>1 DEF HostInv
<1>. HIDE DEF x
<1>11. Aimed(push[p])'
  <2>1. \A c \in todo : c.op # "delete" <=> c.slot \in DOMAIN w BY <1>7
  <2>2. \A c \in todo : c.op # "create" =>
            /\ c.id \in Host!Ids /\ c.id <= made
            /\ item[c.id].device = d /\ item[c.id].slot = c.slot
    <3>. SUFFICES ASSUME NEW c \in todo, c.op # "create"
                  PROVE  /\ c.id \in Host!Ids /\ c.id <= made
                         /\ item[c.id].device = d /\ item[c.id].slot = c.slot
      OBVIOUS
    <3>1. c.slot \in shown /\ c.id = last(c.slot) BY <1>7
    <3>2. c.id \in Host!Row(d, c.slot) BY <1>3, <3>1
    <3>3. c.id \in Host!Ids /\ item[c.id] # None BY <1>6, <3>2
    <3>4. c.id <= made BY <3>3 DEF HostInv, Host!Ids, Host!HostPushAssumption
    <3>. QED BY <1>6, <3>2, <3>3, <3>4
  <2>. QED BY <1>1, <1>9, <1>10, <2>1, <2>2 DEF HostInv, Aimed
<1>12. Remaining(x)
  <2>1. \A c \in todo :
          /\ c.op = "create" => Host!Row(d, c.slot) = {}
          /\ c.op # "create" => c.id \in Host!Row(d, c.slot)
          /\ c.op = "update" => c.id = Host!Max(Host!Row(d, c.slot))
    <3>. SUFFICES ASSUME NEW c \in todo
                  PROVE  /\ c.op = "create" => Host!Row(d, c.slot) = {}
                         /\ c.op # "create" => c.id \in Host!Row(d, c.slot)
                         /\ c.op = "update" => c.id = Host!Max(Host!Row(d, c.slot))
      OBVIOUS
    <3>1. c.op = "create" => Host!Row(d, c.slot) = {} BY <1>7 DEF Host!Row
    <3>2. c.op # "create" => c.slot \in shown /\ c.id = last(c.slot) BY <1>7
    <3>. QED BY <1>3, <3>1, <3>2
  <2>2. \A c, e \in todo : c.slot = e.slot => c = e BY DEF todo
  <2>3. \A s \in DOMAIN w : (\E c \in todo : c.slot = s) \/ Shows(d, s, w[s])
    <3>. SUFFICES ASSUME NEW s \in DOMAIN w, ~ \E c \in todo : c.slot = s PROVE Shows(d, s, w[s])
      OBVIOUS
    <3>1. s \in shown
      <4>1. SUFFICES ASSUME s \notin shown PROVE FALSE OBVIOUS
      <4>2. [op |-> "create", slot |-> s, id |-> None] \in todo BY <4>1 DEF todo
      <4>. QED BY <4>2
    <3>2. item[last(s)].part = w[s]
      <4>1. SUFFICES ASSUME item[last(s)].part # w[s] PROVE FALSE OBVIOUS
      <4>2. [op |-> "update", slot |-> s, id |-> last(s)] \in todo BY <3>1, <4>1 DEF todo
      <4>. QED BY <4>2
    <3>. QED BY <1>3, <3>1, <3>2 DEF Shows
  <2>4. ASSUME ~Host!Twins(d), NEW i \in Host!Listed(d), item[i].slot \notin DOMAIN w
        PROVE  \E c \in todo : c.op = "delete" /\ c.id = i
    <3>1. item[i].slot \in shown \ DOMAIN w BY <2>4
    <3>2. [op |-> "delete", slot |-> item[i].slot, id |-> last(item[i].slot)] \in todo BY <3>1 DEF todo
    <3>3. last(item[i].slot) = i
      BY <1>3, <1>6, <2>4, <3>1, RowsOfListed DEF Host!Twins
    <3>. QED BY <3>2, <3>3
  <2>. QED BY <1>9, <2>1, <2>2, <2>3, <2>4 DEF Remaining
<1>13. push'[p].quiet => Undisturbed(p, push[p])'
  <2>1. SUFFICES ASSUME push[p].quiet PROVE Undisturbed(p, push[p])' BY <1>9, <1>10
  <2>2. Undisturbed(p, push[p]) BY <1>1, <2>1 DEF HostInv
  <2>3. \A q \in Pushers \ {p} : push'[q] = push[q] BY <1>1 DEF HostInv
  <2>4. Remaining(push[p])'
    BY <1>1, <1>10, <1>12, SameRows DEF Remaining
  <2>. QED BY <1>1, <1>9, <1>10, <2>2, <2>3, <2>4 DEF Undisturbed, Host!Found
<1>14. done' = None /\ Host!TypeOK' BY <1>1, NobodyElse DEF HostInv, Host!TypeOK
<1>. QED BY <1>1, <1>9, <1>10, <1>11, <1>13, <1>14, PushStepKeeps
-----------------------------------------------------------------------------
(* What one write of push p makes of the items.                            *)
Written(p, call) ==
    [device |-> push[p].device, slot |-> call.slot, part |-> push[p].wanted[call.slot],
     discovered |-> TRUE]

Target(call) == IF call.op = "create" THEN made + 1 ELSE call.id

(* A write is of one item, which is not there or is its device's and its   *)
(* slot's, and leaves it as the write says, or without a trace.            *)
LEMMA WriteIs ==
    ASSUME Host!HostPushAssumption, HostInv, NEW p \in Pushers, NEW call, Host!Write(p, call)
    PROVE  /\ call \in push[p].todo /\ call \in Calls /\ push[p] \in PushType
           /\ Target(call) \in Host!Ids /\ made' \in Nat /\ made <= made' /\ Target(call) <= made'
           /\ call.op = "create" <=> item[Target(call)] = None
           /\ call.op # "create" => /\ Target(call) = call.id /\ Target(call) <= made
                                    /\ item[Target(call)].device = push[p].device
                                    /\ item[Target(call)].slot = call.slot
           /\ call.op = "create" => Target(call) > made
           /\ call.op # "delete" => /\ call.slot \in DOMAIN push[p].wanted
                                    /\ Written(p, call) \in Host!Item /\ Written(p, call) # None
                                    /\ device[push[p].device] # None
           /\ call.op = "delete" => call.slot \notin DOMAIN push[p].wanted
           /\ item' = [item EXCEPT ![Target(call)] =
                         IF call.op = "delete" THEN None ELSE Written(p, call)]
<1>1. /\ push[p].stage = "writing" /\ call \in push[p].todo
      /\ CASE call.op = "create" -> /\ device[push[p].device] # None /\ made + 1 \in Host!Ids
                                    /\ item' = [item EXCEPT ![made + 1] = Written(p, call)]
           [] call.op = "update" -> item[call.id] # None /\ item' = [item EXCEPT ![call.id] = Written(p, call)]
           [] OTHER -> item[call.id] # None /\ item' = [item EXCEPT ![call.id] = None]
      /\ made' = IF call.op = "create" THEN made + 1 ELSE made
  BY DEF Host!Write, Host!New, Written
<1>2. push[p] \in PushType /\ Aimed(push[p]) /\ made \in Nat /\ \A i \in Host!Ids : i > made => item[i] = None
  BY DEF HostInv
<1>3. call \in Calls /\ push[p].wanted \in Wanted /\ push[p].device \in Host!Devices
  BY <1>1, <1>2 DEF PushType, Aimed
<1>4. call.op \in {"create", "update", "delete"} /\ call.slot \in Slots BY <1>3 DEF Calls
<1>5. call.op # "delete" <=> call.slot \in DOMAIN push[p].wanted BY <1>1, <1>2 DEF Aimed
<1>6. CASE call.op = "create"
  <2>1. push[p].wanted[call.slot] \in Parts BY <1>3, <1>5, <1>6 DEF Wanted
  <2>2. Written(p, call) \in Host!Item BY <1>3, <1>4, <2>1 DEF Written, Host!Item
  <2>. QED BY <1>1, <1>2, <1>3, <1>5, <1>6, <2>2 DEF Target, Host!HostPushAssumption
<1>7. CASE call.op # "create"
  <2>1. /\ call.id \in Host!Ids /\ call.id <= made
        /\ item[call.id] # None => item[call.id].device = push[p].device /\ item[call.id].slot = call.slot
    BY <1>1, <1>2, <1>7 DEF Aimed
  <2>2. item[call.id] # None /\ made' = made BY <1>1, <1>4, <1>7
  <2>3. device[push[p].device] # None BY <2>1, <2>2 DEF HostInv, Host!TypeOK
  <2>4. CASE call.op = "update"
    <3>1. push[p].wanted[call.slot] \in Parts BY <1>3, <1>5, <2>4 DEF Wanted
    <3>2. Written(p, call) \in Host!Item BY <1>3, <1>4, <3>1 DEF Written, Host!Item
    <3>. QED BY <1>1, <1>2, <1>3, <1>5, <2>1, <2>2, <2>3, <2>4, <3>2 DEF Target, Host!HostPushAssumption
  <2>5. CASE call.op = "delete"
    BY <1>1, <1>2, <1>3, <1>5, <2>1, <2>2, <2>3, <2>5 DEF Target
  <2>. QED BY <1>4, <1>7, <2>4, <2>5
<1>. QED BY <1>6, <1>7

(* An item of slot t of device d that comes, changes or goes is nothing to *)
(* the other slots.                                                        *)
Apart(d, t, i, val) ==
    /\ Host!Listed(d)' = IF val = None THEN Host!Listed(d) \ {i} ELSE Host!Listed(d) \cup {i}
    /\ Host!Row(d, t)' = IF val = None THEN Host!Row(d, t) \ {i} ELSE Host!Row(d, t) \cup {i}
    /\ \A s : s # t => Host!Row(d, s)' = Host!Row(d, s)
    /\ \A s, part : s # t => Shows(d, s, part)' = Shows(d, s, part)

LEMMA RowsAfter ==
    ASSUME Host!HostPushAssumption, NEW i \in Host!Ids, NEW val,
           item'[i] = val, \A j \in Host!Ids \ {i} : item'[j] = item[j],
           NEW d, NEW t,
           item[i] # None => item[i].device = d /\ item[i].slot = t,
           val # None => val.device = d /\ val.slot = t /\ val.discovered = TRUE
    PROVE  Apart(d, t, i, val)
<1>2. Host!Listed(d)' = IF val = None THEN Host!Listed(d) \ {i} ELSE Host!Listed(d) \cup {i}
  BY DEF Host!Listed
<1>3. Host!Row(d, t)' = IF val = None THEN Host!Row(d, t) \ {i} ELSE Host!Row(d, t) \cup {i}
  BY DEF Host!Row, Host!Listed
<1>4. ASSUME NEW s, s # t PROVE Host!Row(d, s)' = Host!Row(d, s) /\ i \notin Host!Row(d, s)
  BY <1>4 DEF Host!Row, Host!Listed
<1>5. ASSUME NEW s, NEW part, s # t PROVE Shows(d, s, part)' = Shows(d, s, part)
  <2>1. Host!Row(d, s)' = Host!Row(d, s) /\ i \notin Host!Row(d, s) BY <1>4, <1>5
  <2>2. Host!Row(d, s) \subseteq Host!Ids BY RowsOfListed
  <2>3. CASE Host!Row(d, s) = {} BY <2>1, <2>3 DEF Shows
  <2>4. CASE Host!Row(d, s) # {}
    <3>1. Host!Max(Host!Row(d, s)) \in Host!Row(d, s) BY <2>2, <2>4, LastOf DEF Host!HostPushAssumption
    <3>2. item'[Host!Max(Host!Row(d, s))] = item[Host!Max(Host!Row(d, s))] BY <2>1, <2>2, <3>1
    <3>. QED BY <2>1, <3>2 DEF Shows
  <2>. QED BY <2>3, <2>4
<1>. QED BY <1>2, <1>3, <1>4, <1>5 DEF Apart

(* create_, update_ and delete_inventory_item(): what is left to do stays  *)
(* all that there is to do.                                                *)
LEMMA WriteKeeps ==
    ASSUME Host!HostPushAssumption, HostInv, NEW p \in Pushers, NEW call, Host!Write(p, call)
    PROVE  HostInv'
<1>. DEFINE i   == Target(call)
            d   == push[p].device
            w   == push[p].wanted
            val == IF call.op = "delete" THEN None ELSE Written(p, call)
            x   == [push[p] EXCEPT !.todo = push[p].todo \ {call}]
<1>1. /\ push[p].stage = "writing" /\ push' = [push EXCEPT ![p] = x]
      /\ UNCHANGED <<placed, host, defined, device, done>>
  BY DEF Host!Write, Host!To
<1>2. /\ push[p] \in PushType /\ call \in push[p].todo /\ i \in Host!Ids /\ i <= made'
      /\ made \in Nat /\ made' \in Nat /\ made <= made'
      /\ item' = [item EXCEPT ![i] = val] /\ item \in [Host!Ids -> Host!Item \cup {None}]
  BY WriteIs DEF HostInv, Host!TypeOK
<1>3. item'[i] = val /\ \A j \in Host!Ids \ {i} : item'[j] = item[j] BY <1>2
<1>4. /\ item[i] = None => i > made
      /\ item[i] # None => call.op # "create" /\ i <= made /\ item[i].device = d
                          /\ item[i].slot = call.slot
  BY WriteIs
<1>5. val # None => /\ val \in Host!Item /\ val.device = d /\ val.slot = call.slot /\ val.discovered = TRUE
                    /\ val.part = w[call.slot] /\ device[d] # None /\ call.slot \in DOMAIN w /\ call.op # "delete"
  BY WriteIs DEF Written
<1>6. call.op # "delete" => val # None BY WriteIs
<1>. HIDE DEF val
<1>7. /\ x \in PushType /\ x.stage = "writing" /\ x.device = d /\ x.host = push[p].host
      /\ x.wanted = w /\ x.passes = push[p].passes /\ x.todo = push[p].todo \ {call}
      /\ x.quiet = push[p].quiet /\ x.twins = push[p].twins
  BY <1>1, <1>2 DEF PushType
<1>8. push'[p] = x /\ \A q \in Pushers \ {p} : push'[q] = push[q] BY <1>1 DEF HostInv
<1>. HIDE DEF x
<1>9. Host!TypeOK'
  <2>1. item' \in [Host!Ids -> Host!Item \cup {None}] BY <1>2, <1>5
  <2>2. \A j \in Host!Ids : item'[j] # None => device[item'[j].device] # None
    BY <1>3, <1>5 DEF HostInv, Host!TypeOK
  <2>. QED BY <1>1, <2>1, <2>2 DEF HostInv, Host!TypeOK
<1>10. \A j \in Host!Ids : j > made' => item'[j] = None
  <2>. SUFFICES ASSUME NEW j \in Host!Ids, j > made' PROVE item'[j] = None OBVIOUS
  <2>1. j \in Nat /\ j # i /\ j > made BY <1>2 DEF Host!Ids
  <2>. QED BY <1>3, <2>1 DEF HostInv
<1>11. \A q \in Pushers : Aimed(push[q])'
  <2>. SUFFICES ASSUME NEW q \in Pushers PROVE Aimed(push[q])' OBVIOUS
  <2>1. Aimed(push[q]) /\ push[q] \in PushType BY DEF HostInv
  <2>2. /\ push'[q].stage = push[q].stage /\ push'[q].device = push[q].device
        /\ push'[q].host = push[q].host /\ push'[q].wanted = push[q].wanted
        /\ push'[q].todo \subseteq push[q].todo
    BY <1>1, <1>7, <1>8
  <2>3. ASSUME NEW e \in push[q].todo, e.op # "create"
        PROVE  /\ e.id \in Host!Ids /\ e.id <= made'
               /\ item'[e.id] # None => item'[e.id].device = push[q].device /\ item'[e.id].slot = e.slot
    <3>1. /\ e.id \in Host!Ids /\ e.id <= made
          /\ item[e.id] # None => item[e.id].device = push[q].device /\ item[e.id].slot = e.slot
      BY <2>1, <2>3 DEF Aimed
    <3>2. e.id <= made' BY <1>2, <3>1 DEF Host!Ids
    <3>3. CASE e.id # i BY <1>3, <3>1, <3>2, <3>3
    <3>4. CASE e.id = i
      <4>1. item[i] # None BY <1>2, <1>4, <3>1, <3>4 DEF Host!Ids
      <4>. QED BY <1>3, <1>4, <1>5, <3>1, <3>2, <3>4, <4>1
    <3>. QED BY <3>3, <3>4
  <2>4. \A e \in push'[q].todo : e \in push[q].todo BY <2>2
  <2>. QED BY <2>1, <2>2, <2>3, <2>4 DEF Aimed
<1>12. ASSUME push[p].quiet PROVE Undisturbed(p, push[p])'
  <2>1. Undisturbed(p, push[p]) /\ Remaining(push[p]) BY <1>1, <1>12 DEF HostInv, Undisturbed
  <2>2. \A e \in x.todo : e \in push[p].todo /\ e # call /\ e.slot # call.slot
    BY <1>2, <1>7, <2>1 DEF Remaining
  <2>3. push'[p].device = d BY <1>7, <1>8
  <2>4. /\ Host!Listed(push[p].device)' = IF val = None THEN Host!Listed(d) \ {i} ELSE Host!Listed(d) \cup {i}
        /\ Host!Row(push[p].device, call.slot)'
             = IF val = None THEN Host!Row(d, call.slot) \ {i} ELSE Host!Row(d, call.slot) \cup {i}
        /\ \A s : s # call.slot => Host!Row(push[p].device, s)' = Host!Row(d, s)
        /\ \A s, part : s # call.slot => Shows(push[p].device, s, part)' = Shows(d, s, part)
    <3>1. item[i] # None => item[i].device = d /\ item[i].slot = call.slot BY <1>4
    <3>2. val \in Host!Item \cup {None} BY <1>5
    <3>3. PICK e : e = push[p].device OBVIOUS
    <3>4. push'[p].device = e BY <2>3, <3>3
    <3>5. /\ Host!Listed(e)' = IF val = None THEN Host!Listed(e) \ {i} ELSE Host!Listed(e) \cup {i}
          /\ Host!Row(e, call.slot)'
               = IF val = None THEN Host!Row(e, call.slot) \ {i} ELSE Host!Row(e, call.slot) \cup {i}
          /\ \A s : s # call.slot => Host!Row(e, s)' = Host!Row(e, s)
          /\ \A s, part : s # call.slot => Shows(e, s, part)' = Shows(e, s, part)
      <4>1. PICK j \in Host!Ids : j = i BY <1>2
      <4>2. PICK v \in Host!Item \cup {None} : v = val BY <3>2
      <4>3. PICK t : t = call.slot OBVIOUS
      <4>4. item'[j] = v /\ \A k \in Host!Ids \ {j} : item'[k] = item[k] BY <1>3, <4>1, <4>2
      <4>5. item[j] # None => item[j].device = e /\ item[j].slot = t BY <3>1, <3>3, <4>1, <4>3
      <4>6. v # None => v.device = e /\ v.slot = t /\ v.discovered = TRUE BY <1>5, <3>3, <4>2, <4>3
      <4>7. Apart(e, t, j, v) BY <4>4, <4>5, <4>6, RowsAfter
      <4>. QED BY <4>1, <4>2, <4>3, <4>7 DEF Apart
    <3>. QED BY <3>3, <3>4, <3>5
  <2>5. \A e \in x.todo :
          /\ e.op = "create" => Host!Row(push[p].device, e.slot)' = {}
          /\ e.op # "create" => e.id \in Host!Row(push[p].device, e.slot)'
          /\ e.op = "update" => e.id = Host!Max(Host!Row(push[p].device, e.slot))'
          /\ \A f \in x.todo : e.slot = f.slot => e = f
    BY <2>1, <2>2, <2>4 DEF Remaining
  <2>6. \A s \in DOMAIN w : (\E e \in x.todo : e.slot = s) \/ Shows(push[p].device, s, w[s])'
    <3>. SUFFICES ASSUME NEW s \in DOMAIN w, ~ \E e \in x.todo : e.slot = s
                  PROVE  Shows(push[p].device, s, w[s])'
      OBVIOUS
    <3>1. CASE s # call.slot
      <4>1. ~ \E e \in push[p].todo : e.slot = s BY <1>7, <3>1
      <4>. QED BY <1>7, <1>8, <2>1, <2>4, <3>1, <4>1 DEF Remaining
    <3>2. CASE s = call.slot
      <4>1. val # None /\ val.part = w[s] BY <1>5, <1>6, <3>2, WriteIs
      <4>2. Host!Row(push[p].device, s)' = Host!Row(d, s) \cup {i} BY <2>4, <3>2, <4>1
      <4>3. Host!Max(Host!Row(d, s) \cup {i}) = i
        <5>1. CASE call.op = "create"
          <6>1. Host!Row(d, s) = {} BY <1>2, <2>1, <3>2, <5>1 DEF Remaining
          <6>. QED BY <1>2, <6>1, LastOfOne DEF Host!Ids
        <5>2. CASE call.op # "create"
          <6>1. i = call.id /\ call.op = "update" BY <1>5, <4>1, <5>2, WriteIs DEF Calls
          <6>2. i \in Host!Row(d, s) /\ i = Host!Max(Host!Row(d, s)) BY <1>2, <2>1, <3>2, <6>1 DEF Remaining
          <6>3. Host!Row(d, s) \cup {i} = Host!Row(d, s) BY <6>2
          <6>. QED BY <6>2, <6>3
        <5>. QED BY <5>1, <5>2
      <4>. QED BY <1>3, <1>7, <1>8, <4>1, <4>2, <4>3 DEF Shows
    <3>. QED BY <3>1, <3>2
  <2>7. ~x.twins => \A j \in Host!Listed(push[p].device)' :
                       item'[j].slot \in DOMAIN w \/ \E e \in x.todo : e.op = "delete" /\ e.id = j
    <3>. SUFFICES ASSUME ~x.twins, NEW j \in Host!Listed(push[p].device)', item'[j].slot \notin DOMAIN w
                  PROVE  \E e \in x.todo : e.op = "delete" /\ e.id = j
      OBVIOUS
    <3>1. j # i BY <1>3, <1>5, <2>4
    <3>2. j \in Host!Listed(d) BY <2>4, <3>1
    <3>3. item'[j] = item[j] BY <1>3, <3>1, <3>2 DEF Host!Listed
    <3>4. PICK e \in push[p].todo : e.op = "delete" /\ e.id = j
      BY <1>7, <2>1, <3>2, <3>3 DEF Remaining
    <3>5. e # call BY <3>1, <3>4 DEF Target
    <3>. QED BY <1>7, <3>4, <3>5
  <2>8. Remaining(push[p])' BY <1>7, <1>8, <2>5, <2>6, <2>7 DEF Remaining
  <2>. QED BY <1>1, <1>7, <1>8, <2>1, <2>8 DEF Undisturbed, Host!Found
<1>13. done' = None BY <1>1, NobodyElse
<1>14. \A q \in Pushers \ {p} : ~ (push'[q].stage # "resting" /\ push'[q].quiet)
  BY <1>1, <1>8, NobodyElse
<1>15. push' \in [Pushers -> PushType] BY <1>1, <1>7 DEF HostInv
<1>. QED BY <1>2, <1>7, <1>8, <1>9, <1>10, <1>11, <1>12, <1>13, <1>14, <1>15 DEF HostInv
-----------------------------------------------------------------------------
(* What happens elsewhere, and what the reconciler finds next.             *)
LEMMA ElsewhereKeeps ==
    ASSUME HostInv, Host!Bootstrap \/ Host!Rediscover
    PROVE  HostInv'
<1>1. UNCHANGED <<device, item, push, made, done>> BY DEF Host!Bootstrap, Host!Rediscover
<1>2. Host!TypeOK'
  <2>1. CASE Host!Bootstrap BY <1>1, <2>1 DEF Host!Bootstrap, HostInv, Host!TypeOK
  <2>2. CASE Host!Rediscover BY <1>1, <2>2 DEF Host!Rediscover, HostInv, Host!TypeOK
  <2>. QED BY <2>1, <2>2
<1>3. \A p \in Pushers : Aimed(push[p])' BY <1>1 DEF HostInv, Aimed
<1>4. ASSUME NEW p \in Pushers, push'[p].stage # "resting", push'[p].quiet
      PROVE  Undisturbed(p, push[p])'
  <2>1. Undisturbed(p, push[p]) BY <1>1, <1>4 DEF HostInv
  <2>2. Remaining(push[p]) => Remaining(push[p])' BY <1>1, SameRows DEF Remaining
  <2>. QED BY <1>1, <2>1, <2>2 DEF Undisturbed, Host!Found
<1>5. Host!MirrorsPlacements => Host!MirrorsPlacements'
  BY <1>1, SameRows DEF Host!MirrorsPlacements
<1>. QED BY <1>1, <1>2, <1>3, <1>4, <1>5 DEF HostInv

(* A person moves no item, and from then on no push is undisturbed.        *)
LEMMA PushEditKeeps ==
    ASSUME Host!HostPushAssumption, HostInv, Host!Edit
    PROVE  HostInv'
<1>1. /\ push' = [p \in Pushers |-> [push[p] EXCEPT !.quiet = FALSE]]
      /\ done' = None /\ UNCHANGED <<placed, host, defined>>
  BY DEF Host!Edit
<1>2. \A p \in Pushers :
          /\ push'[p] \in PushType /\ push'[p].quiet = FALSE /\ push'[p].stage = push[p].stage
          /\ push'[p].device = push[p].device /\ push'[p].host = push[p].host
          /\ push'[p].wanted = push[p].wanted /\ push'[p].todo = push[p].todo
  <2>. SUFFICES ASSUME NEW p \in Pushers
                PROVE  /\ push'[p] \in PushType /\ push'[p].quiet = FALSE /\ push'[p].stage = push[p].stage
                       /\ push'[p].device = push[p].device /\ push'[p].host = push[p].host
                       /\ push'[p].wanted = push[p].wanted /\ push'[p].todo = push[p].todo
    OBVIOUS
  <2>1. push[p] \in PushType /\ push'[p] = [push[p] EXCEPT !.quiet = FALSE] BY <1>1 DEF HostInv
  <2>. QED BY <2>1 DEF PushType
<1>. DEFINE Stays ==
         /\ Host!TypeOK' /\ made' \in Nat /\ made <= made'
         /\ \A j \in Host!Ids : j > made' => item'[j] = None
         /\ \A j \in Host!Ids : item'[j] # None /\ j <= made =>
               item[j] # None /\ item'[j].device = item[j].device /\ item'[j].slot = item[j].slot
<1>3. Stays
  <2>. USE DEF HostInv
  <2>1. ASSUME NEW d \in Host!Devices,
               device' = [device EXCEPT ![d] = IF device[d] = None THEN Host!Unset ELSE None],
               item' = [j \in Host!Ids |-> IF item[j] # None /\ item[j].device = d THEN None ELSE item[j]],
               UNCHANGED made
        PROVE  Stays
    <3>1. device' \in [Host!Devices -> Parts \cup {Host!Unset, None}] BY <2>1 DEF Host!TypeOK
    <3>2. item' \in [Host!Ids -> Host!Item \cup {None}] BY <2>1 DEF Host!TypeOK
    <3>3. \A j \in Host!Ids : item'[j] # None => device'[item'[j].device] # None
      BY <2>1 DEF Host!TypeOK, Host!Item
    <3>. QED BY <1>1, <2>1, <3>1, <3>2, <3>3 DEF Host!TypeOK
  <2>2. ASSUME NEW i \in Host!Ids, NEW y \in Host!Item \cup {None},
               item[i] = None => i = made + 1, y # None => device[y.device] # None,
               item[i] # None /\ y # None => y.device = item[i].device /\ y.slot = item[i].slot,
               item' = [item EXCEPT ![i] = y], UNCHANGED device,
               made' = IF i = made + 1 THEN made + 1 ELSE made
        PROVE  Stays
    <3>1. item'[i] = y /\ \A j \in Host!Ids \ {i} : item'[j] = item[j] BY <2>2 DEF Host!TypeOK
    <3>2. i \in Nat /\ \A j \in Host!Ids : j \in Nat BY DEF Host!Ids
    <3>3. i <= made' BY <2>2, <3>2
    <3>4. Host!TypeOK'
      <4>1. item' \in [Host!Ids -> Host!Item \cup {None}] BY <2>2 DEF Host!TypeOK
      <4>2. \A j \in Host!Ids : item'[j] # None => device[item'[j].device] # None
        BY <2>2, <3>1 DEF Host!TypeOK
      <4>. QED BY <1>1, <2>2, <4>1, <4>2 DEF Host!TypeOK
    <3>5. \A j \in Host!Ids : j > made' => item'[j] = None BY <2>2, <3>1, <3>2, <3>3
    <3>6. \A j \in Host!Ids : item'[j] # None /\ j <= made =>
            item[j] # None /\ item'[j].device = item[j].device /\ item'[j].slot = item[j].slot
      BY <2>2, <3>1, <3>2
    <3>. QED BY <2>2, <3>4, <3>5, <3>6
  <2>. QED BY <2>1, <2>2 DEF Host!Edit, Host!New
<1>. HIDE DEF Stays
<1>4. \A p \in Pushers : Aimed(push[p])'
  <2>. SUFFICES ASSUME NEW p \in Pushers PROVE Aimed(push[p])' OBVIOUS
  <2>1. Aimed(push[p]) BY DEF HostInv
  <2>2. \A c \in push[p].todo : c.op # "create" =>
            /\ c.id \in Host!Ids /\ c.id <= made'
            /\ item'[c.id] # None => item'[c.id].device = push[p].device /\ item'[c.id].slot = c.slot
    BY <1>3, <2>1 DEF Stays, HostInv, Aimed, Host!Ids
  <2>. QED BY <1>2, <2>1, <2>2 DEF Aimed
<1>. QED BY <1>1, <1>2, <1>3, <1>4 DEF Stays, HostInv

LEMMA NextHostInv == Host!HostPushAssumption /\ HostInv /\ [Host!Next]_(Host!vars) => HostInv'
<1>. SUFFICES ASSUME Host!HostPushAssumption, HostInv, [Host!Next]_(Host!vars) PROVE HostInv'
  OBVIOUS
<1>1. CASE UNCHANGED Host!vars
  <2>1. UNCHANGED <<placed, host, defined, device, item, push, made, done>> BY <1>1 DEF Host!vars
  <2>2. Host!TypeOK' BY <2>1 DEF HostInv, Host!TypeOK
  <2>3. \A p \in Pushers : Aimed(push[p])' BY <2>1 DEF HostInv, Aimed
  <2>4. ASSUME NEW p \in Pushers, push'[p].stage # "resting", push'[p].quiet
        PROVE  Undisturbed(p, push[p])'
    <3>1. Undisturbed(p, push[p]) BY <2>1, <2>4 DEF HostInv
    <3>2. Remaining(push[p]) => Remaining(push[p])' BY <2>1, SameRows DEF Remaining
    <3>. QED BY <2>1, <3>1, <3>2 DEF Undisturbed, Host!Found
  <2>5. Host!MirrorsPlacements => Host!MirrorsPlacements'
    BY <2>1, SameRows DEF Host!MirrorsPlacements
  <2>. QED BY <2>1, <2>2, <2>3, <2>4, <2>5 DEF HostInv
<1>2. ASSUME NEW p \in Pushers, Host!Begin(p) PROVE HostInv' BY <1>2, BeginKeeps
<1>3. ASSUME NEW p \in Pushers, Host!SyncHost(p) PROVE HostInv' BY <1>3, SyncHostKeeps
<1>4. ASSUME NEW p \in Pushers, Host!List(p) PROVE HostInv' BY <1>4, PushListKeeps
<1>5. ASSUME NEW p \in Pushers, Host!End(p) PROVE HostInv' BY <1>5, EndKeeps
<1>6. ASSUME NEW p \in Pushers, Host!Fail(p) PROVE HostInv' BY <1>6, PushFailKeeps
<1>7. ASSUME NEW p \in Pushers, NEW call \in push[p].todo, Host!Write(p, call) PROVE HostInv'
  BY <1>7, WriteKeeps
<1>8. CASE Host!Bootstrap \/ Host!Rediscover BY <1>8, ElsewhereKeeps
<1>9. CASE Host!Edit BY <1>9, PushEditKeeps
<1>. QED BY <1>1, <1>2, <1>3, <1>4, <1>5, <1>6, <1>7, <1>8, <1>9 DEF Host!Next

(* A push that no other and no person came near leaves in NetBox the host's *)
(* fields and the placements it read, whatever a push that failed half way *)
(* had left; only an item's twin can be overlooked.                        *)
THEOREM PlacementsMirrored ==
    ASSUME Host!HostPushAssumption
    PROVE  Host!Spec => [](Host!TypeOK /\ Host!MirrorsPlacements)
<1>1. Host!Init => HostInv BY InitHostInv
<1>2. HostInv /\ [Host!Next]_(Host!vars) => HostInv' BY NextHostInv
<1>3. HostInv => Host!TypeOK /\ Host!MirrorsPlacements BY DEF HostInv, Host!MirrorsPlacements
<1>. QED BY <1>1, <1>2, <1>3, PTL DEF Host!Spec

(* An item without the "discovered" mark is never changed by a push, but   *)
(* by one that had listed it before a person took the mark away.           *)
THEOREM HumanItemsAreKept ==
    ASSUME Host!HostPushAssumption
    PROVE  Host!Spec => [][Host!HumanItemsKeptStep]_(Host!vars)
<1>1. Host!Init => HostInv BY InitHostInv
<1>2. HostInv /\ [Host!Next]_(Host!vars) => HostInv' BY NextHostInv
<1>3. HostInv /\ [Host!Next]_(Host!vars) => [Host!HumanItemsKeptStep]_(Host!vars)
  <2>. SUFFICES ASSUME HostInv, Host!Next, NEW i \in Host!Ids, item[i] # None, ~item[i].discovered,
                       item'[i] # item[i], ~ (touches' = touches + 1)
                PROVE  \E p \in Pushers : ~push[p].quiet /\ \E call \in push[p].todo : call.id = i
    BY DEF Host!HumanItemsKeptStep
  <2>1. PICK p \in Pushers : \E call \in push[p].todo : Host!Write(p, call)
    BY DEF Host!Next, Host!Begin, Host!SyncHost, Host!List, Host!End, Host!Fail, Host!Bootstrap,
           Host!Rediscover, Host!Edit
  <2>2. PICK call \in push[p].todo : Host!Write(p, call) BY <2>1
  <2>3. Target(call) = i
    BY <2>2, WriteIs DEF HostInv, Host!TypeOK
  <2>4. call.op # "create" /\ call.id = i BY <2>2, <2>3, WriteIs
  <2>5. ~push[p].quiet
    <3>1. SUFFICES ASSUME push[p].quiet PROVE FALSE OBVIOUS
    <3>2. Remaining(push[p]) BY <2>2, <3>1 DEF HostInv, Undisturbed, Host!Write
    <3>3. i \in Host!Listed(push[p].device) BY <2>4, <3>2 DEF Remaining, Host!Row
    <3>. QED BY <3>3 DEF Host!Listed
  <2>. QED BY <2>4, <2>5
<1>. QED BY <1>1, <1>2, <1>3, PTL DEF Host!Spec
=============================================================================
