------------------------------ MODULE Lineage ------------------------------
(***************************************************************************)
(* Which part sits in which host: the lineage half of engine/reconciler.py *)
(* with the cleanup verbs of engine/retire.py.                             *)
(*                                                                         *)
(* A probe of a host leaves, for each kind of part, the list of what it    *)
(* saw; every pass over the host then reconciles the newest list of every  *)
(* kind, whether this pass brought one or not.  A device is known by its   *)
(* WWN if one was read and by its serial otherwise; a DIMM or a NIC only   *)
(* by its serial.  Probing and reconciling are one transaction.            *)
(*                                                                         *)
(* Closed placements are the past and are not kept here.                   *)
(***************************************************************************)
EXTENDS Integers, Sequences, FiniteSets

CONSTANTS Hosts, NoHost,
          Devices,     \* the physical devices
          KindOf,      \* KindOf[d]: "disk", "dimm" or "nic"
          WwnOf,       \* WwnOf[d]: the WWN its enclosure shows, forged or not
          Unread,      \* a field the probe could not read
          Readings,    \* the sets of fields a probe may come to read of a device
          MaxSlot,     \* slots of a host, by kind
          MaxMoves,    \* bound: devices put into or taken from a host
          MaxPasses    \* bound: passes and cleanups

LineageAssumption ==
    /\ KindOf \in [Devices -> {"disk", "dimm", "nic"}] /\ NoHost \notin Hosts
    /\ Unread \notin Devices /\ \A d \in Devices : WwnOf[d] # Unread
    /\ MaxSlot \in Nat /\ MaxMoves \in Nat /\ MaxPasses \in Nat

VARIABLES where,    \* where[d]: host and slot of a device, for real
          seen,     \* seen[h][k]: the newest list of kind k, empty if none
          parts,    \* the PhysicalPart rows, oldest first
          open,     \* the open Placement rows: part, host, slot
          gaps,     \* open INVENTORY_GAP findings: host, kind, slot
          forged,   \* open STORAGE_PROVENANCE_DELTA findings: host, serial
          moves, passes,
          held,     \* history: the host where a pass to its end listed a device last
          rows,     \* history: the parts a device was ever taken for
          varied    \* history: devices read with one of the two fields only

vars == <<where, seen, parts, open, gaps, forged, moves, passes, held, rows, varied>>

Kinds == {"disk", "dimm", "nic"}
Slots == 1 .. MaxSlot

(* A part that was merged away leaves a row that matches nothing.          *)
Part  == [kind : Kinds \cup {"merged"}, wwn : {WwnOf[d] : d \in Devices} \cup {Unread},
          serial : Devices \cup {Unread}]

(* A line of a probe's list.  A serial is the device's own, so that it     *)
(* also says, where a field went unread, which device the line is about.   *)
Line  == [device : Devices, wwn : {WwnOf[d] : d \in Devices} \cup {Unread},
          serial : Devices \cup {Unread}]

Init ==
    /\ where = [d \in Devices |-> <<NoHost, 0>>]
    /\ seen = [h \in Hosts |-> [k \in Kinds |-> {}]]
    /\ parts = <<>>
    /\ open = {} /\ gaps = {} /\ forged = {}
    /\ moves = 0 /\ passes = 0
    /\ held = [d \in Devices |-> NoHost]
    /\ rows = [d \in Devices |-> {}]
    /\ varied = {}
-----------------------------------------------------------------------------
(* Somebody moves a device between slots, hosts and the shelf.             *)
Move(d, h, slot) ==
    /\ moves < MaxMoves /\ where[d] # <<h, slot>>
    /\ h # NoHost => \A e \in Devices : KindOf[e] = KindOf[d] => where[e] # <<h, slot>>
    /\ where' = [where EXCEPT ![d] = <<h, slot>>]
    /\ moves' = moves + 1
    /\ UNCHANGED <<seen, parts, open, gaps, forged, passes, held, rows, varied>>

(* What a probe lists: the slots that hold a device, and its fields.       *)
LineOf(d, reading) ==
    [device |-> d,
     wwn    |-> IF "wwn" \in reading /\ KindOf[d] = "disk" THEN WwnOf[d] ELSE Unread,
     serial |-> IF "serial" \in reading THEN d ELSE Unread]

At(h, k) == {d \in Devices : KindOf[d] = k /\ where[d][1] = h}

Listing(h, k, reading) == {<<where[d][2], LineOf(d, reading[d])>> : d \in At(h, k)}
-----------------------------------------------------------------------------
(* _storage_identity(); DIMMs and NICs have their serial only.             *)
Identity(line) ==
    IF line.wwn # Unread THEN <<"wwn", line.wwn>>
    ELSE IF line.serial # Unread THEN <<"serial", line.serial>> ELSE <<>>

(* _resolve_storage_identity(): the first part that owns the WWN has       *)
(* another serial.                                                         *)
Forged(ps, kind, line) ==
    /\ line.wwn # Unread /\ line.serial # Unread
    /\ \E i \in DOMAIN ps :
          /\ ps[i].kind = kind /\ ps[i].wwn = line.wwn
          /\ \A j \in 1 .. i - 1 : ps[j].kind # kind \/ ps[j].wwn # line.wwn
          /\ ps[i].serial \notin {Unread, line.serial}

(* _guard_forged_wwn(): the line goes on without its WWN.                  *)
Guarded(ps, kind, line) ==
    IF Forged(ps, kind, line) THEN [line EXCEPT !.wwn = Unread] ELSE line

Matching(ps, kind, id) == {i \in DOMAIN ps : ps[i].kind = kind /\ ps[i][id[1]] = id[2]}

(* _upsert_storage_part(), _upsert_dimm_part(), _upsert_nic_part(): a part *)
(* that is found keeps its identity as it is; two that match end the pass. *)
Upsert(st, kind, slot, line) ==
    LET guarded == Guarded(st.parts, kind, line)
        id      == Identity(guarded)
        match   == IF id = <<>> THEN {} ELSE Matching(st.parts, kind, id)
    IN IF id = <<>> THEN [st EXCEPT !.gaps = @ \cup {<<kind, slot>>}]
       ELSE IF Cardinality(match) > 1 THEN [st EXCEPT !.failed = TRUE]
       ELSE LET new == match = {}
                i   == IF new THEN Len(st.parts) + 1 ELSE CHOOSE j \in match : TRUE
            IN [st EXCEPT
                  !.parts  = IF new THEN Append(@, [kind |-> kind, wwn |-> guarded.wwn,
                                                    serial |-> guarded.serial]) ELSE @,
                  !.active = @ \cup {<<i, slot, line.device>>},
                  !.forged = IF guarded # line THEN @ \cup {line.serial} ELSE @]

Start(ps) == [parts |-> ps, active |-> {}, gaps |-> {}, forged |-> {}, failed |-> FALSE]

Taken(st, kind, slot, list) ==
    LET lines == {x \in list : x[1] = slot} IN
    IF st.failed \/ lines = {} THEN st
    ELSE Upsert(st, kind, slot, (CHOOSE x \in lines : TRUE)[2])

(* One kind of the pass: the lines of its list, in the order of the slots. *)
Project(ps, kind, list) ==
    LET upTo[slot \in 0 .. MaxSlot] ==
            IF slot = 0 THEN Start(ps) ELSE Taken(upTo[slot - 1], kind, slot, list)
    IN  upTo[MaxSlot]

(* Mutant: a part found here stays open where it was, too.                 *)
LeaveElsewhere(placed, h, kind, ps, active) ==
    {p \in placed : p[2] # h \/ ps[p[1]].kind # kind \/ <<p[1], p[3]>> \in active}
      \cup {<<a[1], h, a[2]>> : a \in active}

(* Placements of this kind on this host that are not listed are closed;    *)
(* a part newly listed is closed on every other host and opened here.      *)
Placed(placed, h, kind, ps, active) ==
    LET kept == {p \in placed : p[2] # h \/ ps[p[1]].kind # kind \/ <<p[1], p[3]>> \in active}
        new  == {a \in active : <<a[1], h, a[2]>> \notin kept}
    IN {p \in kept : p[2] = h \/ \A a \in new : a[1] # p[1]} \cup {<<a[1], h, a[2]>> : a \in new}

Pairs(active) == {<<a[1], a[2]>> : a \in active}

(* One kind's lineage: its parts and then its placements.  A line whose    *)
(* part is not one ends the pass there.  What it flushed so far is kept by *)
(* run_schedule(), which goes on to its next target; a probe by hand is    *)
(* rolled back, and so is a pass that never was.                           *)
Carried(inv, h, kind, list) ==
    LET st == Project(inv.parts, kind, list) IN
    IF inv.failed THEN inv
    ELSE [parts  |-> st.parts, failed |-> st.failed,
          open   |-> IF st.failed THEN inv.open
                     ELSE Placed(inv.open, h, kind, st.parts, Pairs(st.active)),
          gaps   |-> inv.gaps \cup {<<h, g[1], g[2]>> : g \in st.gaps},
          forged |-> inv.forged \cup {<<h, s>> : s \in st.forged},
          active |-> inv.active \cup st.active,
          done   |-> IF st.failed THEN inv.done ELSE inv.done \cup {kind}]

DimmLineage(inv, h, list)    == Carried(inv, h, "dimm", list)
StorageLineage(inv, h, list) == Carried(inv, h, "disk", list)
NicLineage(inv, h, list)     == Carried(inv, h, "nic", list)

(* reconcile_host(): DIMMs, disks, NICs, each from its newest list; and    *)
(* then the gap findings of a kind that has one are those of this pass.    *)
(* (What each hands on is bound, so that it is evaluated once.)            *)
ReconcileHost(h, lists) ==
    \E dimms \in {DimmLineage([parts |-> parts, failed |-> FALSE, open |-> open, gaps |-> {},
                               forged |-> forged, active |-> {}, done |-> {}], h, lists["dimm"])} :
    \E disks \in {StorageLineage(dimms, h, lists["disk"])} :
    \E inv \in {NicLineage(disks, h, lists["nic"])} :
    LET listed == {a[3] : a \in inv.active}
    IN /\ parts' = inv.parts /\ forged' = inv.forged /\ open' = inv.open
       /\ gaps' = {g \in gaps : g[1] # h \/ inv.failed} \cup inv.gaps
       /\ rows' = [d \in Devices |-> rows[d] \cup {a[1] : a \in {b \in inv.active : b[3] = d}}]
       /\ held' = [d \in Devices |-> IF KindOf[d] \notin inv.done THEN held[d]
                                     ELSE IF d \in listed THEN h
                                     ELSE IF held[d] = h THEN NoHost ELSE held[d]]

(* A pass of probe_host(): the probes that answered renew their lists, a   *)
(* target that did not answer renews none, and the host is reconciled      *)
(* either way.                                                             *)
Pass(h, kinds, reading) ==
    LET lists == [k \in Kinds |-> IF k \in kinds THEN Listing(h, k, reading) ELSE seen[h][k]] IN
    /\ passes < MaxPasses
    /\ seen' = [seen EXCEPT ![h] = lists]
    /\ ReconcileHost(h, lists)
    /\ varied' = varied \cup {d \in UNION {At(h, k) : k \in kinds} :
                                reading[d] \notin {{}, {"wwn", "serial"}}}
    /\ passes' = passes + 1
    /\ UNCHANGED <<where, moves>>

(* retire_host(): its placements are closed, its findings resolved.        *)
RetireHost(h) ==
    /\ passes < MaxPasses
    /\ open' = {p \in open : p[2] # h}
    /\ gaps' = {g \in gaps : g[1] # h}
    /\ forged' = {f \in forged : f[1] # h}
    /\ held' = [d \in Devices |-> IF held[d] = h THEN NoHost ELSE held[d]]
    /\ passes' = passes + 1
    /\ UNCHANGED <<where, seen, parts, moves, rows, varied>>

Filled(into, from) == IF into = Unread THEN from ELSE into

(* merge_parts(): the operator folds two rows of one device together.      *)
MergeParts(i, j) ==
    /\ i # j /\ passes < MaxPasses
    /\ \E d \in Devices : {i, j} \subseteq rows[d]
    /\ parts[i].kind = parts[j].kind /\ parts[i].kind # "merged"
    /\ parts' = [parts EXCEPT
          ![i] = [kind |-> "merged", wwn |-> Unread, serial |-> Unread],
          ![j] = [kind |-> @.kind, wwn |-> Filled(@.wwn, parts[i].wwn),
                  serial |-> Filled(@.serial, parts[i].serial)]]
    /\ open' = {IF p[1] = i THEN <<j, p[2], p[3]>> ELSE p : p \in open}
    /\ rows' = [d \in Devices |-> IF i \in rows[d] THEN (rows[d] \ {i}) \cup {j} ELSE rows[d]]
    /\ passes' = passes + 1
    /\ UNCHANGED <<where, seen, gaps, forged, moves, held, varied>>

Next ==
    \/ \E d \in Devices, h \in Hosts, s \in Slots : Move(d, h, s)
    \/ \E d \in Devices : Move(d, NoHost, 0)
    \/ \E h \in Hosts : \/ \E kinds \in SUBSET {KindOf[d] : d \in Devices} :
                              \E reading \in [UNION {At(h, k) : k \in kinds} -> Readings] :
                                  Pass(h, kinds, reading)
                        \/ RetireHost(h)
    \/ \E i, j \in DOMAIN parts : MergeParts(i, j)

Spec == Init /\ [][Next]_vars
-----------------------------------------------------------------------------
TypeOK ==
    /\ where \in [Devices -> (Hosts \X Slots) \cup {<<NoHost, 0>>}]
    /\ \A h \in Hosts, k \in Kinds : seen[h][k] \subseteq Slots \X Line
    /\ parts \in Seq(Part)
    /\ open \subseteq (DOMAIN parts) \X Hosts \X Slots
    /\ gaps \subseteq Hosts \X Kinds \X Slots /\ forged \subseteq Hosts \X Devices
    /\ held \in [Devices -> Hosts \cup {NoHost}]
    /\ \A d \in Devices : rows[d] \subseteq DOMAIN parts
    /\ varied \subseteq Devices

(* A device that was read in full or not at all, as was every device that  *)
(* shares its WWN.                                                         *)
Known(d) == \A e \in Devices : WwnOf[e] = WwnOf[d] => e \notin varied

(* The inventory follows the reports: however a device moves and whoever   *)
(* reports it in whatever order, it is one part, no other device's, and    *)
(* open exactly on the host whose list held it last and has not dropped it *)
(* since, of the lists that a pass got to the end of.                      *)
LineageFollowsReports ==
    \A d \in Devices : Known(d) =>
       /\ Cardinality(rows[d]) <= 1
       /\ \A e \in Devices \ {d} : rows[d] \cap rows[e] = {}
       /\ {p[2] : p \in {q \in open : q[1] \in rows[d]}} = {held[d]} \ {NoHost}

(* Doc: re-running the reconciler over the same observations is a no-op;   *)
(* so a pass that brought nothing new moves no part between hosts.         *)
StalePassStep ==
    seen' = seen /\ parts' = parts =>
       \A p \in open' \ open, q \in open \ open' : p[1] # q[1]
StalePassMovesNothing == [][StalePassStep]_vars

(* Comment: both identities are recorded, so that lookups by either side   *)
(* resolve to the same part.                                               *)
OneRowPerDevice == \A d \in Devices : Cardinality(rows[d]) <= 1
=============================================================================
