------------------------------ MODULE Discovery ------------------------------
(***************************************************************************)
(* What the discovery passes make of what they see: run_discovery() with   *)
(* its discoverers, and the engines that turn their reports into findings. *)
(*                                                                         *)
(* A pass asks its sources, of which some may not answer, and is shown     *)
(* some of the things it asks about: the nodes that are online, the        *)
(* storages that are available, the printers that are connected, the       *)
(* subjects with enough history, the hosts that are not retired.  From     *)
(* that it reports issues, the categories it looked at and, for some       *)
(* kinds, the targets; and what it looked at and found nothing wrong with  *)
(* is resolved.                                                            *)
(*                                                                         *)
(* No finding's row depends on another's, so a behaviour follows one.  And *)
(* since only one is followed, the same few facts serve every category:    *)
(* "wrong" is whatever the category is about.                              *)
(***************************************************************************)
EXTENDS Naturals, Sequences, FiniteSets, SequencesExt

CONSTANT Ranked     \* nodes, hosts, guests, storages, printers, networks, ...

DiscoveryAssumption == Ranked \in Seq(ToSet(Ranked)) /\ Ranked # <<>> /\ IsInjective(Ranked)

Things == ToSet(Ranked)

VARIABLES key,      \* the finding followed: its category and its target
          status,   \* its row
          last      \* history: what the last pass over it had to go by

vars == <<key, status, last>>

Statuses == {"none", "open", "acknowledged", "suppressed", "resolved"}

(* The categories, with the pass that looks at each and the sources it     *)
(* takes them from.  The Talos categories are the Kubernetes ones with     *)
(* another field, CPU headroom and the other baselines and disk rules are  *)
(* those named here with another number.                                   *)
Passes == {"versions", "backups", "storage", "suggestions", "capacity", "anomalies", "rightsizing",
           "printwarden", "jetkvm", "disks", "raid", "argocd", "workloads", "networks", "exports",
           "bottlenecks"}

CategoriesOf(pass) ==
    CASE pass = "versions"    -> {"pve-updates", "pve-mixed", "ceph-mixed", "ceph-eol", "os-eol",
                                  "k8s-skew", "k8s-eol", "hass-updates"}
      [] pass = "backups"     -> {"backup-uncovered", "backup-stale", "backup-verify",
                                  "backup-orphans", "backup-capacity"}
      [] pass = "storage"     -> {"storage-snapshot-stale", "storage-detached-disk",
                                  "storage-template-clutter", "storage-headroom", "storage-released-pv"}
      [] pass = "suggestions" -> {"capability-idle-gpu", "building-block-missing"}
      [] pass = "capacity"    -> {"filesystem-full", "filesystem-headroom", "memory-headroom"}
      [] pass = "anomalies"   -> {"cpu-above-baseline", "network-above-baseline"}
      [] pass = "rightsizing" -> {"mem-shrink", "mem-grow", "idle"}
      [] pass = "printwarden" -> {"printwarden-unreachable", "printer-offline", "printer-klippy",
                                  "printer-failing"}
      [] pass = "jetkvm"      -> {"jetkvm-unreachable", "host-unreachable"}
      [] pass = "disks"       -> {"disk-failing", "disk-hot"}
      [] pass = "raid"        -> {"raid-inactive", "raid-rebuilding", "raid-degraded"}
      [] pass = "bottlenecks" -> {"memory-pressure", "cluster-link-asymmetry", "storage-single-uplink"}
      [] OTHER                -> {pass}

SourcesOf(category) ==
    CASE category \in {"pve-updates", "pve-mixed"} -> {"status", "nodes"}
      [] category \in {"ceph-mixed", "ceph-eol"} -> {"ceph"}
      [] category = "hass-updates" -> {"hass"}
      [] category \in CategoriesOf("backups") -> {"lists", "content"}
      [] category = "storage-released-pv" -> {"k8s"}
      [] category \in CategoriesOf("storage") \ {"storage-released-pv"} -> {"proxmox"}
      [] category \in CategoriesOf("printwarden") \ {"printwarden-unreachable"} -> {"warden"}
      [] category \in {"argocd", "workloads", "networks", "exports"} -> {"list"}
      [] OTHER -> {}

Sources(pass) ==
    (UNION {SourcesOf(c) : c \in CategoriesOf(pass)}) \cup (IF pass = "jetkvm" THEN {"kvm"} ELSE {})

(* Those that bear on the finding followed; what the others say does not.  *)
Asked(pass) == Sources(pass) \cap (SourcesOf(key[1]) \cup {"status", "kvm", "warden"})

(* What a pass may be shown: an anomaly is judged metric by metric.        *)
Metrics     == {"cpu", "network"}
Sight(pass) == IF pass = "anomalies" THEN Things \X Metrics ELSE Things

(* What may be the case of a thing, as far as the category is about it.    *)
Labels(category) ==
    CASE category \in {"pve-mixed", "cluster-link-asymmetry"} -> {"new"}
      [] category \in {"ceph-mixed", "ceph-eol", "k8s-skew", "k8s-eol"} -> {"new", "has"}
      [] category \in {"backup-stale", "backup-verify"} -> {"selected", "has", "wrong"}
      [] category = "backup-uncovered" -> {"selected"}
      [] category = "storage-template-clutter" -> {"wrong", "used"}
      [] category \in CategoriesOf("suggestions") -> {"wrong", "used"}
      [] category = "memory-headroom" -> {"wrong", "committed"}
      [] category \in {"mem-shrink", "mem-grow"} -> {"wrong", "tight", "resized"}
      [] category = "idle" -> {"wrong", "resized"}
      [] category = "printer-failing" -> {"wrong", "listed", "mute"}
      [] category \in CategoriesOf("printwarden") \ {"printer-failing"} -> {"wrong", "listed"}
      [] category = "host-unreachable" -> {"wrong", "attached"}
      [] category \in CategoriesOf("disks") -> {"wrong", "gone"}
      [] category \in CategoriesOf("raid") -> CategoriesOf("raid")
      [] category = "networks" -> {"wrong", "namesake"}
      [] category = "exports" -> {"wrong", "folderless"}
      [] category = "storage-single-uplink" -> {"wrong", "used"}
      [] OTHER -> {"wrong"}

(* What a category is reported of: the cluster, the warden, or any thing.  *)
TargetsOf(category) ==
    CASE category \in {"ceph-mixed", "ceph-eol"} -> {"lab", "proxmox"}
      [] category \in {"pve-mixed", "k8s-skew", "cluster-link-asymmetry"} -> {"lab"}
      [] category = "k8s-eol" -> {"old"}
      [] category = "hass-updates" -> {"home-assistant"}
      [] category \in {"backup-uncovered", "backup-stale", "backup-verify"} -> {"guest"}
      [] category = "printwarden-unreachable" -> {"print-warden"}
      [] category = "jetkvm-unreachable" -> {"jetkvm"}
      [] OTHER -> Things

Everywhere ==
    Things \cup {"lab", "proxmox", "old", "home-assistant", "guest", "print-warden", "jetkvm"}

Keys == UNION {UNION {{c} \X TargetsOf(c) : c \in CategoriesOf(p)} : p \in Passes}
-----------------------------------------------------------------------------
Of(label, facts)    == {t \in Things : <<label, t>> \in facts}
Wrong(facts)        == Of("wrong", facts)
Found(category, ts) == {<<category, t>> : t \in ts}
Only(test, keys)    == IF test THEN keys ELSE {}
Mixed(ts, facts)    == ts \cap Of("new", facts) # {} /\ ts \ Of("new", facts) # {}

Report(issues, looked, at) == [issues |-> issues, looked |-> looked, at |-> at]

(* proxmox_issues(): of the nodes that are online.                         *)
ProxmoxIssues(facts, nodes) ==
    Found("pve-updates", nodes \cap Wrong(facts)) \cup Only(Mixed(nodes, facts), {<<"pve-mixed", "lab">>})

(* ceph_issues(): daemons on two releases, and the newest past its end.    *)
CephIssues(facts, daemons, name) ==
    Only(Mixed(daemons, facts), {<<"ceph-mixed", name>>})
      \cup Only(daemons # {} /\ daemons \cap Of("new", facts) = {}, {<<"ceph-eol", name>>})

OsEolIssues(facts, hosts) == Found("os-eol", hosts \cap Wrong(facts))

(* k8s_issues() and k8s_eol_issues(), over the hosts that run a kubelet.   *)
K8sIssues(facts, kubelets)    == Only(Mixed(kubelets, facts), {<<"k8s-skew", "lab">>})
K8sEolIssues(facts, kubelets) == Only(kubelets \ Of("new", facts) # {}, {<<"k8s-eol", "old">>})

HassIssues(facts) == Only(Wrong(facts) # {}, {<<"hass-updates", "home-assistant">>})

(* What _discover_versions() looked at: a source that fails contributes no *)
(* category, and neither does one with nothing to show.  Mutant: Proxmox's *)
(* categories are counted before it is read.                               *)
VersionsUnread(up, ceph, kubelets) ==
    {"os-eol", "pve-updates", "pve-mixed"} \cup Only(ceph # {}, {"ceph-mixed", "ceph-eol"})
      \cup Only(kubelets # {}, {"k8s-skew", "k8s-eol"}) \cup Only("hass" \in up, {"hass-updates"})

VersionsLooked(up, ceph, kubelets) ==
    {"os-eol"} \cup Only({"status", "nodes"} \subseteq up, {"pve-updates", "pve-mixed"})
      \cup Only(ceph # {}, {"ceph-mixed", "ceph-eol"}) \cup Only(kubelets # {}, {"k8s-skew", "k8s-eol"})
      \cup Only("hass" \in up, {"hass-updates"})

(* _ceph_version_issues(): a reading of its own.                           *)
CephDaemons(facts, up) == IF "ceph" \in up THEN Of("has", facts) ELSE {}

(* _discover_versions(): Ceph is named as the cluster was, if it was read; *)
(* hosts are judged by what is stored of them.                             *)
Versions(facts, up, shown) ==
    LET name     == IF "status" \in up THEN "lab" ELSE "proxmox"
        ceph     == CephDaemons(facts, up)
        kubelets == shown \cap Of("has", facts)
    IN << Report(Only({"status", "nodes"} \subseteq up, ProxmoxIssues(facts, shown))
                   \cup CephIssues(facts, ceph, name) \cup OsEolIssues(facts, shown)
                   \cup K8sIssues(facts, kubelets) \cup K8sEolIssues(facts, kubelets)
                   \cup Only("hass" \in up, HassIssues(facts)),
                 VersionsLooked(up, ceph, kubelets), Everywhere) >>

(* backup_issues(), of one guest.  The storages are ranked by how new what *)
(* they hold of it is; what the first one holds is too old.                *)
BackupIssues(facts, storages) ==
    LET held   == storages \cap Of("has", facts)
        newest == Last(SelectSeq(Ranked, LAMBDA s : s \in held))
    IN IF Of("selected", facts) = {} THEN {<<"backup-uncovered", "guest">>}
       ELSE Only(held \subseteq {Head(Ranked)}, {<<"backup-stale", "guest">>})
              \cup Only(held # {} /\ newest \in Wrong(facts), {<<"backup-verify", "guest">>})

OrphanIssues(facts, storages)       == Found("backup-orphans", storages \cap Wrong(facts))
FullStorageIssues(facts, storages)  == Found("backup-capacity", storages \cap Wrong(facts))

(* _discover_backups(): all or nothing, over the storages available.       *)
Backups(facts, up, shown) ==
    IF ~({"lists", "content"} \subseteq up) THEN <<>>
    ELSE << Report(BackupIssues(facts, shown) \cup OrphanIssues(facts, shown) \cup FullStorageIssues(facts, shown),
                   CategoriesOf("backups"), Everywhere) >>

(* _discover_storage(): the guests and the images come from the listing,   *)
(* of the pools that are available; a pool needs a history to be judged.   *)
SnapshotIssues(facts)         == Found("storage-snapshot-stale", Wrong(facts))
DetachedDiskIssues(facts)     == Found("storage-detached-disk", Wrong(facts))
ClutterIssues(facts, pools)   == Found("storage-template-clutter", (pools \cap Wrong(facts)) \ Of("used", facts))
HeadroomIssues(facts, pools)  == Found("storage-headroom", pools \cap Wrong(facts))
ReleasedVolumeIssues(facts)   == Found("storage-released-pv", Wrong(facts))

Storage(facts, up, shown) ==
    LET proxmox == "proxmox" \in up  k8s == "k8s" \in up IN
    << Report(Only(proxmox, SnapshotIssues(facts) \cup DetachedDiskIssues(facts)
                              \cup ClutterIssues(facts, shown) \cup HeadroomIssues(facts, shown))
                \cup Only(k8s, ReleasedVolumeIssues(facts)),
              Only(proxmox, {"storage-snapshot-stale", "storage-detached-disk", "storage-template-clutter"})
                \cup Only(proxmox /\ shown # {}, {"storage-headroom"})
                \cup Only(k8s, {"storage-released-pv"}),
              Everywhere) >>

(* _discover_suggestions(): from stored facts, of hosts not retired.  One  *)
(* workload that uses a GPU silences every idle one.                       *)
IdleGpuIssues(facts, hosts) ==
    Only(Of("used", facts) = {}, Found("capability-idle-gpu", hosts \cap Wrong(facts)))
BuildingBlockIssues(facts) == Found("building-block-missing", Wrong(facts) \ Of("used", facts))

Suggestions(facts, shown) ==
    << Report(IdleGpuIssues(facts, shown) \cup BuildingBlockIssues(facts), CategoriesOf("suggestions"), Everywhere) >>

(* capacity.evaluate(): a subject with little history gets no verdict, and *)
(* a category is looked at if any subject has one.  Memory is not judged   *)
(* where what is committed stays under the line.                           *)
FilesystemIssues(facts, subjects) ==
    Found("filesystem-full", subjects \cap Wrong(facts)) \cup Found("filesystem-headroom", subjects \cap Wrong(facts))
NodeIssues(facts, subjects) ==
    Found("memory-headroom", (subjects \cap Wrong(facts)) \ Of("committed", facts))

Capacity(facts, shown) ==
    << Report(FilesystemIssues(facts, shown) \cup NodeIssues(facts, shown),
              Only(shown # {}, CategoriesOf("capacity")), Everywhere) >>

(* subject_issues() over each series long and fresh enough; evaluate()     *)
(* collects the categories and the subjects in two sets of their own.      *)
Category(metric) == IF metric = "cpu" THEN "cpu-above-baseline" ELSE "network-above-baseline"

SubjectIssues(facts, series) == {<<Category(s[2]), s[1]>> : s \in {r \in series : r[1] \in Wrong(facts)}}

Anomalies(facts, shown) ==
    << Report(SubjectIssues(facts, shown), {Category(s[2]) : s \in shown}, {s[1] : s \in shown}) >>

(* _guest_rules(): much too much memory, or else too little; or idle.      *)
GuestRules(facts, guests) ==
    Found("mem-shrink", guests \cap Wrong(facts))
      \cup Found("mem-grow", (guests \cap Of("tight", facts)) \ Wrong(facts))
      \cup Found("idle", guests \cap Wrong(facts))

(* A guest resized a moment ago is judged to have nothing to say.          *)
Rightsizing(facts, shown) ==
    << Report(GuestRules(facts, shown), CategoriesOf("rightsizing"), shown \cup Of("resized", facts)) >>

(* printer_issues() and _ledger_issues(): a printer that is not connected  *)
(* is only that, and what the warden has counted of its prints.            *)
PrinterIssues(facts, listed, connected) ==
    Found("printer-offline", listed \ connected) \cup Found("printer-klippy", connected \cap Wrong(facts))
LedgerIssues(facts, listed) == Found("printer-failing", (listed \cap Wrong(facts)) \ Of("mute", facts))

(* _removed_printers(): those the warden no longer lists.                  *)
RemovedPrinters(listed) == Things \ listed

(* reconcile_printwarden(): three reports of one reading, each with its    *)
(* own targets.                                                            *)
Printwarden(facts, up, shown) ==
    LET listed    == Of("listed", facts)
        connected == listed \cap shown
        issues    == PrinterIssues(facts, listed, connected) \cup LedgerIssues(facts, listed)
        Pass(categories, at) == Report({i \in issues : i[1] \in categories}, categories, at)
    IN IF "warden" \notin up
       THEN << Report({<<"printwarden-unreachable", "print-warden">>}, {"printwarden-unreachable"}, Everywhere) >>
       ELSE << Pass({"printwarden-unreachable", "printer-offline"}, Everywhere),
               Pass({"printer-klippy"}, connected \cup RemovedPrinters(listed)),
               Pass({"printer-failing"}, (listed \ Of("mute", facts)) \cup RemovedPrinters(listed)) >>

(* reconcile_jetkvm(): the KVM itself, and the host it is declared to be   *)
(* attached to, which observe_jetkvm() asks whether the KVM answers or not.*)
AttachedHost(facts) == Of("attached", facts)

JetKVM(facts, up) ==
    << Report(Only("kvm" \notin up, {<<"jetkvm-unreachable", "jetkvm">>}), {"jetkvm-unreachable"}, Everywhere) >>
      \o SetToSeq({Report(Found("host-unreachable", {h} \cap Wrong(facts)), {"host-unreachable"}, {h}) :
                     h \in AttachedHost(facts)})

(* disk_issues() and raid_issues() of each host that was ever probed; a    *)
(* disk that is gone from its host's list is not reported.                 *)
DiskIssues(facts, h) ==
    Only(h \notin Of("gone", facts), Found("disk-failing", {h} \cap Wrong(facts)) \cup Found("disk-hot", {h} \cap Wrong(facts)))

Disks(facts, shown) == SetToSeq({Report(DiskIssues(facts, h), CategoriesOf("disks"), {h}) : h \in shown})

RaidIssues(facts, h) ==
    CASE h \in Of("raid-inactive", facts)   -> {<<"raid-inactive", h>>}
      [] h \notin Of("raid-inactive", facts) /\ h \in Of("raid-rebuilding", facts) -> {<<"raid-rebuilding", h>>}
      [] OTHER -> Only(h \in Of("raid-degraded", facts), {<<"raid-degraded", h>>})

Raid(facts, shown) == SetToSeq({Report(RaidIssues(facts, h), CategoriesOf("raid"), {h}) : h \in shown})

(* reconcile_argocd_drift(), reconcile_workload_health() and               *)
(* reconcile_stray_exports(): one by one, what the source listed.          *)
Listed(category, wrong, up, shown) ==
    IF "list" \notin up THEN <<>> ELSE << Report(Found(category, shown \cap wrong), {category}, shown) >>

Drift(facts, up, shown)        == Listed("argocd", Wrong(facts), up, shown)
Workloads(facts, up, shown)    == Listed("workloads", Wrong(facts), up, shown)

(* detect_stray_exports(): no folder, or a folder without its filesystem.  *)
StrayExports(facts)            == Of("folderless", facts) \cup Wrong(facts)
Exports(facts, up, shown)      == Listed("exports", StrayExports(facts), up, shown)

(* reconcile_stray_config(): the networks of each controller in turn, by   *)
(* their names, which two controllers may have in common.                  *)
Name(t, facts) == IF t \in Of("namesake", facts) THEN CHOOSE n \in Of("namesake", facts) : TRUE ELSE t

Networks(facts, up, shown) ==
    LET judged == IF "list" \in up THEN SetToSeq(shown) ELSE <<>> IN
    [i \in DOMAIN judged |->
        Report(Only(judged[i] \in Wrong(facts), {<<"networks", Name(judged[i], facts)>>}),
               {"networks"}, {Name(judged[i], facts)})]

(* analyze_bottlenecks(): every pattern, over the hosts not retired and    *)
(* what is known of them; persist_bottlenecks() resolves all others.       *)
LinkAsymmetry(facts, hosts)    == Only(Mixed(hosts, facts), {<<"cluster-link-asymmetry", "lab">>})
MemoryPressure(facts, hosts)   == Found("memory-pressure", hosts \cap Wrong(facts))
SingleUplink(facts, hosts) ==
    Only(Cardinality(hosts \cap Of("used", facts)) >= 2, Found("storage-single-uplink", hosts \cap Wrong(facts)))

Bottlenecks(facts, shown) ==
    << Report(LinkAsymmetry(facts, shown) \cup MemoryPressure(facts, shown) \cup SingleUplink(facts, shown),
              CategoriesOf("bottlenecks"), Everywhere) >>

Reports(pass, facts, up, shown) ==
    CASE pass = "versions"    -> Versions(facts, up, shown)
      [] pass = "backups"     -> Backups(facts, up, shown)
      [] pass = "storage"     -> Storage(facts, up, shown)
      [] pass = "suggestions" -> Suggestions(facts, shown)
      [] pass = "capacity"    -> Capacity(facts, shown)
      [] pass = "anomalies"   -> Anomalies(facts, shown)
      [] pass = "rightsizing" -> Rightsizing(facts, shown)
      [] pass = "printwarden" -> Printwarden(facts, up, shown)
      [] pass = "jetkvm"      -> JetKVM(facts, up)
      [] pass = "disks"       -> Disks(facts, shown)
      [] pass = "raid"        -> Raid(facts, shown)
      [] pass = "argocd"      -> Drift(facts, up, shown)
      [] pass = "workloads"   -> Workloads(facts, up, shown)
      [] pass = "exports"     -> Exports(facts, up, shown)
      [] pass = "networks"    -> Networks(facts, up, shown)
      [] pass = "bottlenecks" -> Bottlenecks(facts, shown)
-----------------------------------------------------------------------------
(* reconcile_category_findings(), and the same lifecycle where an engine   *)
(* has its own: what one report does to the row.                           *)
Reconciled(row, report) ==
    IF key \in report.issues THEN (IF row \in {"none", "resolved"} THEN "open" ELSE row)
    ELSE IF /\ key[1] \in report.looked /\ key[2] \in report.at
            /\ row \in {"open", "acknowledged"}
         THEN "resolved" ELSE row

(* A pass's reports, one after the other.                                  *)
Reconciling(row, reports) ==
    LET after[i \in 0 .. Len(reports)] ==
            IF i = 0 THEN row ELSE Reconciled(after[i - 1], reports[i])
    IN  after[Len(reports)]

(* The kind a finding is of is shared by some passes, whose reports are    *)
(* about other categories.                                                 *)
Own(category) == CHOOSE p \in Passes : category \in CategoriesOf(p)

Kinsfolk(category) ==
    LET own == Own(category) IN
    CASE own \in {"printwarden", "jetkvm"} -> {"printwarden", "jetkvm"}
      [] own \in {"disks", "raid"} -> {"disks", "raid"}
      [] own \in {"networks", "exports"} -> {"networks", "exports"}
      [] OTHER -> {own}

NoPass == [ran |-> FALSE, answered |-> FALSE, full |-> FALSE, wrong |-> FALSE]

(* Is it the case, whoever looks: is it reported when everything is shown? *)
True(facts) ==
    LET own == Own(key[1])
        rs  == Reports(own, facts, Sources(own), Sight(own))
    IN \E i \in DOMAIN rs : key \in rs[i].issues

Facts(pass) == IF pass = Own(key[1]) THEN SUBSET (Labels(key[1]) \X Things) ELSE {{}}

(* What a pass had to go by; whether everything was shown to it.           *)
Looked(pass, facts, up, shown, reports) ==
    [ran |-> TRUE, answered |-> SourcesOf(key[1]) \subseteq up,
     full |-> /\ key[1] \in CategoriesOf(pass) /\ up = Asked(pass) /\ shown = Sight(pass)
              /\ Of("namesake", facts) = {}
              /\ \E i \in DOMAIN reports : key[1] \in reports[i].looked /\ key[2] \in reports[i].at,
     wrong |-> True(facts)]

(* run_discovery(): a pass is one transaction; if it raises, it changes    *)
(* nothing.  The world may have become anything since the last one.        *)
Run(pass) ==
    \E facts \in Facts(pass), up \in SUBSET Asked(pass),
       shown \in SUBSET Sight(pass) :
       LET reports == Reports(pass, facts, up, shown) IN
       /\ Cardinality(AttachedHost(facts)) <= 1
       /\ status' = Reconciling(status, reports)
       /\ last' = Looked(pass, facts, up, shown, reports)
       /\ UNCHANGED key

(* The operator acknowledges, resolves or suppresses.                      *)
Triage(to) ==
    /\ status # "none"
    /\ status' = to /\ last' = NoPass /\ UNCHANGED key

Init ==
    /\ key \in Keys
    /\ status = "none" /\ last = NoPass

Next ==
    \/ \E pass \in Kinsfolk(key[1]) : Run(pass)
    \/ \E to \in {"acknowledged", "resolved", "suppressed"} : Triage(to)

Spec == Init /\ [][Next]_vars
-----------------------------------------------------------------------------
TypeOK == key \in Keys /\ status \in Statuses /\ DOMAIN last = DOMAIN NoPass

(* The categories whose reports name the targets they looked at.           *)
Scoped ==
    (UNION {CategoriesOf(p) : p \in {"printwarden", "disks", "raid", "argocd", "workloads", "exports"}})
      \cup {"host-unreachable"}

(* Silence resolves nothing: a pass resolves a finding only if the sources *)
(* of its category answered, and where the reports name their targets only *)
(* if what it is about is healed or gone, seen or not.                     *)
SilenceStep ==
    status \in {"open", "acknowledged"} /\ status' = "resolved" /\ last'.ran =>
       /\ last'.answered
       /\ key[1] \in Scoped => ~last'.wrong
SilenceResolvesNothing == [][SilenceStep]_vars

(* A pass that was shown everything leaves the finding open if it is so,   *)
(* and closed if not.                                                      *)
FullLookIsTrue ==
    last.full => status \in {"suppressed"} \cup
                   (IF last.wrong THEN {"open", "acknowledged"} ELSE {"none", "resolved"})

(* Doc (docs/roadmap.md:404): absence never resolves.  The code resolves a *)
(* finding of an offline node, of a pool that is not available, of a       *)
(* subject with little history, once the category is looked at elsewhere.  *)
HealedStep ==
    status \in {"open", "acknowledged"} /\ status' = "resolved" /\ last'.ran => ~last'.wrong
ResolvedMeansHealed == [][HealedStep]_vars
=============================================================================
