---------------------------- MODULE MCOperations ----------------------------
(* One run over operations that do not meet within a behaviour: "part"     *)
(* says which of them a behaviour is of; the others stand at their start.  *)
(* The modules extended here keep their variables' names, the instances    *)
(* share the slots x1 to x11.                                              *)
EXTENDS CellHistory, Rollback, Findings, Digest, Maintenance, Manifest, TLC

CONSTANTS None,       \* every "no such thing"
          Two,        \* two hosts, targets or pushers
          FieldValues, \* what a synced field may be
          q1, c1, c2, c3, m1, m2, n1, n2, v1

VARIABLES part, x1, x2, x3, x4, x5, x6, x7, x8, x9, x10, x11

(* The values of the parts' constants.                                     *)
(* A cell that may rise, one that only grants move, and one in an absolute *)
(* domain.                                                                 *)
ThreeCells == {c1, c2, c3}
Rising     == {c1, c3}
AllPropose == [c \in ThreeCells |-> PROPOSE]
MaxLevels  == (c1 :> AUTONOMOUS) @@ (c2 :> CONFIRM) @@ (c3 :> CONFIRM)

OneGuest  == {1}
TwoGuests == {1, 2}
SizeOfTwo == [g \in TwoGuests |-> g]
RoomForTwo == [n \in {n2} |-> 3]
ThreeGuests  == {1, 2, 3}
SizeOfThree  == [g \in ThreeGuests |-> g]
ThreeHosts   == Two \cup {n1}
Anywhere     == [g \in ThreeGuests |-> ThreeHosts]
TwoKits      == {<<2, 2>>, <<8>>}
OnSale       == <<1, 4>>

TwoMembers  == <<m1, m2>>

TwoDisks    == {"d", "e"}
DimmAndNic == {"d", "m"}
KindOfDisks == [d \in TwoDisks |-> "disk"]
KindOfBoth  == [d \in DimmAndNic |-> IF d = "m" THEN "nic" ELSE "dimm"]
SameWwn     == [d \in TwoDisks |-> "w"]
WwnEach     == [d \in TwoDisks |-> IF d = "d" THEN "w" ELSE "v"]
WwnOfBoth   == [d \in DimmAndNic |-> "w"]
InFull      == {"wwn", "serial"}
SerialToo   == {InFull, {"serial"}, {}}
AllOrNone   == {InFull, {}}

Fleet == <<"d", "e">>

Probes   == {"a", "b"}    \* and the custom fields of a host
Interval == [p \in Probes |-> IF p = "a" THEN 1 ELSE 2]

(* The library's entries: of a host and of none, now and then disabled, of *)
(* the other architecture, about another host, or with a cron expression.  *)
Judged(target, about, test, arch, enabled, every) ==
    [target |-> target, about |-> about, test |-> test, arch |-> arch, enabled |-> enabled, every |-> every]
TheLibrary ==
    {Judged(m1, None, "equals", {}, TRUE, 2), Judged(m1, None, "exceeds", {m2}, TRUE, None),
     Judged(m1, None, "equals", {}, FALSE, None), Judged(m2, None, "differs", {}, TRUE, None),
     Judged(n1, m1, "equals", {}, TRUE, 1), Judged(n1, None, "exists", {}, TRUE, 1),
     Judged(m2, None, "unknown", {}, TRUE, 1), Judged(m2, m1, "exists", {}, TRUE, 0),
     Judged(m2, None, "ssh", {}, TRUE, 1)}
AssertedHosts == {m1, m2}

(* Two names, of which an alias file makes the hub, or one service.        *)
TwoNames  == {"ha", "nas"}
Itself    == [h \in TwoNames |-> h]
Record(host, ip, usable) == [host |-> host, ip |-> ip, usable |-> usable]
SomeZones ==
    {<<>>, <<Record("ha", 2, TRUE), Record("nas", 1, TRUE)>>,
     <<Record("ha", 2, FALSE), Record("nas", 1, TRUE), Record("nas", 2, TRUE)>>}
Patterns  == <<[hosts |-> {"nas"}, service |-> "ha"], [hosts |-> TwoNames, service |-> "home-assistant"]>>
SomeFiles ==
    {[exact |-> <<>>, patterns |-> <<>>], [exact |-> "ha" :> "home-assistant", patterns |-> <<>>],
     [exact |-> <<>>, patterns |-> Patterns]}
Gateways  == <<"u1", "u2">>
OneName   == {"ha"}

(* Hosts large, crowded, small, unseen, closed and of the other            *)
(* architecture, in a fleet of three; and three sites with and without     *)
(* wired, slow and unsteady links between them.                            *)
ThreeNames == <<"a", "b", "c">>
Hosted(arch, mem, threads, gpu, disk, guests, open) ==
    [arch |-> arch, mem |-> mem, threads |-> threads, gpu |-> gpu, disk |-> disk, guests |-> guests,
     open |-> open]
SomeFleets ==
    [{"a", "b", "c"} ->
       {Hosted("amd64", 64, 16, 1, 4, 2, TRUE), Hosted("amd64", 64, 16, 1, 4, 12, TRUE),
        Hosted("amd64", 16, 8, 0, 1, 0, TRUE), Hosted("other", None, None, None, None, 0, TRUE),
        Hosted("amd64", 64, 16, 2, 8, 12, FALSE), Hosted("arm64", 32, 32, None, 4, 2, TRUE)}]
Wants(arch, gpu, network, gravity, ram, cores) ==
    [arch |-> arch, gpu |-> gpu, network |-> network, gravity |-> gravity, ram |-> ram, cores |-> cores]
SomeProfiles ==
    {Wants({"amd64", "arm64"}, "optional", "lan-required", TRUE, 2, 4),
     Wants({"amd64", "arm64"}, "required", "any", FALSE, 20, 2),
     Wants({"amd64"}, "none", "lan-preferred", TRUE, 4, 12)}
Way(a, b, wired, latency, steady) ==
    [a |-> a, b |-> b, wired |-> wired, latency |-> latency, steady |-> steady]
Sited(a, b, c, links) ==
    [sites |-> {1, 2, 3}, site |-> ("a" :> a) @@ ("b" :> b) @@ ("c" :> c), links |-> links]
SomeTopologies ==
    {None, Sited(1, 1, 2, {}),
     Sited(1, 2, 3, {Way(1, 2, TRUE, 1, TRUE), Way(2, 3, FALSE, 1, TRUE), Way(1, 3, TRUE, 4, TRUE)}),
     Sited(1, 2, 3, {Way(1, 2, TRUE, 3, TRUE), Way(3, 2, TRUE, 3, TRUE), Way(1, 3, TRUE, 9, TRUE)}),
     Sited(1, None, 3, {Way(1, 2, TRUE, 1, TRUE), Way(3, 2, TRUE, 1, FALSE), Way(1, 1, TRUE, 0, TRUE)})}
TwoAddresses == {1, 2}

(* A local model too small, one that will do and one in the cloud.         *)
Model(local, tier) == [local |-> local, tier |-> tier]
SomeRosters == {<<Model(TRUE, 1), Model(TRUE, 3), Model(FALSE, 4)>>}

slots == <<x1, x2, x3, x4, x5, x6, x7, x8, x9, x10, x11>>
ownVars == <<historyVars, rollbackVars, findingsVars, digestVars, maintenanceVars, manifestVars>>
operationsVars == <<part, ownVars, slots>>

(* Two disks that show one WWN, or each its own, read in full, by serial   *)
(* or not at all; and a DIMM beside a NIC.                                 *)
Disks == INSTANCE Lineage WITH
    Hosts <- Two, NoHost <- None, Unread <- None, Devices <- TwoDisks, KindOf <- KindOfDisks,
    WwnOf <- SameWwn, Readings <- SerialToo,
    MaxSlot <- 2, MaxMoves <- 3, MaxPasses <- 3,
    where <- x1, seen <- x2, parts <- x3, open <- x4, gaps <- x5, forged <- x6, moves <- x7,
    passes <- x8, held <- x9, rows <- x10, varied <- x11

DisksApart == INSTANCE Lineage WITH
    Hosts <- Two, NoHost <- None, Unread <- None, Devices <- TwoDisks, KindOf <- KindOfDisks,
    WwnOf <- WwnEach, Readings <- SerialToo,
    MaxSlot <- 2, MaxMoves <- 2, MaxPasses <- 3,
    where <- x1, seen <- x2, parts <- x3, open <- x4, gaps <- x5, forged <- x6, moves <- x7,
    passes <- x8, held <- x9, rows <- x10, varied <- x11

Dimms == INSTANCE Lineage WITH
    Hosts <- Two, NoHost <- None, Unread <- None, Devices <- DimmAndNic, KindOf <- KindOfBoth,
    WwnOf <- WwnOfBoth, Readings <- AllOrNone,
    MaxSlot <- 1, MaxMoves <- 3, MaxPasses <- 3,
    where <- x1, seen <- x2, parts <- x3, open <- x4, gaps <- x5, forged <- x6, moves <- x7,
    passes <- x8, held <- x9, rows <- x10, varied <- x11

Probing == INSTANCE Probing WITH
    Targets <- Two, FailingAfter <- 2, MaxClock <- 2, MaxByHand <- 1,
    clock <- x1, history <- x2, ran <- x3, failing <- x4, byHand <- x5, settled <- x6, streak <- x7, worst <- x8

(* One guest with a spare NetBox row, long; and two guests, short.         *)
OneSync == INSTANCE GuestSync WITH
    Guests <- OneGuest, Names <- Two, Values <- FieldValues, Unknown <- q1,
    MaxIds <- 2, MaxEdits <- 2, MaxPasses <- 5, Direct <- FALSE,
    source <- x1, vm <- x2, netbox <- x3, diverged <- x4, sync <- x5, edits <- x6, passes <- x7,
    meant <- x8, shaky <- x9, late <- x10, fresh <- x11

TwoSyncs == INSTANCE GuestSync WITH
    Guests <- TwoGuests, Names <- Two, Values <- FieldValues, Unknown <- q1,
    MaxIds <- 2, MaxEdits <- 1, MaxPasses <- 3, Direct <- FALSE,
    source <- x1, vm <- x2, netbox <- x3, diverged <- x4, sync <- x5, edits <- x6, passes <- x7,
    meant <- x8, shaky <- x9, late <- x10, fresh <- x11

Rebalance == INSTANCE Rebalance WITH
    Hosts <- ThreeHosts, Guests <- ThreeGuests, Size <- SizeOfThree, Local <- {3}, Closed <- {n1},
    MayHost <- Anywhere, Lan <- ThreeHosts \X ThreeHosts, Kits <- TwoKits, Standard <- OnSale,
    MaxMoves <- 6,
    kind <- x1, stage <- x2, dimms <- x3, free <- x4, mem <- x5, at <- x6, moved <- x7,
    home <- x8, peak <- x9

Discovery == INSTANCE Discovery WITH
    Ranked <- Fleet, key <- x1, status <- x2, last <- x3

Assertions == INSTANCE Assertions WITH
    Hosts <- AssertedHosts, Global <- n1, Library <- TheLibrary, Missing <- None,
    MaxClock <- 2, MaxLoads <- 2, MaxReadings <- 2, MaxTriage <- 1,
    clock <- x1, row <- x2, reading <- x3, run <- x4, finding <- x5, used <- x6, verdict <- x7

Resolution == INSTANCE Resolution WITH
    Controllers <- Gateways, Router <- "router", Public <- "public", Hub <- "home-assistant", Kvm <- "jetkvm",
    Names <- TwoNames, Label <- Itself, Urls <- OneName, Addresses <- TwoAddresses, NoAddress <- None,
    Zones <- SomeZones, AliasFiles <- SomeFiles, Malformed <- None, Never <- None, MaxChanges <- 1,
    zone <- x1, aliases <- x2, endpoints <- x3, services <- x4, changes <- x5, synced <- x6

Usage == INSTANCE Usage WITH
    PerBucket <- 2, Span <- 4, Horizon <- 5, Sizes <- OneGuest, MaxClock <- 7,
    subject <- x1, clock <- x2, point <- x3, rows <- x4, last <- x5, pruned <- x6

HostPush == INSTANCE HostPush WITH
    Own <- "own", Other <- "other", Fields <- Probes, Slots <- TwoAddresses, Parts <- TwoAddresses,
    Pushers <- Two, MaxIds <- 3, MaxEdits <- 1, MaxPushes <- 2,
    placed <- x1, host <- x2, defined <- x3, device <- x4, item <- x5, push <- x6, made <- x7,
    edits <- x8, pushes <- x9, done <- x10

Placement == INSTANCE Placement WITH
    HostOrder <- ThreeNames, Fleets <- SomeFleets, Profiles <- SomeProfiles, Topologies <- SomeTopologies,
    ask <- x1, stage <- x2, next <- x3, score <- x4, rejected <- x5, search <- x6, route <- x7, ranking <- x8

Interview == INSTANCE Interview WITH
    Sessions <- Two, Names <- OneName, Addresses <- OneGuest, Rosters <- SomeRosters,
    MaxTurns <- 2, MaxParse <- 2, MaxIds <- 2, MaxTalk <- 2,
    roster <- x1, hosts <- x2, talk <- x3, raced <- x4

ASSUME OperationsAssumption ==
    /\ RollbackAssumption /\ ManifestAssumption
    /\ Disks!LineageAssumption /\ DisksApart!LineageAssumption /\ Dimms!LineageAssumption /\ Probing!ProbingAssumption
    /\ OneSync!GuestSyncAssumption /\ TwoSyncs!GuestSyncAssumption
    /\ Rebalance!RebalanceAssumption /\ Discovery!DiscoveryAssumption
    /\ Assertions!AssertionsAssumption
    /\ Resolution!ResolutionAssumption /\ Usage!UsageAssumption /\ HostPush!HostPushAssumption
    /\ Placement!PlacementAssumption /\ Interview!InterviewAssumption

(* Of a part that is not the behaviour's, one start is enough.  Two        *)
(* processes race over a run of one guest; the runs one process resumes    *)
(* are of two guests, or of the one on a local disk.                       *)
OwnInit ==
    /\ HInit /\ RollbackInit /\ FindingsInit /\ DigestInit /\ MaintenanceInit /\ ManifestInit
    /\ part # "rollback" => /\ at = CHOOSE v \in Settings : TRUE
                            /\ \A q \in Requests : plan[q] = [strategy |-> "no-inverse", wants |-> at]
    /\ part # "race" => behind = {}
    /\ up \in CASE part = "race"   -> {[g \in Guests |-> g = 1]}
                 [] part = "resume" -> {[g \in Guests |-> TRUE], [g \in Guests |-> g = 2]}
                 [] OTHER           -> {[g \in Guests |-> TRUE]}

OperationsInit ==
    /\ \/ /\ part \in {"cells", "rollback", "findings", "digest", "race", "resume", "manifest"}
          /\ x1 = 0 /\ x2 = 0 /\ x3 = 0 /\ x4 = 0 /\ x5 = 0 /\ x6 = 0
          /\ x7 = 0 /\ x8 = 0 /\ x9 = 0 /\ x10 = 0 /\ x11 = 0
       \/ part = "disks" /\ Disks!Init
       \/ part = "disks apart" /\ DisksApart!Init
       \/ part = "dimms" /\ Dimms!Init
       \/ part = "probing" /\ Probing!Init /\ x9 = 0 /\ x10 = 0 /\ x11 = 0
       \/ part = "one sync" /\ OneSync!Init
       \/ part = "two syncs" /\ TwoSyncs!Init
       \/ part = "rebalance" /\ Rebalance!Init /\ x10 = 0 /\ x11 = 0
       \/ /\ part = "discovery" /\ Discovery!Init
          /\ x4 = 0 /\ x5 = 0 /\ x6 = 0 /\ x7 = 0 /\ x8 = 0 /\ x9 = 0 /\ x10 = 0 /\ x11 = 0
       \/ part = "assertions" /\ Assertions!Init /\ x8 = 0 /\ x9 = 0 /\ x10 = 0 /\ x11 = 0
       \/ part = "resolution" /\ Resolution!Init /\ x7 = 0 /\ x8 = 0 /\ x9 = 0 /\ x10 = 0 /\ x11 = 0
       \/ part = "usage" /\ Usage!Init /\ x7 = 0 /\ x8 = 0 /\ x9 = 0 /\ x10 = 0 /\ x11 = 0
       \/ part = "host push" /\ HostPush!Init /\ x11 = 0
       \/ part = "placement" /\ Placement!Init /\ x9 = 0 /\ x10 = 0 /\ x11 = 0
       \/ /\ part = "interview" /\ Interview!Init
          /\ x5 = 0 /\ x6 = 0 /\ x7 = 0 /\ x8 = 0 /\ x9 = 0 /\ x10 = 0 /\ x11 = 0
    /\ OwnInit

(* A race is of two processes over one run; a run is resumed by one        *)
(* process at a time, and no Talos member is behind.                       *)
OneRun    == Len(runs') <= 1
OneAtWork == Cardinality({e \in Executors : exec'[e].pc # "off"}) <= 1

OwnNext ==
    \/ /\ part = "cells" /\ HNext
       /\ UNCHANGED <<rollbackVars, findingsVars, digestVars, maintenanceVars, manifestVars>>
    \/ /\ part = "rollback" /\ RollbackNext
       /\ UNCHANGED <<historyVars, findingsVars, digestVars, maintenanceVars, manifestVars>>
    \/ /\ part = "findings" /\ FindingsNext
       /\ UNCHANGED <<historyVars, rollbackVars, digestVars, maintenanceVars, manifestVars>>
    \/ /\ part = "digest" /\ DigestNext
       /\ UNCHANGED <<historyVars, rollbackVars, findingsVars, maintenanceVars, manifestVars>>
    \/ /\ part \in {"race", "resume"} /\ MaintenanceNext
       /\ IF part = "race" THEN OneRun ELSE OneAtWork
       /\ UNCHANGED <<historyVars, rollbackVars, findingsVars, digestVars, manifestVars>>
    \/ /\ part = "manifest" /\ ManifestNext
       /\ UNCHANGED <<historyVars, rollbackVars, findingsVars, digestVars, maintenanceVars>>

OperationsNext ==
    \/ OwnNext /\ UNCHANGED <<part, slots>>
    \/ /\ UNCHANGED <<part, ownVars>>
       /\ \/ part = "disks" /\ Disks!Next
          \/ part = "disks apart" /\ DisksApart!Next
          \/ part = "dimms" /\ Dimms!Next
          \/ part = "probing" /\ Probing!Next /\ UNCHANGED <<x9, x10, x11>>
          \/ part = "one sync" /\ OneSync!Next
          \/ part = "two syncs" /\ TwoSyncs!Next
          \/ part = "rebalance" /\ Rebalance!Next /\ UNCHANGED <<x10, x11>>
          \/ part = "discovery" /\ Discovery!Next /\ UNCHANGED <<x4, x5, x6, x7, x8, x9, x10, x11>>
          \/ part = "assertions" /\ Assertions!Next /\ UNCHANGED <<x8, x9, x10, x11>>
          \/ part = "resolution" /\ Resolution!Next /\ UNCHANGED <<x7, x8, x9, x10, x11>>
          \/ part = "usage" /\ Usage!Next /\ UNCHANGED <<x7, x8, x9, x10, x11>>
          \/ part = "host push" /\ HostPush!Next /\ UNCHANGED x11
          \/ part = "placement" /\ Placement!Next /\ UNCHANGED <<x9, x10, x11>>
          \/ part = "interview" /\ Interview!Next /\ UNCHANGED <<x5, x6, x7, x8, x9, x10, x11>>

OperationsSpec == OperationsInit /\ [][OperationsNext]_operationsVars
-----------------------------------------------------------------------------
(* The types of every part.                                                *)
TypesOK ==
    /\ TypeOK /\ RollbackTypeOK /\ FindingsTypeOK /\ DigestTypeOK /\ MaintenanceTypeOK /\ ManifestTypeOK
    /\ part = "disks" => Disks!TypeOK
    /\ part = "disks apart" => DisksApart!TypeOK
    /\ part = "dimms" => Dimms!TypeOK
    /\ part = "probing" => Probing!TypeOK
    /\ part = "one sync" => OneSync!TypeOK
    /\ part = "two syncs" => TwoSyncs!TypeOK
    /\ part = "rebalance" => Rebalance!TypeOK
    /\ part = "discovery" => Discovery!TypeOK
    /\ part = "assertions" => Assertions!TypeOK
    /\ part = "resolution" => Resolution!TypeOK
    /\ part = "usage" => Usage!TypeOK
    /\ part = "host push" => HostPush!TypeOK
    /\ part = "placement" => Placement!TypeOK
    /\ part = "interview" => Interview!TypeOK

(* However a device moves, it is one part, open on the host that reported  *)
(* it last; and what is kept of a series is what its source last held.     *)
LineageFollowsReports ==
    /\ part = "disks" => Disks!LineageFollowsReports
    /\ part = "disks apart" => DisksApart!LineageFollowsReports
    /\ part = "dimms" => Dimms!LineageFollowsReports
    /\ part = "usage" => Usage!HistoryKept

(* A probe that goes on failing has its finding, one that works has none;  *)
(* a discovery pass that saw everything leaves the finding that is due; an *)
(* assertion's finding is that of its last verdict.                        *)
FindingsFollowRuns ==
    /\ part = "probing" => Probing!FindingsFollowRuns
    /\ part = "discovery" => Discovery!FullLookIsTrue
    /\ part = "assertions" => Assertions!FindingsFollowVerdicts

(* A pass whose source did not answer resolves nothing of that source.     *)
SilenceResolvesNothing == [][part = "discovery" => Discovery!SilenceStep]_operationsVars

(* A sync never overwrites what a person changed in NetBox, and a push     *)
(* leaves the inventory items that are not the harness's own.              *)
HandEditsKept ==
    [][/\ part = "one sync" => OneSync!HandEditsKeptStep
       /\ part = "two syncs" => TwoSyncs!HandEditsKeptStep
       /\ part = "host push" => HostPush!HumanItemsKeptStep]_operationsVars

(* An undisturbed sync leaves NetBox as the rows are, and reports only     *)
(* guests that somebody touched; a push leaves the items as the placements *)
(* are; a resolver's pass leaves its slice as the source and the alias     *)
(* file say, and no other pass touches it.                                 *)
SyncedMeansSame ==
    /\ part = "one sync" => OneSync!SyncedMeansSame
    /\ part = "two syncs" => TwoSyncs!SyncedMeansSame
    /\ part = "resolution" => Resolution!SlicesFollowSources
    /\ part = "host push" => HostPush!MirrorsPlacements

(* A rebalance plan can be followed step by step.  A placement answers for *)
(* every host, finds the route there is, keeps replicas close, and ranks   *)
(* no host above one that is as good in everything.  A model's answer says *)
(* whose it is and who was passed over, its transcript is in order, and    *)
(* what it proposes becomes one host, but for two confirmed side by side.  *)
AdviceIsSound ==
    /\ part = "rebalance" => Rebalance!PlanNeverWorsens
    /\ part = "placement" => Placement!AdviceIsSound
    /\ part = "interview" => Interview!TalkIsKept
-----------------------------------------------------------------------------
Symmetry == Permutations(Two)
=============================================================================
