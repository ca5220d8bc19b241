------------------------ MODULE MCOperations_proofs -------------------------
(***************************************************************************)
(* What a run of MCOperations checks of the parts that it instantiates,    *)
(* from the theorems about each part: here for the very instances of the   *)
(* run.  A part's module is instantiated once by MCOperations and once by  *)
(* the module of its proofs.  That the two mean the same is shown for the  *)
(* initial states (..Init) and for every step (..Next), written out where  *)
(* tlapm can and operator by operator where it cannot.  A behaviour of     *)
(* MCOperations that starts in the part is therefore one of the part's     *)
(* (..Behave), the constants satisfy the part's assumption (..Assumed),    *)
(* and the part's theorem holds of it.                                     *)
(***************************************************************************)
EXTENDS MCOperations, TLAPS

(* What the modules of proofs speak of besides the part in question.       *)
CONSTANTS Asserted, Global, Library, Missing, MaxLoads, MaxReadings, MaxTriage, PerBucket, Span,
          Horizon, Sizes, LastHour, Sessions, Names, Addresses, Rosters, MaxTurns, MaxParse, MaxIds,
          MaxTalk, Hosts, NoHost, Devices, KindOf, WwnOf, Unread, Readings, MaxSlot, MaxMoves,
          MaxPasses, Ranked, Targets, FailingAfter, MaxClock, MaxByHand, Own, Other, Slots, Parts,
          Pushers, MaxItems, MaxPushes, Values, Unknown, Direct, Controllers, Router, Public, Hub,
          Kvm, Label, Urls, NoAddress, Zones, AliasFiles, Malformed, Unsynced, MaxChanges
VARIABLES clock, history, failing, byHand, settled, streak, worst, reading, used, verdict, subject,
          hour, point, stored, latest, pruned, roster, hosts, talk, seen, parts, open, gaps, forged,
          moves, passes, held, rows, varied, key, status, last, source, vm, netbox, diverged, sync,
          meant, late, fresh, placed, host, defined, device, item, push, made, touches, pushes,
          done, zone, aliases, endpoints, services, changes, synced
-----------------------------------------------------------------------------
(* A behaviour is of one part from its start, and moves as the part does.  *)
LEMMA PartMoves ==
    [OperationsNext]_operationsVars =>
       /\ part' = part
       /\ \/ UNCHANGED slots
          \/ part = "disks" /\ Disks!Next
          \/ part = "disks apart" /\ DisksApart!Next
          \/ part = "dimms" /\ Dimms!Next
          \/ part = "probing" /\ Probing!Next
          \/ part = "one sync" /\ OneSync!Next
          \/ part = "two syncs" /\ TwoSyncs!Next
          \/ part = "discovery" /\ Discovery!Next
          \/ part = "assertions" /\ Assertions!Next
          \/ part = "resolution" /\ Resolution!Next
          \/ part = "usage" /\ Usage!Next
          \/ part = "host push" /\ HostPush!Next
          \/ part \in {"rebalance", "placement", "interview"}
  BY DEF OperationsNext, operationsVars
-----------------------------------------------------------------------------
(* The DIMM beside a NIC, the usage history, the findings, and the names.   *)
OfParts == INSTANCE Parts_proofs WITH
    Hosts <- Two, NoHost <- None, Unread <- None, Devices <- DimmAndNic, KindOf <- KindOfBoth,
    WwnOf <- WwnOfBoth, Readings <- AllOrNone, MaxSlot <- 1, MaxMoves <- 3, MaxPasses <- 3,
    where <- x1, seen <- x2, parts <- x3, open <- x4, gaps <- x5, forged <- x6, moves <- x7,
    passes <- x8, held <- x9, rows <- x10, varied <- x11,
    PerBucket <- 2, Span <- 4, Horizon <- 5, Sizes <- OneGuest, LastHour <- 7,
    subject <- x1, hour <- x2, point <- x3, stored <- x4, latest <- x5, pruned <- x6,
    Targets <- Two, FailingAfter <- 2, MaxClock <- 2, MaxByHand <- 1,
    clock <- x1, history <- x2, ran <- x3, failing <- x4, byHand <- x5, settled <- x6, streak <- x7,
    worst <- x8,
    Asserted <- AssertedHosts, Global <- n1, Library <- TheLibrary, Missing <- None,
    MaxLoads <- 2, MaxReadings <- 2, MaxTriage <- 1,
    row <- x2, reading <- x3, run <- x4, finding <- x5, used <- x6, verdict <- x7,
    Ranked <- Fleet, key <- x1, status <- x2, last <- x3,
    Controllers <- Gateways, Router <- "router", Public <- "public", Hub <- "home-assistant",
    Kvm <- "jetkvm", Names <- TwoNames, Label <- Itself, Urls <- OneName,
    Addresses <- TwoAddresses, NoAddress <- None, Zones <- SomeZones, AliasFiles <- SomeFiles,
    Malformed <- None, Unsynced <- None, MaxChanges <- 1,
    zone <- x1, aliases <- x2, endpoints <- x3, services <- x4, changes <- x5, synced <- x6

(* The usage history.                                                      *)
LEMMA UsageInit == Usage!Init <=> OfParts!Usage!Init
  BY Zenon DEF Usage!Init, OfParts!Usage!Init, Usage!Buckets, OfParts!Usage!Buckets, Usage!Bucket,
       OfParts!Usage!Bucket

LEMMA UsageNext == Usage!Next <=> OfParts!Usage!Next
  BY Zenon DEF Usage!Next, OfParts!Usage!Next, Usage!DiscoverUsage, OfParts!Usage!DiscoverUsage,
       Usage!DiscoverOmv, OfParts!Usage!DiscoverOmv, Usage!Tick, OfParts!Usage!Tick,
       Usage!Pruned, OfParts!Usage!Pruned, Usage!Recorded, OfParts!Usage!Recorded,
       Usage!Rollup, OfParts!Usage!Rollup, Usage!Reading, OfParts!Usage!Reading,
       Usage!Buckets, OfParts!Usage!Buckets, Usage!Start, OfParts!Usage!Start, Usage!Bucket,
       OfParts!Usage!Bucket, Usage!Held, OfParts!Usage!Held, Usage!Data, OfParts!Usage!Data

LEMMA UsageBehave ==
    OperationsSpec => [](~(part = "usage")) \/ OfParts!Usage!Spec
<1>1. OperationsInit => ~(part = "usage") \/ OfParts!Usage!Init
  BY UsageInit, Zenon DEF OperationsInit
<1>2. [OperationsNext]_operationsVars
         => ~(part = "usage") \/ [OfParts!Usage!Next]_(OfParts!Usage!vars)
  BY PartMoves, UsageNext DEF slots, OfParts!Usage!vars
<1>3. [OperationsNext]_operationsVars => ((part = "usage")' <=> part = "usage")
  BY PartMoves, Zenon
<1> QED
  BY <1>1, <1>2, <1>3, PTL DEF OperationsSpec, OfParts!Usage!Spec

LEMMA UsageAssumed == OfParts!Usage!UsageAssumption
  BY OperationsAssumption, Zenon DEF Usage!UsageAssumption, OfParts!Usage!UsageAssumption,
         OperationsAssumption

LEMMA UsageKept == OperationsSpec => [](part = "usage" => Usage!HistoryKept)
<1>1. OfParts!Usage!Spec => []OfParts!Usage!HistoryKept
  BY UsageAssumed, OfParts!HistoryIsKept, 2 <= 5
<1>2. Usage!HistoryKept <=> OfParts!Usage!HistoryKept
  BY Zenon DEF Usage!HistoryKept, OfParts!Usage!HistoryKept, Usage!Buckets, OfParts!Usage!Buckets,
       Usage!Start, OfParts!Usage!Start, Usage!Data, OfParts!Usage!Data, Usage!Bucket,
       OfParts!Usage!Bucket
<1> QED
  BY <1>1, <1>2, UsageBehave, PTL

(* How names resolve.                                                      *)
(* What a source is to leave, and what a pass over it makes of the rows.   *)
LEMMA ResolutionWanted == \A r : Resolution!Wanted(r) = OfParts!Resolution!Wanted(r)
  BY Zenon DEF Resolution!Wanted, OfParts!Resolution!Wanted, Resolution!AddressRecords,
       OfParts!Resolution!AddressRecords, Resolution!ServiceKey,
       OfParts!Resolution!ServiceKey, Resolution!ToSet, OfParts!Resolution!ToSet

LEMMA ResolutionReconciled ==
    \A db, r : Resolution!Reconciled(db, r) = OfParts!Resolution!Reconciled(db, r)
<1> TAKE db, r
<1> DEFINE Left(wanted, old) ==
             {e.service : e \in {o \in old :
                ~ \E w \in wanted : w.host = o.host /\ w.service = o.service}}
           Mid(wanted, old, all) ==
             [endpoints |-> (db.endpoints \ old) \cup wanted,
              services  |-> [s \in all |->
                 IF s \in {e.service : e \in wanted} /\ db.services[s] = "none" THEN "bare"
                 ELSE db.services[s]]]
<1> Resolution!Services = OfParts!Resolution!Services
  BY Zenon DEF Resolution!Services, OfParts!Resolution!Services, Resolution!Devices,
       OfParts!Resolution!Devices, Resolution!Aliased, OfParts!Resolution!Aliased,
       Resolution!ToSet, OfParts!Resolution!ToSet
<1> Resolution!Slice(r, db.endpoints) = OfParts!Resolution!Slice(r, db.endpoints)
  BY Zenon DEF Resolution!Slice, OfParts!Resolution!Slice
<1> Resolution!Wanted(r) = OfParts!Resolution!Wanted(r)
  BY ResolutionWanted, Zenon
<1> \A rows_, left : Resolution!Reaped(rows_, left) = OfParts!Resolution!Reaped(rows_, left)
  BY Zenon DEF Resolution!Reaped, OfParts!Resolution!Reaped, Resolution!Services,
       OfParts!Resolution!Services, Resolution!Devices, OfParts!Resolution!Devices,
       Resolution!Aliased, OfParts!Resolution!Aliased, Resolution!ToSet,
       OfParts!Resolution!ToSet
<1> Resolution!Reconciled(db, r)
      = Resolution!Reaped(
          Mid(Resolution!Wanted(r), Resolution!Slice(r, db.endpoints),
              Resolution!Services),
          Left(Resolution!Wanted(r), Resolution!Slice(r, db.endpoints)))
  BY Zenon DEF Resolution!Reconciled
<1> OfParts!Resolution!Reconciled(db, r)
      = OfParts!Resolution!Reaped(
          Mid(OfParts!Resolution!Wanted(r), OfParts!Resolution!Slice(r, db.endpoints),
              OfParts!Resolution!Services),
          Left(OfParts!Resolution!Wanted(r), OfParts!Resolution!Slice(r, db.endpoints)))
  BY Zenon DEF OfParts!Resolution!Reconciled
<1> HIDE DEF Left, Mid
<1> QED
  BY Zenon

(* Source by source.                                                       *)
LEMMA ResolutionReconciledAll ==
    \A list, on : Resolution!ReconciledAll(list, on) = OfParts!Resolution!ReconciledAll(list, on)
<1> TAKE list, on
<1> Resolution!Rows = OfParts!Resolution!Rows
  BY Zenon DEF Resolution!Rows, OfParts!Resolution!Rows
<1> \A f : [i \in 0 .. Len(list) |->
             IF i = 0 THEN Resolution!Rows
             ELSE IF list[i] \in on THEN Resolution!Reconciled(f[i - 1], list[i])
             ELSE f[i - 1]]
           = [i \in 0 .. Len(list) |->
               IF i = 0 THEN OfParts!Resolution!Rows
               ELSE IF list[i] \in on THEN OfParts!Resolution!Reconciled(f[i - 1], list[i])
               ELSE f[i - 1]]
  BY ResolutionReconciled, Zenon
<1> (CHOOSE f : f = [i \in 0 .. Len(list) |->
                      IF i = 0 THEN Resolution!Rows
                      ELSE IF list[i] \in on THEN Resolution!Reconciled(f[i - 1], list[i])
                      ELSE f[i - 1]])
      = CHOOSE f : f = [i \in 0 .. Len(list) |->
                        IF i = 0 THEN OfParts!Resolution!Rows
                        ELSE IF list[i] \in on THEN OfParts!Resolution!Reconciled(f[i - 1], list[i])
                        ELSE f[i - 1]]
  BY Zenon
<1> QED
  BY Zenon DEF Resolution!ReconciledAll, OfParts!Resolution!ReconciledAll

LEMMA ResolutionInit == Resolution!Init <=> OfParts!Resolution!Init
  BY Zenon DEF Resolution!Init, OfParts!Resolution!Init, Resolution!Sources,
       OfParts!Resolution!Sources, Resolution!Services, OfParts!Resolution!Services,
       Resolution!ToSet, OfParts!Resolution!ToSet, Resolution!Devices,
       OfParts!Resolution!Devices, Resolution!Aliased, OfParts!Resolution!Aliased

LEMMA ResolutionNext == Resolution!Next <=> OfParts!Resolution!Next
<1>1. \A db, rs : Resolution!Commit(db, rs) <=> OfParts!Resolution!Commit(db, rs)
  BY Zenon DEF Resolution!Commit, OfParts!Resolution!Commit, Resolution!Sources,
       OfParts!Resolution!Sources, Resolution!Wanted, OfParts!Resolution!Wanted,
       Resolution!ToSet, OfParts!Resolution!ToSet, Resolution!AddressRecords,
       OfParts!Resolution!AddressRecords, Resolution!ServiceKey,
       OfParts!Resolution!ServiceKey
<1>2. \A list, on : Resolution!Sync(list, on) <=> OfParts!Resolution!Sync(list, on)
  BY <1>1, ResolutionReconciledAll, Zenon
     DEF Resolution!Sync, OfParts!Resolution!Sync, Resolution!ToSet, OfParts!Resolution!ToSet
<1>3. \A d : Resolution!Import(d) <=> OfParts!Resolution!Import(d)
  BY Zenon DEF Resolution!Import, OfParts!Resolution!Import, Resolution!Commit,
       OfParts!Resolution!Commit, Resolution!Slice, OfParts!Resolution!Slice,
       Resolution!Sources, OfParts!Resolution!Sources, Resolution!Wanted,
       OfParts!Resolution!Wanted, Resolution!ToSet, OfParts!Resolution!ToSet,
       Resolution!AddressRecords, OfParts!Resolution!AddressRecords, Resolution!ServiceKey,
       OfParts!Resolution!ServiceKey
<1>4. Resolution!Retire <=> OfParts!Resolution!Retire
  BY Zenon DEF Resolution!Retire, OfParts!Resolution!Retire, Resolution!Resolvers,
       OfParts!Resolution!Resolvers, Resolution!Slice, OfParts!Resolution!Slice,
       Resolution!Reaped, OfParts!Resolution!Reaped, Resolution!Sources,
       OfParts!Resolution!Sources, Resolution!Devices, OfParts!Resolution!Devices,
       Resolution!Services, OfParts!Resolution!Services, Resolution!ToSet,
       OfParts!Resolution!ToSet, Resolution!Aliased, OfParts!Resolution!Aliased
<1>5. Resolution!Change <=> OfParts!Resolution!Change
  BY Zenon DEF Resolution!Change, OfParts!Resolution!Change, Resolution!Sources,
       OfParts!Resolution!Sources, Resolution!ToSet, OfParts!Resolution!ToSet
<1> QED
  BY <1>2, <1>3, <1>4, <1>5, Zenon
     DEF Resolution!Next, OfParts!Resolution!Next, Resolution!CliUnifi, OfParts!Resolution!CliUnifi,
         Resolution!McpUnifi, OfParts!Resolution!McpUnifi, Resolution!CliMikrotik,
         OfParts!Resolution!CliMikrotik, Resolution!McpMikrotik, OfParts!Resolution!McpMikrotik,
         Resolution!CliCloudflare, OfParts!Resolution!CliCloudflare, Resolution!McpCloudflare,
         OfParts!Resolution!McpCloudflare, Resolution!ImportHass, OfParts!Resolution!ImportHass,
         Resolution!ImportKvm, OfParts!Resolution!ImportKvm, Resolution!ToSet,
         OfParts!Resolution!ToSet

LEMMA ResolutionBehave ==
    OperationsSpec => [](~(part = "resolution")) \/ OfParts!Resolution!Spec
<1>1. OperationsInit => ~(part = "resolution") \/ OfParts!Resolution!Init
  BY ResolutionInit, Zenon DEF OperationsInit
<1>2. [OperationsNext]_operationsVars
         => ~(part = "resolution") \/ [OfParts!Resolution!Next]_(OfParts!Resolution!vars)
  BY PartMoves, ResolutionNext DEF slots, OfParts!Resolution!vars
<1>3. [OperationsNext]_operationsVars => ((part = "resolution")' <=> part = "resolution")
  BY PartMoves, Zenon
<1> QED
  BY <1>1, <1>2, <1>3, PTL DEF OperationsSpec, OfParts!Resolution!Spec

LEMMA ResolutionAssumed == OfParts!Resolution!ResolutionAssumption
  BY OperationsAssumption, Zenon DEF Resolution!ResolutionAssumption,
       OfParts!Resolution!ResolutionAssumption, Resolution!ToSet,
       OfParts!Resolution!ToSet, Resolution!Records,
       OfParts!Resolution!Records, Resolution!Devices,
       OfParts!Resolution!Devices, Resolution!Sources,
       OfParts!Resolution!Sources,
         OperationsAssumption

LEMMA SlicesFollow == OperationsSpec => [](part = "resolution" => Resolution!SlicesFollowSources)
<1>1. OfParts!Resolution!Spec => []OfParts!Resolution!SlicesFollowSources
  BY ResolutionAssumed, OfParts!SlicesAreFollowed, Zenon
<1>2. Resolution!SlicesFollowSources <=> OfParts!Resolution!SlicesFollowSources
  BY Zenon DEF Resolution!SlicesFollowSources, OfParts!Resolution!SlicesFollowSources,
       Resolution!Sources, OfParts!Resolution!Sources, Resolution!Slice,
       OfParts!Resolution!Slice, Resolution!Services, OfParts!Resolution!Services,
       Resolution!Devices, OfParts!Resolution!Devices, Resolution!ToSet,
       OfParts!Resolution!ToSet, Resolution!Aliased, OfParts!Resolution!Aliased
<1> QED
  BY <1>1, <1>2, ResolutionBehave, PTL

(* The probe schedule, and the assertions.                                 *)
LEMMA ProbingInit == Probing!Init <=> OfParts!Init
  BY Zenon DEF Probing!Init, OfParts!Init, Probing!Pairs, OfParts!Pairs, Probing!Never,
       OfParts!Never

LEMMA ProbingNext == Probing!Next <=> OfParts!Next
  BY Zenon DEF Probing!Next, OfParts!Next, Probing!Tick, OfParts!Tick, Probing!RunDue,
       OfParts!RunDue, Probing!ProbeByHand, OfParts!ProbeByHand, Probing!Pairs,
       OfParts!Pairs, Probing!Triage, OfParts!Triage, Probing!Due, OfParts!Due, Probing!Ran,
       OfParts!Ran, Probing!Kept, OfParts!Kept, Probing!Never, OfParts!Never,
       Probing!Recorded, OfParts!Recorded, Probing!Fails, OfParts!Fails, Probing!Seen,
       OfParts!Seen, Probing!Judged, OfParts!Judged

LEMMA ProbingBehave ==
    OperationsSpec => [](~(part = "probing")) \/ OfParts!Spec
<1>1. OperationsInit => ~(part = "probing") \/ OfParts!Init
  BY ProbingInit, Zenon DEF OperationsInit
<1>2. [OperationsNext]_operationsVars
         => ~(part = "probing") \/ [OfParts!Next]_(OfParts!vars)
  BY PartMoves, ProbingNext DEF slots, OfParts!vars
<1>3. [OperationsNext]_operationsVars => ((part = "probing")' <=> part = "probing")
  BY PartMoves, Zenon
<1> QED
  BY <1>1, <1>2, <1>3, PTL DEF OperationsSpec, OfParts!Spec

LEMMA ProbingAssumed == OfParts!ProbingAssumption
  BY OperationsAssumption, Zenon DEF Probing!ProbingAssumption, OfParts!ProbingAssumption,
         OperationsAssumption

LEMMA ProbingFound == OperationsSpec => [](part = "probing" => Probing!FindingsFollowRuns)
<1>1. OfParts!Spec => []OfParts!FindingsFollowRuns
  BY ProbingAssumed, OfParts!RunsAreFound, Zenon
<1>2. Probing!FindingsFollowRuns <=> OfParts!FindingsFollowRuns
  BY Zenon DEF Probing!FindingsFollowRuns, OfParts!FindingsFollowRuns
<1> QED
  BY <1>1, <1>2, ProbingBehave, PTL

LEMMA AssertionsInit == Assertions!Init <=> OfParts!Assertions!Init
  BY Zenon DEF Assertions!Init, OfParts!Assertions!Init, Assertions!Targets,
       OfParts!Assertions!Targets

LEMMA AssertionsNext == Assertions!Next <=> OfParts!Assertions!Next
  BY Zenon DEF Assertions!Next, OfParts!Assertions!Next, Assertions!Load, OfParts!Assertions!Load,
       Assertions!Observe, OfParts!Assertions!Observe, Assertions!AssertRun,
       OfParts!Assertions!AssertRun, Assertions!RunDue, OfParts!Assertions!RunDue,
       Assertions!Triage, OfParts!Assertions!Triage, Assertions!Tick,
       OfParts!Assertions!Tick, Assertions!Values, OfParts!Assertions!Values,
       Assertions!RunAssertion, OfParts!Assertions!RunAssertion, Assertions!Readable,
       OfParts!Assertions!Readable, Assertions!Due, OfParts!Assertions!Due,
       Assertions!Targets, OfParts!Assertions!Targets, Assertions!Verify,
       OfParts!Assertions!Verify, Assertions!Failed, OfParts!Assertions!Failed,
       Assertions!Resolved, OfParts!Assertions!Resolved, Assertions!Fingerprint,
       OfParts!Assertions!Fingerprint, Assertions!Every, OfParts!Assertions!Every,
       Assertions!Cron, OfParts!Assertions!Cron, Assertions!ArchSkips,
       OfParts!Assertions!ArchSkips, Assertions!Predicate, OfParts!Assertions!Predicate,
       Assertions!Live, OfParts!Assertions!Live, Assertions!DefaultEvery,
       OfParts!Assertions!DefaultEvery, Assertions!About, OfParts!Assertions!About,
       Assertions!Holds, OfParts!Assertions!Holds

LEMMA AssertionsBehave ==
    OperationsSpec => [](~(part = "assertions")) \/ OfParts!Assertions!Spec
<1>1. OperationsInit => ~(part = "assertions") \/ OfParts!Assertions!Init
  BY AssertionsInit, Zenon DEF OperationsInit
<1>2. [OperationsNext]_operationsVars
         => ~(part = "assertions") \/ [OfParts!Assertions!Next]_(OfParts!Assertions!vars)
  BY PartMoves, AssertionsNext DEF slots, OfParts!Assertions!vars
<1>3. [OperationsNext]_operationsVars => ((part = "assertions")' <=> part = "assertions")
  BY PartMoves, Zenon
<1> QED
  BY <1>1, <1>2, <1>3, PTL DEF OperationsSpec, OfParts!Assertions!Spec

LEMMA AssertionsAssumed == OfParts!Assertions!AssertionsAssumption
  BY OperationsAssumption, Zenon DEF Assertions!AssertionsAssumption,
       OfParts!Assertions!AssertionsAssumption, Assertions!Entries,
       OfParts!Assertions!Entries, Assertions!Targets,
       OfParts!Assertions!Targets, Assertions!Tests,
       OfParts!Assertions!Tests, Assertions!Cron,
       OfParts!Assertions!Cron,
         OperationsAssumption

LEMMA AssertionsFound ==
    OperationsSpec => [](part = "assertions" => Assertions!FindingsFollowVerdicts)
<1>1. OfParts!Assertions!Spec => []OfParts!Assertions!FindingsFollowVerdicts
  BY AssertionsAssumed, OfParts!VerdictsAreFound, Zenon
<1>2. Assertions!FindingsFollowVerdicts <=> OfParts!Assertions!FindingsFollowVerdicts
  BY Zenon DEF Assertions!FindingsFollowVerdicts, OfParts!Assertions!FindingsFollowVerdicts,
       Assertions!Targets, OfParts!Assertions!Targets
<1> QED
  BY <1>1, <1>2, AssertionsBehave, PTL

(* What the discovery passes report.                                       *)
(* The versions: what each source makes of what is shown.                  *)
LEMMA DiscoveryVersions ==
    \A facts, on, shown : Discovery!Versions(facts, on, shown)
                            = OfParts!Discovery!Versions(facts, on, shown)
<1>1. \A label, facts : Discovery!Of(label, facts) = OfParts!Discovery!Of(label, facts)
  BY Zenon DEF Discovery!Of, OfParts!Discovery!Of, Discovery!Things, OfParts!Discovery!Things,
       Discovery!ToSet, OfParts!Discovery!ToSet
<1>2. \A facts, on : Discovery!CephDaemons(facts, on) = OfParts!Discovery!CephDaemons(facts, on)
  BY Zenon DEF Discovery!CephDaemons, OfParts!Discovery!CephDaemons, Discovery!Of,
       OfParts!Discovery!Of, Discovery!Things, OfParts!Discovery!Things, Discovery!ToSet,
       OfParts!Discovery!ToSet
<1>3. \A facts, shown :
         Discovery!ProxmoxIssues(facts, shown) = OfParts!Discovery!ProxmoxIssues(facts, shown)
  BY Zenon DEF Discovery!ProxmoxIssues, OfParts!Discovery!ProxmoxIssues, Discovery!Found,
       OfParts!Discovery!Found, Discovery!Wrong, OfParts!Discovery!Wrong, Discovery!Only,
       OfParts!Discovery!Only, Discovery!Mixed, OfParts!Discovery!Mixed, Discovery!Of,
       OfParts!Discovery!Of, Discovery!Things, OfParts!Discovery!Things, Discovery!ToSet,
       OfParts!Discovery!ToSet
<1>4. \A facts, daemons, name :
         Discovery!CephIssues(facts, daemons, name)
           = OfParts!Discovery!CephIssues(facts, daemons, name)
  BY Zenon DEF Discovery!CephIssues, OfParts!Discovery!CephIssues, Discovery!Only,
       OfParts!Discovery!Only, Discovery!Mixed, OfParts!Discovery!Mixed, Discovery!Of,
       OfParts!Discovery!Of, Discovery!Things, OfParts!Discovery!Things, Discovery!ToSet,
       OfParts!Discovery!ToSet
<1>5. \A facts, shown :
         Discovery!OsEolIssues(facts, shown) = OfParts!Discovery!OsEolIssues(facts, shown)
  BY Zenon DEF Discovery!OsEolIssues, OfParts!Discovery!OsEolIssues, Discovery!Found,
       OfParts!Discovery!Found, Discovery!Wrong, OfParts!Discovery!Wrong, Discovery!Of,
       OfParts!Discovery!Of, Discovery!Things, OfParts!Discovery!Things, Discovery!ToSet,
       OfParts!Discovery!ToSet
<1>6. \A facts, kubelets :
         Discovery!K8sIssues(facts, kubelets) = OfParts!Discovery!K8sIssues(facts, kubelets)
  BY Zenon DEF Discovery!K8sIssues, OfParts!Discovery!K8sIssues, Discovery!Only,
       OfParts!Discovery!Only, Discovery!Mixed, OfParts!Discovery!Mixed, Discovery!Of,
       OfParts!Discovery!Of, Discovery!Things, OfParts!Discovery!Things, Discovery!ToSet,
       OfParts!Discovery!ToSet
<1>7. \A facts, kubelets :
         Discovery!K8sEolIssues(facts, kubelets) = OfParts!Discovery!K8sEolIssues(facts, kubelets)
  BY Zenon DEF Discovery!K8sEolIssues, OfParts!Discovery!K8sEolIssues, Discovery!Only,
       OfParts!Discovery!Only, Discovery!Of, OfParts!Discovery!Of, Discovery!Things,
       OfParts!Discovery!Things, Discovery!ToSet, OfParts!Discovery!ToSet
<1>8. \A facts : Discovery!HassIssues(facts) = OfParts!Discovery!HassIssues(facts)
  BY Zenon DEF Discovery!HassIssues, OfParts!Discovery!HassIssues, Discovery!Only,
       OfParts!Discovery!Only, Discovery!Wrong, OfParts!Discovery!Wrong, Discovery!Of,
       OfParts!Discovery!Of, Discovery!Things, OfParts!Discovery!Things, Discovery!ToSet,
       OfParts!Discovery!ToSet
<1>9. \A on, ceph, kubelets :
         Discovery!VersionsLooked(on, ceph, kubelets)
           = OfParts!Discovery!VersionsLooked(on, ceph, kubelets)
  BY Zenon DEF Discovery!VersionsLooked, OfParts!Discovery!VersionsLooked, Discovery!Only,
       OfParts!Discovery!Only
<1>10. Discovery!Everywhere = OfParts!Discovery!Everywhere
  BY Zenon DEF Discovery!Everywhere, OfParts!Discovery!Everywhere, Discovery!Things,
       OfParts!Discovery!Things, Discovery!ToSet, OfParts!Discovery!ToSet
<1> TAKE facts, on, shown
<1> DEFINE name     == IF "status" \in on THEN "lab" ELSE "proxmox"
           ceph     == OfParts!Discovery!CephDaemons(facts, on)
           kubelets == shown \cap OfParts!Discovery!Of("has", facts)
<1>11. /\ Discovery!CephDaemons(facts, on) = ceph
       /\ Discovery!Of("has", facts) = OfParts!Discovery!Of("has", facts)
  BY <1>1, <1>2, Zenon
<1>12. /\ Discovery!ProxmoxIssues(facts, shown) = OfParts!Discovery!ProxmoxIssues(facts, shown)
       /\ Discovery!CephIssues(facts, ceph, name) = OfParts!Discovery!CephIssues(facts, ceph, name)
       /\ Discovery!OsEolIssues(facts, shown) = OfParts!Discovery!OsEolIssues(facts, shown)
       /\ Discovery!K8sIssues(facts, kubelets) = OfParts!Discovery!K8sIssues(facts, kubelets)
       /\ Discovery!K8sEolIssues(facts, kubelets) = OfParts!Discovery!K8sEolIssues(facts, kubelets)
       /\ Discovery!HassIssues(facts) = OfParts!Discovery!HassIssues(facts)
       /\ Discovery!VersionsLooked(on, ceph, kubelets)
            = OfParts!Discovery!VersionsLooked(on, ceph, kubelets)
  BY <1>3, <1>4, <1>5, <1>6, <1>7, <1>8, <1>9, Zenon
<1> QED
  BY <1>10, <1>11, <1>12 DEF Discovery!Versions, OfParts!Discovery!Versions, Discovery!Report,
                             OfParts!Discovery!Report, Discovery!Only, OfParts!Discovery!Only

(* The reports of every pass.                                              *)
LEMMA DiscoveryReports ==
    \A mode, facts, on, shown : Discovery!Reports(mode, facts, on, shown)
                                  = OfParts!Discovery!Reports(mode, facts, on, shown)
<1> TAKE mode, facts, on, shown
<1> DEFINE Chosen(a, b, c, d, e, f, g, h, i, j, k, l, m, n, o, p) ==
          CASE mode = "versions" -> a
            [] mode = "backups" -> b
            [] mode = "storage" -> c
            [] mode = "suggestions" -> d
            [] mode = "capacity" -> e
            [] mode = "anomalies" -> f
            [] mode = "rightsizing" -> g
            [] mode = "printwarden" -> h
            [] mode = "jetkvm" -> i
            [] mode = "disks" -> j
            [] mode = "raid" -> k
            [] mode = "argocd" -> l
            [] mode = "workloads" -> m
            [] mode = "exports" -> n
            [] mode = "networks" -> o
            [] mode = "bottlenecks" -> p
<1> Discovery!Versions(facts, on, shown) = OfParts!Discovery!Versions(facts, on, shown)
  BY DiscoveryVersions, Zenon
<1> Discovery!Backups(facts, on, shown) = OfParts!Discovery!Backups(facts, on, shown)
  BY Zenon DEF Discovery!Backups, OfParts!Discovery!Backups, Discovery!Report,
       OfParts!Discovery!Report, Discovery!BackupIssues, OfParts!Discovery!BackupIssues,
       Discovery!OrphanIssues, OfParts!Discovery!OrphanIssues, Discovery!FullStorageIssues,
       OfParts!Discovery!FullStorageIssues, Discovery!CategoriesOf,
       OfParts!Discovery!CategoriesOf, Discovery!Everywhere, OfParts!Discovery!Everywhere,
       Discovery!Of, OfParts!Discovery!Of, Discovery!Last, OfParts!Discovery!Last,
       Discovery!Only, OfParts!Discovery!Only, Discovery!Wrong, OfParts!Discovery!Wrong,
       Discovery!Found, OfParts!Discovery!Found, Discovery!Things, OfParts!Discovery!Things,
       Discovery!ToSet, OfParts!Discovery!ToSet
<1> Discovery!Storage(facts, on, shown) = OfParts!Discovery!Storage(facts, on, shown)
  BY Zenon DEF Discovery!Storage, OfParts!Discovery!Storage, Discovery!Report,
       OfParts!Discovery!Report, Discovery!Only, OfParts!Discovery!Only,
       Discovery!SnapshotIssues, OfParts!Discovery!SnapshotIssues,
       Discovery!DetachedDiskIssues, OfParts!Discovery!DetachedDiskIssues,
       Discovery!ClutterIssues, OfParts!Discovery!ClutterIssues, Discovery!HeadroomIssues,
       OfParts!Discovery!HeadroomIssues, Discovery!ReleasedVolumeIssues,
       OfParts!Discovery!ReleasedVolumeIssues, Discovery!Everywhere,
       OfParts!Discovery!Everywhere, Discovery!Found, OfParts!Discovery!Found,
       Discovery!Wrong, OfParts!Discovery!Wrong, Discovery!Of, OfParts!Discovery!Of,
       Discovery!Things, OfParts!Discovery!Things, Discovery!ToSet, OfParts!Discovery!ToSet
<1> Discovery!Suggestions(facts, shown) = OfParts!Discovery!Suggestions(facts, shown)
  BY Zenon DEF Discovery!Suggestions, OfParts!Discovery!Suggestions, Discovery!Report,
       OfParts!Discovery!Report, Discovery!IdleGpuIssues, OfParts!Discovery!IdleGpuIssues,
       Discovery!BuildingBlockIssues, OfParts!Discovery!BuildingBlockIssues,
       Discovery!CategoriesOf, OfParts!Discovery!CategoriesOf, Discovery!Everywhere,
       OfParts!Discovery!Everywhere, Discovery!Only, OfParts!Discovery!Only, Discovery!Of,
       OfParts!Discovery!Of, Discovery!Found, OfParts!Discovery!Found, Discovery!Wrong,
       OfParts!Discovery!Wrong, Discovery!Things, OfParts!Discovery!Things, Discovery!ToSet,
       OfParts!Discovery!ToSet
<1> Discovery!Capacity(facts, shown) = OfParts!Discovery!Capacity(facts, shown)
  BY Zenon DEF Discovery!Capacity, OfParts!Discovery!Capacity, Discovery!Report,
       OfParts!Discovery!Report, Discovery!FilesystemIssues,
       OfParts!Discovery!FilesystemIssues, Discovery!NodeIssues,
       OfParts!Discovery!NodeIssues, Discovery!Only, OfParts!Discovery!Only,
       Discovery!CategoriesOf, OfParts!Discovery!CategoriesOf, Discovery!Everywhere,
       OfParts!Discovery!Everywhere, Discovery!Found, OfParts!Discovery!Found,
       Discovery!Wrong, OfParts!Discovery!Wrong, Discovery!Of, OfParts!Discovery!Of,
       Discovery!Things, OfParts!Discovery!Things, Discovery!ToSet, OfParts!Discovery!ToSet
<1> Discovery!Anomalies(facts, shown) = OfParts!Discovery!Anomalies(facts, shown)
  BY Zenon DEF Discovery!Anomalies, OfParts!Discovery!Anomalies, Discovery!Report,
       OfParts!Discovery!Report, Discovery!SubjectIssues, OfParts!Discovery!SubjectIssues,
       Discovery!Category, OfParts!Discovery!Category, Discovery!Wrong,
       OfParts!Discovery!Wrong, Discovery!Of, OfParts!Discovery!Of, Discovery!Things,
       OfParts!Discovery!Things, Discovery!ToSet, OfParts!Discovery!ToSet
<1> Discovery!Rightsizing(facts, shown) = OfParts!Discovery!Rightsizing(facts, shown)
  BY Zenon DEF Discovery!Rightsizing, OfParts!Discovery!Rightsizing, Discovery!Report,
       OfParts!Discovery!Report, Discovery!GuestRules, OfParts!Discovery!GuestRules,
       Discovery!CategoriesOf, OfParts!Discovery!CategoriesOf, Discovery!Of,
       OfParts!Discovery!Of, Discovery!Found, OfParts!Discovery!Found, Discovery!Wrong,
       OfParts!Discovery!Wrong, Discovery!Things, OfParts!Discovery!Things, Discovery!ToSet,
       OfParts!Discovery!ToSet
<1> Discovery!Printwarden(facts, on, shown) = OfParts!Discovery!Printwarden(facts, on, shown)
  BY Zenon DEF Discovery!Printwarden, OfParts!Discovery!Printwarden, Discovery!Of,
       OfParts!Discovery!Of, Discovery!PrinterIssues, OfParts!Discovery!PrinterIssues,
       Discovery!LedgerIssues, OfParts!Discovery!LedgerIssues, Discovery!Report,
       OfParts!Discovery!Report, Discovery!Everywhere, OfParts!Discovery!Everywhere,
       Discovery!RemovedPrinters, OfParts!Discovery!RemovedPrinters, Discovery!Things,
       OfParts!Discovery!Things, Discovery!Found, OfParts!Discovery!Found, Discovery!Wrong,
       OfParts!Discovery!Wrong, Discovery!ToSet, OfParts!Discovery!ToSet
<1> Discovery!JetKVM(facts, on) = OfParts!Discovery!JetKVM(facts, on)
  BY Zenon DEF Discovery!JetKVM, OfParts!Discovery!JetKVM, Discovery!Report,
       OfParts!Discovery!Report, Discovery!Only, OfParts!Discovery!Only,
       Discovery!Everywhere, OfParts!Discovery!Everywhere, Discovery!SetToSeq,
       OfParts!Discovery!SetToSeq, Discovery!Found, OfParts!Discovery!Found,
       Discovery!Wrong, OfParts!Discovery!Wrong, Discovery!AttachedHost,
       OfParts!Discovery!AttachedHost, Discovery!Things, OfParts!Discovery!Things,
       Discovery!Cardinality, OfParts!Discovery!Cardinality, Discovery!IsInjective,
       OfParts!Discovery!IsInjective, Discovery!Of, OfParts!Discovery!Of, Discovery!ToSet,
       OfParts!Discovery!ToSet, Discovery!IsFiniteSet, OfParts!Discovery!IsFiniteSet
<1> Discovery!Disks(facts, shown) = OfParts!Discovery!Disks(facts, shown)
  BY Zenon DEF Discovery!Disks, OfParts!Discovery!Disks, Discovery!SetToSeq,
       OfParts!Discovery!SetToSeq, Discovery!Report, OfParts!Discovery!Report,
       Discovery!DiskIssues, OfParts!Discovery!DiskIssues, Discovery!CategoriesOf,
       OfParts!Discovery!CategoriesOf, Discovery!Cardinality, OfParts!Discovery!Cardinality,
       Discovery!IsInjective, OfParts!Discovery!IsInjective, Discovery!Only,
       OfParts!Discovery!Only, Discovery!Of, OfParts!Discovery!Of, Discovery!Found,
       OfParts!Discovery!Found, Discovery!Wrong, OfParts!Discovery!Wrong,
       Discovery!IsFiniteSet, OfParts!Discovery!IsFiniteSet, Discovery!Things,
       OfParts!Discovery!Things, Discovery!ToSet, OfParts!Discovery!ToSet
<1> Discovery!Raid(facts, shown) = OfParts!Discovery!Raid(facts, shown)
  BY Zenon DEF Discovery!Raid, OfParts!Discovery!Raid, Discovery!SetToSeq,
       OfParts!Discovery!SetToSeq, Discovery!Report, OfParts!Discovery!Report,
       Discovery!RaidIssues, OfParts!Discovery!RaidIssues, Discovery!CategoriesOf,
       OfParts!Discovery!CategoriesOf, Discovery!Cardinality, OfParts!Discovery!Cardinality,
       Discovery!IsInjective, OfParts!Discovery!IsInjective, Discovery!Of,
       OfParts!Discovery!Of, Discovery!Only, OfParts!Discovery!Only, Discovery!IsFiniteSet,
       OfParts!Discovery!IsFiniteSet, Discovery!Things, OfParts!Discovery!Things,
       Discovery!ToSet, OfParts!Discovery!ToSet
<1> Discovery!Drift(facts, on, shown) = OfParts!Discovery!Drift(facts, on, shown)
  BY Zenon DEF Discovery!Drift, OfParts!Discovery!Drift, Discovery!Listed, OfParts!Discovery!Listed,
       Discovery!Wrong, OfParts!Discovery!Wrong, Discovery!Report, OfParts!Discovery!Report,
       Discovery!Found, OfParts!Discovery!Found, Discovery!Of, OfParts!Discovery!Of,
       Discovery!Things, OfParts!Discovery!Things, Discovery!ToSet, OfParts!Discovery!ToSet
<1> Discovery!Workloads(facts, on, shown) = OfParts!Discovery!Workloads(facts, on, shown)
  BY Zenon DEF Discovery!Workloads, OfParts!Discovery!Workloads, Discovery!Listed,
       OfParts!Discovery!Listed, Discovery!Wrong, OfParts!Discovery!Wrong, Discovery!Report,
       OfParts!Discovery!Report, Discovery!Found, OfParts!Discovery!Found, Discovery!Of,
       OfParts!Discovery!Of, Discovery!Things, OfParts!Discovery!Things, Discovery!ToSet,
       OfParts!Discovery!ToSet
<1> Discovery!Exports(facts, on, shown) = OfParts!Discovery!Exports(facts, on, shown)
  BY Zenon DEF Discovery!Exports, OfParts!Discovery!Exports, Discovery!Listed,
       OfParts!Discovery!Listed, Discovery!StrayExports, OfParts!Discovery!StrayExports,
       Discovery!Report, OfParts!Discovery!Report, Discovery!Found, OfParts!Discovery!Found,
       Discovery!Of, OfParts!Discovery!Of, Discovery!Wrong, OfParts!Discovery!Wrong,
       Discovery!Things, OfParts!Discovery!Things, Discovery!ToSet, OfParts!Discovery!ToSet
<1> Discovery!Networks(facts, on, shown) = OfParts!Discovery!Networks(facts, on, shown)
  BY Zenon DEF Discovery!Networks, OfParts!Discovery!Networks, Discovery!SetToSeq,
       OfParts!Discovery!SetToSeq, Discovery!Report, OfParts!Discovery!Report,
       Discovery!Only, OfParts!Discovery!Only, Discovery!Wrong, OfParts!Discovery!Wrong,
       Discovery!Name, OfParts!Discovery!Name, Discovery!Cardinality,
       OfParts!Discovery!Cardinality, Discovery!IsInjective, OfParts!Discovery!IsInjective,
       Discovery!Of, OfParts!Discovery!Of, Discovery!IsFiniteSet,
       OfParts!Discovery!IsFiniteSet, Discovery!Things, OfParts!Discovery!Things,
       Discovery!ToSet, OfParts!Discovery!ToSet
<1> Discovery!Bottlenecks(facts, shown) = OfParts!Discovery!Bottlenecks(facts, shown)
  BY Zenon DEF Discovery!Bottlenecks, OfParts!Discovery!Bottlenecks, Discovery!Report,
       OfParts!Discovery!Report, Discovery!LinkAsymmetry, OfParts!Discovery!LinkAsymmetry,
       Discovery!MemoryPressure, OfParts!Discovery!MemoryPressure, Discovery!SingleUplink,
       OfParts!Discovery!SingleUplink, Discovery!CategoriesOf,
       OfParts!Discovery!CategoriesOf, Discovery!Everywhere, OfParts!Discovery!Everywhere,
       Discovery!Only, OfParts!Discovery!Only, Discovery!Mixed, OfParts!Discovery!Mixed,
       Discovery!Found, OfParts!Discovery!Found, Discovery!Wrong, OfParts!Discovery!Wrong,
       Discovery!Cardinality, OfParts!Discovery!Cardinality, Discovery!Of,
       OfParts!Discovery!Of, Discovery!Things, OfParts!Discovery!Things,
       Discovery!IsFiniteSet, OfParts!Discovery!IsFiniteSet, Discovery!ToSet,
       OfParts!Discovery!ToSet
<1> Discovery!Reports(mode, facts, on, shown)
      = Chosen(Discovery!Versions(facts, on, shown), Discovery!Backups(facts, on, shown),
               Discovery!Storage(facts, on, shown), Discovery!Suggestions(facts, shown),
               Discovery!Capacity(facts, shown), Discovery!Anomalies(facts, shown),
               Discovery!Rightsizing(facts, shown), Discovery!Printwarden(facts, on, shown),
               Discovery!JetKVM(facts, on), Discovery!Disks(facts, shown),
               Discovery!Raid(facts, shown), Discovery!Drift(facts, on, shown),
               Discovery!Workloads(facts, on, shown), Discovery!Exports(facts, on, shown),
               Discovery!Networks(facts, on, shown), Discovery!Bottlenecks(facts, shown))
  BY Zenon DEF Discovery!Reports
<1> OfParts!Discovery!Reports(mode, facts, on, shown)
      = Chosen(OfParts!Discovery!Versions(facts, on, shown),
               OfParts!Discovery!Backups(facts, on, shown),
               OfParts!Discovery!Storage(facts, on, shown),
               OfParts!Discovery!Suggestions(facts, shown),
               OfParts!Discovery!Capacity(facts, shown), OfParts!Discovery!Anomalies(facts, shown),
               OfParts!Discovery!Rightsizing(facts, shown),
               OfParts!Discovery!Printwarden(facts, on, shown), OfParts!Discovery!JetKVM(facts, on),
               OfParts!Discovery!Disks(facts, shown), OfParts!Discovery!Raid(facts, shown),
               OfParts!Discovery!Drift(facts, on, shown),
               OfParts!Discovery!Workloads(facts, on, shown),
               OfParts!Discovery!Exports(facts, on, shown),
               OfParts!Discovery!Networks(facts, on, shown),
               OfParts!Discovery!Bottlenecks(facts, shown))
  BY Zenon DEF OfParts!Discovery!Reports
<1> HIDE DEF Chosen
<1> QED
  BY Zenon

(* What a pass had to go by, and whether it is the case.                   *)
LEMMA DiscoveryLooked ==
    \A mode, facts, on, shown, reports :
       Discovery!Looked(mode, facts, on, shown, reports)
         = OfParts!Discovery!Looked(mode, facts, on, shown, reports)
<1> TAKE mode, facts, on, shown, reports
<1> DEFINE Seen(sources, categories, asked, sight, namesakes, wrong) ==
          [ran |-> TRUE, answered |-> sources \subseteq on,
           full |-> /\ x1[1] \in categories /\ on = asked /\ shown = sight
                    /\ namesakes = {}
                    /\ \E i \in DOMAIN reports :
                          x1[1] \in reports[i].looked /\ x1[2] \in reports[i].at,
           wrong |-> wrong]
<1> \A c : Discovery!SourcesOf(c) = OfParts!Discovery!SourcesOf(c)
  BY Zenon DEF Discovery!SourcesOf, OfParts!Discovery!SourcesOf, Discovery!CategoriesOf,
       OfParts!Discovery!CategoriesOf
<1> Discovery!CategoriesOf(mode) = OfParts!Discovery!CategoriesOf(mode)
  BY Zenon DEF Discovery!CategoriesOf, OfParts!Discovery!CategoriesOf
<1> Discovery!Of("namesake", facts) = OfParts!Discovery!Of("namesake", facts)
  BY Zenon DEF Discovery!Of, OfParts!Discovery!Of, Discovery!Things, OfParts!Discovery!Things,
       Discovery!ToSet, OfParts!Discovery!ToSet
<1> Discovery!Own(x1[1]) = OfParts!Discovery!Own(x1[1])
  BY Zenon DEF Discovery!Own, OfParts!Discovery!Own, Discovery!Passes, OfParts!Discovery!Passes,
       Discovery!CategoriesOf, OfParts!Discovery!CategoriesOf
<1> \A p : Discovery!Sources(p) = OfParts!Discovery!Sources(p)
  BY Zenon DEF Discovery!Sources, OfParts!Discovery!Sources, Discovery!SourcesOf,
       OfParts!Discovery!SourcesOf, Discovery!CategoriesOf, OfParts!Discovery!CategoriesOf
<1> \A p : Discovery!Sight(p) = OfParts!Discovery!Sight(p)
  BY Zenon DEF Discovery!Sight, OfParts!Discovery!Sight, Discovery!Things, OfParts!Discovery!Things,
       Discovery!Metrics, OfParts!Discovery!Metrics, Discovery!ToSet,
       OfParts!Discovery!ToSet
<1> Discovery!Asked(mode) = OfParts!Discovery!Asked(mode)
  BY Zenon DEF Discovery!Asked, OfParts!Discovery!Asked, Discovery!Sources,
       OfParts!Discovery!Sources, Discovery!SourcesOf, OfParts!Discovery!SourcesOf,
       Discovery!CategoriesOf, OfParts!Discovery!CategoriesOf
<1> Discovery!True(facts) = OfParts!Discovery!True(facts)
  BY DiscoveryReports, Zenon DEF Discovery!True, OfParts!Discovery!True
<1> Discovery!Looked(mode, facts, on, shown, reports)
      = Seen(Discovery!SourcesOf(x1[1]), Discovery!CategoriesOf(mode), Discovery!Asked(mode),
             Discovery!Sight(mode), Discovery!Of("namesake", facts), Discovery!True(facts))
  BY Zenon DEF Discovery!Looked
<1> OfParts!Discovery!Looked(mode, facts, on, shown, reports)
      = Seen(OfParts!Discovery!SourcesOf(x1[1]), OfParts!Discovery!CategoriesOf(mode),
             OfParts!Discovery!Asked(mode), OfParts!Discovery!Sight(mode),
             OfParts!Discovery!Of("namesake", facts), OfParts!Discovery!True(facts))
  BY Zenon DEF OfParts!Discovery!Looked
<1> HIDE DEF Seen
<1> QED
  BY Zenon

LEMMA DiscoveryInit == Discovery!Init <=> OfParts!Discovery!Init
  BY Zenon DEF Discovery!Init, OfParts!Discovery!Init, Discovery!Keys, OfParts!Discovery!Keys,
       Discovery!NoPass, OfParts!Discovery!NoPass, Discovery!TargetsOf,
       OfParts!Discovery!TargetsOf, Discovery!CategoriesOf, OfParts!Discovery!CategoriesOf,
       Discovery!Passes, OfParts!Discovery!Passes, Discovery!Things,
       OfParts!Discovery!Things, Discovery!ToSet, OfParts!Discovery!ToSet

LEMMA DiscoveryNext == Discovery!Next <=> OfParts!Discovery!Next
<1>1. \A mode : Discovery!Run(mode) <=> OfParts!Discovery!Run(mode)
  <2> Discovery!Things = OfParts!Discovery!Things
    BY Zenon DEF Discovery!Things, OfParts!Discovery!Things, Discovery!ToSet,
         OfParts!Discovery!ToSet
  <2> Discovery!Own(x1[1]) = OfParts!Discovery!Own(x1[1])
    BY Zenon DEF Discovery!Own, OfParts!Discovery!Own, Discovery!Passes,
         OfParts!Discovery!Passes, Discovery!CategoriesOf, OfParts!Discovery!CategoriesOf
  <2> Discovery!Labels(x1[1]) = OfParts!Discovery!Labels(x1[1])
    BY Zenon DEF Discovery!Labels, OfParts!Discovery!Labels, Discovery!CategoriesOf,
         OfParts!Discovery!CategoriesOf
  <2> \A mode : Discovery!Facts(mode) = OfParts!Discovery!Facts(mode)
    BY Zenon DEF Discovery!Facts, OfParts!Discovery!Facts
  <2> \A mode : Discovery!Sources(mode) = OfParts!Discovery!Sources(mode)
    BY Zenon DEF Discovery!Sources, OfParts!Discovery!Sources, Discovery!SourcesOf,
         OfParts!Discovery!SourcesOf, Discovery!CategoriesOf, OfParts!Discovery!CategoriesOf
  <2> Discovery!SourcesOf(x1[1]) = OfParts!Discovery!SourcesOf(x1[1])
    BY Zenon DEF Discovery!SourcesOf, OfParts!Discovery!SourcesOf, Discovery!CategoriesOf,
         OfParts!Discovery!CategoriesOf
  <2> \A mode : Discovery!Asked(mode) = OfParts!Discovery!Asked(mode)
    BY Zenon DEF Discovery!Asked, OfParts!Discovery!Asked
  <2> \A mode : Discovery!Sight(mode) = OfParts!Discovery!Sight(mode)
    BY Zenon DEF Discovery!Sight, OfParts!Discovery!Sight, Discovery!Metrics,
         OfParts!Discovery!Metrics
  <2> \A facts : (Discovery!Cardinality(Discovery!AttachedHost(facts)) <= 1)
                   <=> (OfParts!Discovery!Cardinality(OfParts!Discovery!AttachedHost(facts)) <= 1)
    BY Zenon DEF Discovery!Cardinality, OfParts!Discovery!Cardinality, Discovery!AttachedHost,
         OfParts!Discovery!AttachedHost, Discovery!IsFiniteSet,
         OfParts!Discovery!IsFiniteSet, Discovery!Of, OfParts!Discovery!Of,
         Discovery!Things, OfParts!Discovery!Things, Discovery!ToSet,
         OfParts!Discovery!ToSet
  <2> \A s, reports : Discovery!Reconciling(s, reports) = OfParts!Discovery!Reconciling(s, reports)
    BY Zenon DEF Discovery!Reconciling, OfParts!Discovery!Reconciling, Discovery!Reconciled,
         OfParts!Discovery!Reconciled
  <2> QED
    BY DiscoveryReports, DiscoveryLooked DEF Discovery!Run, OfParts!Discovery!Run
<1>2. \A to : Discovery!Triage(to) <=> OfParts!Discovery!Triage(to)
  BY Zenon DEF Discovery!Triage, OfParts!Discovery!Triage, Discovery!NoPass,
       OfParts!Discovery!NoPass
<1>3. \A c : Discovery!Kinsfolk(c) = OfParts!Discovery!Kinsfolk(c)
  BY Zenon DEF Discovery!Kinsfolk, OfParts!Discovery!Kinsfolk, Discovery!Own, OfParts!Discovery!Own,
       Discovery!Passes, OfParts!Discovery!Passes, Discovery!CategoriesOf,
       OfParts!Discovery!CategoriesOf
<1> QED
  BY <1>1, <1>2, <1>3, Zenon DEF Discovery!Next, OfParts!Discovery!Next

LEMMA DiscoveryBehave ==
    OperationsSpec => [](~(part = "discovery")) \/ OfParts!Discovery!Spec
<1>1. OperationsInit => ~(part = "discovery") \/ OfParts!Discovery!Init
  BY DiscoveryInit, Zenon DEF OperationsInit
<1>2. [OperationsNext]_operationsVars
         => ~(part = "discovery") \/ [OfParts!Discovery!Next]_(OfParts!Discovery!vars)
  BY PartMoves, DiscoveryNext DEF slots, OfParts!Discovery!vars
<1>3. [OperationsNext]_operationsVars => ((part = "discovery")' <=> part = "discovery")
  BY PartMoves, Zenon
<1> QED
  BY <1>1, <1>2, <1>3, PTL DEF OperationsSpec, OfParts!Discovery!Spec

LEMMA DiscoveryAssumed == OfParts!Discovery!DiscoveryAssumption
  BY OperationsAssumption, Zenon DEF Discovery!DiscoveryAssumption,
       OfParts!Discovery!DiscoveryAssumption, Discovery!ToSet,
       OfParts!Discovery!ToSet, Discovery!IsInjective,
       OfParts!Discovery!IsInjective,
         OperationsAssumption

LEMMA LooksAreTrue == OperationsSpec => [](part = "discovery" => Discovery!FullLookIsTrue)
<1>1. OfParts!Discovery!Spec => [](OfParts!Discovery!TypeOK /\ OfParts!Discovery!FullLookIsTrue)
  BY DiscoveryAssumed, OfParts!FullLooksAreTrue, Zenon
<1>2. Discovery!FullLookIsTrue <=> OfParts!Discovery!FullLookIsTrue
  BY Zenon DEF Discovery!FullLookIsTrue, OfParts!Discovery!FullLookIsTrue
<1> QED
  BY <1>1, <1>2, DiscoveryBehave, PTL

LEMMA SilenceKept ==
    OperationsSpec => [][part = "discovery" => Discovery!SilenceStep]_operationsVars
<1>1. OfParts!Discovery!Spec => [][OfParts!Discovery!SilenceStep]_(OfParts!Discovery!vars)
  BY DiscoveryAssumed, OfParts!SilenceIsNoAnswer, Zenon DEF OfParts!Discovery!SilenceResolvesNothing
<1>2. Discovery!SilenceStep <=> OfParts!Discovery!SilenceStep
  BY Zenon DEF Discovery!SilenceStep, OfParts!Discovery!SilenceStep, Discovery!Scoped,
       OfParts!Discovery!Scoped, Discovery!CategoriesOf, OfParts!Discovery!CategoriesOf
<1>3. UNCHANGED OfParts!Discovery!vars => OfParts!Discovery!SilenceStep
  BY DEF OfParts!Discovery!vars, OfParts!Discovery!SilenceStep
<1> QED
  BY <1>1, <1>2, <1>3, DiscoveryBehave, PTL

(* The lineage of the hardware.                                            *)
(* What a listed line does to the parts that a pass carries.               *)
LEMMA DimmsUpserts ==
    \A st, kind, slot, line : Dimms!Upsert(st, kind, slot, line)
                                = OfParts!Lineage!Upsert(st, kind, slot, line)
<1> TAKE st, kind, slot, line
<1> DEFINE U(guarded, id, match, many) ==
              IF id = <<>> THEN [st EXCEPT !.gaps = @ \cup {<<kind, slot>>}]
              ELSE IF many THEN [st EXCEPT !.failed = TRUE]
              ELSE LET new == match = {}
                       i   == IF new THEN Len(st.parts) + 1 ELSE CHOOSE j \in match : TRUE
                   IN [st EXCEPT
                         !.parts  = IF new THEN Append(@, [kind |-> kind, wwn |-> guarded.wwn,
                                                           serial |-> guarded.serial]) ELSE @,
                         !.active = @ \cup {<<i, slot, line.device>>},
                         !.forged = IF guarded # line THEN @ \cup {line.serial} ELSE @]
<1> PICK g, id, match :
       /\ g = Dimms!Guarded(st.parts, kind, line)
       /\ id = Dimms!Identity(g)
       /\ match = IF id = <<>> THEN {} ELSE Dimms!Matching(st.parts, kind, id)
  BY Zenon
<1> /\ g = OfParts!Lineage!Guarded(st.parts, kind, line)
    /\ id = OfParts!Lineage!Identity(g)
    /\ match = IF id = <<>> THEN {} ELSE OfParts!Lineage!Matching(st.parts, kind, id)
  BY Zenon DEF Dimms!Guarded, OfParts!Lineage!Guarded, Dimms!Identity, OfParts!Lineage!Identity,
       Dimms!Matching, OfParts!Lineage!Matching, Dimms!Forged, OfParts!Lineage!Forged
<1>1. Dimms!Cardinality(match) = OfParts!Lineage!Cardinality(match)
  BY Zenon DEF Dimms!Cardinality, OfParts!Lineage!Cardinality, Dimms!IsFiniteSet,
       OfParts!Lineage!IsFiniteSet
<1>2. Dimms!Upsert(st, kind, slot, line)
        = U(g, id, match, Dimms!Cardinality(match) > 1)
  BY Zenon DEF Dimms!Upsert
<1> OfParts!Lineage!Upsert(st, kind, slot, line)
      = U(g, id, match, OfParts!Lineage!Cardinality(match) > 1)
  BY Zenon DEF OfParts!Lineage!Upsert
<1> QED
  BY <1>1, <1>2

(* What the lines of one kind do to them, slot after slot.                 *)
LEMMA DimmsProjects ==
    \A ps, kind, list : Dimms!Project(ps, kind, list)
                          = OfParts!Lineage!Project(ps, kind, list)
<1> TAKE ps, kind, list
<1> Dimms!Start(ps) = OfParts!Lineage!Start(ps)
  BY Zenon DEF Dimms!Start, OfParts!Lineage!Start
<1> \A st, slot : Dimms!Taken(st, kind, slot, list)
                    = OfParts!Lineage!Taken(st, kind, slot, list)
  BY DimmsUpserts DEF Dimms!Taken, OfParts!Lineage!Taken
<1> \A f : [slot \in 0 .. 1 |->
               IF slot = 0 THEN Dimms!Start(ps)
               ELSE Dimms!Taken(f[slot - 1], kind, slot, list)]
             = [slot \in 0 .. 1 |->
                  IF slot = 0 THEN OfParts!Lineage!Start(ps)
                  ELSE OfParts!Lineage!Taken(f[slot - 1], kind, slot, list)]
  BY Zenon
<1> (CHOOSE f : f = [slot \in 0 .. 1 |->
                       IF slot = 0 THEN Dimms!Start(ps)
                       ELSE Dimms!Taken(f[slot - 1], kind, slot, list)])
      = CHOOSE f : f = [slot \in 0 .. 1 |->
                          IF slot = 0 THEN OfParts!Lineage!Start(ps)
                          ELSE OfParts!Lineage!Taken(f[slot - 1], kind, slot, list)]
  BY Zenon
<1> QED
  BY Zenon DEF Dimms!Project, OfParts!Lineage!Project

(* What one kind leaves of the inventory, or that it failed.               *)
LEMMA DimmsCarry ==
    \A inv, h, kind, list : Dimms!Carried(inv, h, kind, list)
                              = OfParts!Lineage!Carried(inv, h, kind, list)
<1> TAKE inv, h, kind, list
<1> DEFINE C(st, opened) ==
              IF inv.failed THEN inv
              ELSE [parts  |-> st.parts, failed |-> st.failed,
                    open   |-> IF st.failed THEN inv.open ELSE opened,
                    gaps   |-> inv.gaps \cup {<<h, g[1], g[2]>> : g \in st.gaps},
                    forged |-> inv.forged \cup {<<h, s>> : s \in st.forged},
                    active |-> inv.active \cup st.active,
                    done   |-> IF st.failed THEN inv.done ELSE inv.done \cup {kind}]
<1> PICK st : st = Dimms!Project(inv.parts, kind, list)
  BY Zenon
<1> st = OfParts!Lineage!Project(inv.parts, kind, list)
  BY DimmsProjects, Zenon
<1> Dimms!Placed(inv.open, h, kind, st.parts, Dimms!Pairs(st.active))
      = OfParts!Lineage!Placed(inv.open, h, kind, st.parts,
            OfParts!Lineage!Pairs(st.active))
  BY Zenon DEF Dimms!Placed, OfParts!Lineage!Placed, Dimms!Pairs, OfParts!Lineage!Pairs
<1> Dimms!Carried(inv, h, kind, list)
      = C(st, Dimms!Placed(inv.open, h, kind, st.parts, Dimms!Pairs(st.active)))
  BY Zenon DEF Dimms!Carried
<1> OfParts!Lineage!Carried(inv, h, kind, list)
      = C(st, OfParts!Lineage!Placed(inv.open, h, kind, st.parts,
                OfParts!Lineage!Pairs(st.active)))
  BY Zenon DEF OfParts!Lineage!Carried
<1> QED
  OBVIOUS

(* All three kinds, one after the other.                                   *)
LEMMA DimmsReconcile ==
    \A h, lists : Dimms!ReconcileHost(h, lists)
                    <=> OfParts!Lineage!ReconcileHost(h, lists)
<1> TAKE h, lists
<1> DEFINE start == [parts |-> x3, failed |-> FALSE, open |-> x4, gaps |-> {}, forged |-> x6,
                     active |-> {}, done |-> {}]
           Does(inv, devices, kindOf) ==
              LET listed == {a[3] : a \in inv.active} IN
              /\ x3' = inv.parts /\ x6' = inv.forged /\ x4' = inv.open
              /\ x5' = {g \in x5 : g[1] # h \/ inv.failed} \cup inv.gaps
              /\ x10' = [d \in devices |-> x10[d] \cup {a[1] : a \in {b \in inv.active : b[3] = d}}]
              /\ x9' = [d \in devices |-> IF kindOf[d] \notin inv.done THEN x9[d]
                                          ELSE IF d \in listed THEN h
                                          ELSE IF x9[d] = h THEN None ELSE x9[d]]
<1>a. PICK a, b, c :
                   /\ a = Dimms!DimmLineage(start, h, lists["dimm"])
                   /\ b = Dimms!StorageLineage(a, h, lists["disk"])
                   /\ c = Dimms!NicLineage(b, h, lists["nic"])
  BY Zenon
<1>b. /\ a = OfParts!Lineage!DimmLineage(start, h, lists["dimm"])
      /\ b = OfParts!Lineage!StorageLineage(a, h, lists["disk"])
      /\ c = OfParts!Lineage!NicLineage(b, h, lists["nic"])
  BY <1>a, DimmsCarry, Zenon
     DEF Dimms!DimmLineage, OfParts!Lineage!DimmLineage,
         Dimms!StorageLineage, OfParts!Lineage!StorageLineage,
         Dimms!NicLineage, OfParts!Lineage!NicLineage
<1>1. Dimms!ReconcileHost(h, lists) <=> Does(c, DimmAndNic, KindOfBoth)
  BY <1>a DEF Dimms!ReconcileHost
<1> OfParts!Lineage!ReconcileHost(h, lists) <=> Does(c, DimmAndNic, KindOfBoth)
  BY <1>b DEF OfParts!Lineage!ReconcileHost
<1> QED
  BY <1>1, Zenon

(* A pass over one host.                                                   *)
LEMMA DimmsPass ==
    \A h, kinds, sensed : Dimms!Pass(h, kinds, sensed)
                             <=> OfParts!Lineage!Pass(h, kinds, sensed)
<1> TAKE h, kinds, sensed
<1> \A k : Dimms!Listing(h, k, sensed) = OfParts!Lineage!Listing(h, k, sensed)
  BY Zenon DEF Dimms!Listing, OfParts!Lineage!Listing, Dimms!LineOf, OfParts!Lineage!LineOf,
       Dimms!At, OfParts!Lineage!At
<1> \A k : Dimms!At(h, k) = OfParts!Lineage!At(h, k)
  BY Zenon DEF Dimms!At, OfParts!Lineage!At
<1> PICK lists, seenAt :
       /\ lists = [k \in Dimms!Kinds |->
                      IF k \in kinds THEN Dimms!Listing(h, k, sensed) ELSE x2[h][k]]
       /\ seenAt = UNION {Dimms!At(h, k) : k \in kinds}
  BY Zenon
<1> lists = [k \in OfParts!Lineage!Kinds |->
               IF k \in kinds THEN OfParts!Lineage!Listing(h, k, sensed) ELSE x2[h][k]]
  BY Zenon DEF Dimms!Kinds, OfParts!Lineage!Kinds
<1> seenAt = UNION {OfParts!Lineage!At(h, k) : k \in kinds}
  BY Zenon
<1> DEFINE P(reconciled) ==
      /\ x8 < 3
      /\ x2' = [x2 EXCEPT ![h] = lists]
      /\ reconciled
      /\ x11' = x11 \cup {d \in seenAt : sensed[d] \notin {{}, {"wwn", "serial"}}}
      /\ x8' = x8 + 1
      /\ UNCHANGED <<x1, x7>>
<1> Dimms!Pass(h, kinds, sensed) <=> P(Dimms!ReconcileHost(h, lists))
  BY Zenon DEF Dimms!Pass
<1> OfParts!Lineage!Pass(h, kinds, sensed) <=> P(OfParts!Lineage!ReconcileHost(h, lists))
  BY Zenon DEF OfParts!Lineage!Pass
<1> QED
  BY DimmsReconcile, Zenon

(* The run and the proofs speak of one behaviour, and of one property.     *)
LEMMA DimmsInit == Dimms!Init <=> OfParts!Lineage!Init
  BY Zenon DEF Dimms!Init, OfParts!Lineage!Init, Dimms!Kinds, OfParts!Lineage!Kinds

LEMMA DimmsNext == Dimms!Next <=> OfParts!Lineage!Next
<1> \A d, h, s : Dimms!Move(d, h, s) <=> OfParts!Lineage!Move(d, h, s)
  BY Zenon DEF Dimms!Move, OfParts!Lineage!Move
<1> \A i, j : Dimms!MergeParts(i, j) <=> OfParts!Lineage!MergeParts(i, j)
  BY Zenon DEF Dimms!MergeParts, OfParts!Lineage!MergeParts, Dimms!Filled, OfParts!Lineage!Filled
<1> \A h : Dimms!RetireHost(h) <=> OfParts!Lineage!RetireHost(h)
  BY Zenon DEF Dimms!RetireHost, OfParts!Lineage!RetireHost
<1> \A h, k : Dimms!At(h, k) = OfParts!Lineage!At(h, k)
  BY Zenon DEF Dimms!At, OfParts!Lineage!At
<1> QED
  BY DimmsPass
     DEF Dimms!Next, OfParts!Lineage!Next, Dimms!Slots, OfParts!Lineage!Slots

LEMMA DimmsBehave ==
    OperationsSpec => [](~(part = "dimms")) \/ OfParts!Lineage!Spec
<1>1. OperationsInit => ~(part = "dimms") \/ OfParts!Lineage!Init
  BY DimmsInit, Zenon DEF OperationsInit
<1>2. [OperationsNext]_operationsVars
         => ~(part = "dimms") \/ [OfParts!Lineage!Next]_(OfParts!Lineage!vars)
  BY PartMoves, DimmsNext DEF slots, OfParts!Lineage!vars
<1>3. [OperationsNext]_operationsVars => ((part = "dimms")' <=> part = "dimms")
  BY PartMoves, Zenon
<1> QED
  BY <1>1, <1>2, <1>3, PTL DEF OperationsSpec, OfParts!Lineage!Spec

LEMMA DimmsAssumed == OfParts!Lineage!LineageAssumption
  BY OperationsAssumption, Zenon DEF Dimms!LineageAssumption, OfParts!Lineage!LineageAssumption,
         OperationsAssumption

LEMMA DimmsFollow == OperationsSpec => [](part = "dimms" => Dimms!LineageFollowsReports)
<1>1. OfParts!Lineage!Spec => []OfParts!Lineage!LineageFollowsReports
  BY DimmsAssumed, OfParts!InventoryFollows, Zenon
<1>2. Dimms!LineageFollowsReports <=> OfParts!Lineage!LineageFollowsReports
  BY Zenon DEF Dimms!LineageFollowsReports, OfParts!Lineage!LineageFollowsReports, Dimms!Known,
       OfParts!Lineage!Known, Dimms!Cardinality, OfParts!Lineage!Cardinality,
       Dimms!IsFiniteSet, OfParts!Lineage!IsFiniteSet
<1> QED
  BY <1>1, <1>2, DimmsBehave, PTL

-----------------------------------------------------------------------------
(* Two disks with one WWN, and with one each.                              *)
OfDisks == INSTANCE Parts_proofs WITH
    Hosts <- Two, NoHost <- None, Unread <- None, Devices <- TwoDisks, KindOf <- KindOfDisks,
    WwnOf <- SameWwn, Readings <- SerialToo, MaxSlot <- 2, MaxMoves <- 3, MaxPasses <- 3,
    where <- x1, seen <- x2, parts <- x3, open <- x4, gaps <- x5, forged <- x6, moves <- x7,
    passes <- x8, held <- x9, rows <- x10, varied <- x11

(* What a listed line does to the parts that a pass carries.               *)
LEMMA DisksUpserts ==
    \A st, kind, slot, line : Disks!Upsert(st, kind, slot, line)
                                = OfDisks!Lineage!Upsert(st, kind, slot, line)
<1> TAKE st, kind, slot, line
<1> DEFINE U(guarded, id, match, many) ==
              IF id = <<>> THEN [st EXCEPT !.gaps = @ \cup {<<kind, slot>>}]
              ELSE IF many THEN [st EXCEPT !.failed = TRUE]
              ELSE LET new == match = {}
                       i   == IF new THEN Len(st.parts) + 1 ELSE CHOOSE j \in match : TRUE
                   IN [st EXCEPT
                         !.parts  = IF new THEN Append(@, [kind |-> kind, wwn |-> guarded.wwn,
                                                           serial |-> guarded.serial]) ELSE @,
                         !.active = @ \cup {<<i, slot, line.device>>},
                         !.forged = IF guarded # line THEN @ \cup {line.serial} ELSE @]
<1> PICK g, id, match :
       /\ g = Disks!Guarded(st.parts, kind, line)
       /\ id = Disks!Identity(g)
       /\ match = IF id = <<>> THEN {} ELSE Disks!Matching(st.parts, kind, id)
  BY Zenon
<1> /\ g = OfDisks!Lineage!Guarded(st.parts, kind, line)
    /\ id = OfDisks!Lineage!Identity(g)
    /\ match = IF id = <<>> THEN {} ELSE OfDisks!Lineage!Matching(st.parts, kind, id)
  BY Zenon DEF Disks!Guarded, OfDisks!Lineage!Guarded, Disks!Identity, OfDisks!Lineage!Identity,
       Disks!Matching, OfDisks!Lineage!Matching, Disks!Forged, OfDisks!Lineage!Forged
<1>1. Disks!Cardinality(match) = OfDisks!Lineage!Cardinality(match)
  BY Zenon DEF Disks!Cardinality, OfDisks!Lineage!Cardinality, Disks!IsFiniteSet,
       OfDisks!Lineage!IsFiniteSet
<1>2. Disks!Upsert(st, kind, slot, line)
        = U(g, id, match, Disks!Cardinality(match) > 1)
  BY Zenon DEF Disks!Upsert
<1> OfDisks!Lineage!Upsert(st, kind, slot, line)
      = U(g, id, match, OfDisks!Lineage!Cardinality(match) > 1)
  BY Zenon DEF OfDisks!Lineage!Upsert
<1> QED
  BY <1>1, <1>2

(* What the lines of one kind do to them, slot after slot.                 *)
LEMMA DisksProjects ==
    \A ps, kind, list : Disks!Project(ps, kind, list)
                          = OfDisks!Lineage!Project(ps, kind, list)
<1> TAKE ps, kind, list
<1> Disks!Start(ps) = OfDisks!Lineage!Start(ps)
  BY Zenon DEF Disks!Start, OfDisks!Lineage!Start
<1> \A st, slot : Disks!Taken(st, kind, slot, list)
                    = OfDisks!Lineage!Taken(st, kind, slot, list)
  BY DisksUpserts DEF Disks!Taken, OfDisks!Lineage!Taken
<1> \A f : [slot \in 0 .. 2 |->
               IF slot = 0 THEN Disks!Start(ps)
               ELSE Disks!Taken(f[slot - 1], kind, slot, list)]
             = [slot \in 0 .. 2 |->
                  IF slot = 0 THEN OfDisks!Lineage!Start(ps)
                  ELSE OfDisks!Lineage!Taken(f[slot - 1], kind, slot, list)]
  BY Zenon
<1> (CHOOSE f : f = [slot \in 0 .. 2 |->
                       IF slot = 0 THEN Disks!Start(ps)
                       ELSE Disks!Taken(f[slot - 1], kind, slot, list)])
      = CHOOSE f : f = [slot \in 0 .. 2 |->
                          IF slot = 0 THEN OfDisks!Lineage!Start(ps)
                          ELSE OfDisks!Lineage!Taken(f[slot - 1], kind, slot, list)]
  BY Zenon
<1> QED
  BY Zenon DEF Disks!Project, OfDisks!Lineage!Project

(* What one kind leaves of the inventory, or that it failed.               *)
LEMMA DisksCarry ==
    \A inv, h, kind, list : Disks!Carried(inv, h, kind, list)
                              = OfDisks!Lineage!Carried(inv, h, kind, list)
<1> TAKE inv, h, kind, list
<1> DEFINE C(st, opened) ==
              IF inv.failed THEN inv
              ELSE [parts  |-> st.parts, failed |-> st.failed,
                    open   |-> IF st.failed THEN inv.open ELSE opened,
                    gaps   |-> inv.gaps \cup {<<h, g[1], g[2]>> : g \in st.gaps},
                    forged |-> inv.forged \cup {<<h, s>> : s \in st.forged},
                    active |-> inv.active \cup st.active,
                    done   |-> IF st.failed THEN inv.done ELSE inv.done \cup {kind}]
<1> PICK st : st = Disks!Project(inv.parts, kind, list)
  BY Zenon
<1> st = OfDisks!Lineage!Project(inv.parts, kind, list)
  BY DisksProjects, Zenon
<1> Disks!Placed(inv.open, h, kind, st.parts, Disks!Pairs(st.active))
      = OfDisks!Lineage!Placed(inv.open, h, kind, st.parts,
            OfDisks!Lineage!Pairs(st.active))
  BY Zenon DEF Disks!Placed, OfDisks!Lineage!Placed, Disks!Pairs, OfDisks!Lineage!Pairs
<1> Disks!Carried(inv, h, kind, list)
      = C(st, Disks!Placed(inv.open, h, kind, st.parts, Disks!Pairs(st.active)))
  BY Zenon DEF Disks!Carried
<1> OfDisks!Lineage!Carried(inv, h, kind, list)
      = C(st, OfDisks!Lineage!Placed(inv.open, h, kind, st.parts,
                OfDisks!Lineage!Pairs(st.active)))
  BY Zenon DEF OfDisks!Lineage!Carried
<1> QED
  OBVIOUS

(* All three kinds, one after the other.                                   *)
LEMMA DisksReconcile ==
    \A h, lists : Disks!ReconcileHost(h, lists)
                    <=> OfDisks!Lineage!ReconcileHost(h, lists)
<1> TAKE h, lists
<1> DEFINE start == [parts |-> x3, failed |-> FALSE, open |-> x4, gaps |-> {}, forged |-> x6,
                     active |-> {}, done |-> {}]
           Does(inv, devices, kindOf) ==
              LET listed == {a[3] : a \in inv.active} IN
              /\ x3' = inv.parts /\ x6' = inv.forged /\ x4' = inv.open
              /\ x5' = {g \in x5 : g[1] # h \/ inv.failed} \cup inv.gaps
              /\ x10' = [d \in devices |-> x10[d] \cup {a[1] : a \in {b \in inv.active : b[3] = d}}]
              /\ x9' = [d \in devices |-> IF kindOf[d] \notin inv.done THEN x9[d]
                                          ELSE IF d \in listed THEN h
                                          ELSE IF x9[d] = h THEN None ELSE x9[d]]
<1>a. PICK a, b, c :
                   /\ a = Disks!DimmLineage(start, h, lists["dimm"])
                   /\ b = Disks!StorageLineage(a, h, lists["disk"])
                   /\ c = Disks!NicLineage(b, h, lists["nic"])
  BY Zenon
<1>b. /\ a = OfDisks!Lineage!DimmLineage(start, h, lists["dimm"])
      /\ b = OfDisks!Lineage!StorageLineage(a, h, lists["disk"])
      /\ c = OfDisks!Lineage!NicLineage(b, h, lists["nic"])
  BY <1>a, DisksCarry, Zenon
     DEF Disks!DimmLineage, OfDisks!Lineage!DimmLineage,
         Disks!StorageLineage, OfDisks!Lineage!StorageLineage,
         Disks!NicLineage, OfDisks!Lineage!NicLineage
<1>1. Disks!ReconcileHost(h, lists) <=> Does(c, TwoDisks, KindOfDisks)
  BY <1>a DEF Disks!ReconcileHost
<1> OfDisks!Lineage!ReconcileHost(h, lists) <=> Does(c, TwoDisks, KindOfDisks)
  BY <1>b DEF OfDisks!Lineage!ReconcileHost
<1> QED
  BY <1>1, Zenon

(* A pass over one host.                                                   *)
LEMMA DisksPass ==
    \A h, kinds, sensed : Disks!Pass(h, kinds, sensed)
                             <=> OfDisks!Lineage!Pass(h, kinds, sensed)
<1> TAKE h, kinds, sensed
<1> \A k : Disks!Listing(h, k, sensed) = OfDisks!Lineage!Listing(h, k, sensed)
  BY Zenon DEF Disks!Listing, OfDisks!Lineage!Listing, Disks!LineOf, OfDisks!Lineage!LineOf,
       Disks!At, OfDisks!Lineage!At
<1> \A k : Disks!At(h, k) = OfDisks!Lineage!At(h, k)
  BY Zenon DEF Disks!At, OfDisks!Lineage!At
<1> PICK lists, seenAt :
       /\ lists = [k \in Disks!Kinds |->
                      IF k \in kinds THEN Disks!Listing(h, k, sensed) ELSE x2[h][k]]
       /\ seenAt = UNION {Disks!At(h, k) : k \in kinds}
  BY Zenon
<1> lists = [k \in OfDisks!Lineage!Kinds |->
               IF k \in kinds THEN OfDisks!Lineage!Listing(h, k, sensed) ELSE x2[h][k]]
  BY Zenon DEF Disks!Kinds, OfDisks!Lineage!Kinds
<1> seenAt = UNION {OfDisks!Lineage!At(h, k) : k \in kinds}
  BY Zenon
<1> DEFINE P(reconciled) ==
      /\ x8 < 3
      /\ x2' = [x2 EXCEPT ![h] = lists]
      /\ reconciled
      /\ x11' = x11 \cup {d \in seenAt : sensed[d] \notin {{}, {"wwn", "serial"}}}
      /\ x8' = x8 + 1
      /\ UNCHANGED <<x1, x7>>
<1> Disks!Pass(h, kinds, sensed) <=> P(Disks!ReconcileHost(h, lists))
  BY Zenon DEF Disks!Pass
<1> OfDisks!Lineage!Pass(h, kinds, sensed) <=> P(OfDisks!Lineage!ReconcileHost(h, lists))
  BY Zenon DEF OfDisks!Lineage!Pass
<1> QED
  BY DisksReconcile, Zenon

(* The run and the proofs speak of one behaviour, and of one property.     *)
LEMMA DisksInit == Disks!Init <=> OfDisks!Lineage!Init
  BY Zenon DEF Disks!Init, OfDisks!Lineage!Init, Disks!Kinds, OfDisks!Lineage!Kinds

LEMMA DisksNext == Disks!Next <=> OfDisks!Lineage!Next
<1> \A d, h, s : Disks!Move(d, h, s) <=> OfDisks!Lineage!Move(d, h, s)
  BY Zenon DEF Disks!Move, OfDisks!Lineage!Move
<1> \A i, j : Disks!MergeParts(i, j) <=> OfDisks!Lineage!MergeParts(i, j)
  BY Zenon DEF Disks!MergeParts, OfDisks!Lineage!MergeParts, Disks!Filled, OfDisks!Lineage!Filled
<1> \A h : Disks!RetireHost(h) <=> OfDisks!Lineage!RetireHost(h)
  BY Zenon DEF Disks!RetireHost, OfDisks!Lineage!RetireHost
<1> \A h, k : Disks!At(h, k) = OfDisks!Lineage!At(h, k)
  BY Zenon DEF Disks!At, OfDisks!Lineage!At
<1> QED
  BY DisksPass
     DEF Disks!Next, OfDisks!Lineage!Next, Disks!Slots, OfDisks!Lineage!Slots

LEMMA DisksBehave ==
    OperationsSpec => [](~(part = "disks")) \/ OfDisks!Lineage!Spec
<1>1. OperationsInit => ~(part = "disks") \/ OfDisks!Lineage!Init
  BY DisksInit, Zenon DEF OperationsInit
<1>2. [OperationsNext]_operationsVars
         => ~(part = "disks") \/ [OfDisks!Lineage!Next]_(OfDisks!Lineage!vars)
  BY PartMoves, DisksNext DEF slots, OfDisks!Lineage!vars
<1>3. [OperationsNext]_operationsVars => ((part = "disks")' <=> part = "disks")
  BY PartMoves, Zenon
<1> QED
  BY <1>1, <1>2, <1>3, PTL DEF OperationsSpec, OfDisks!Lineage!Spec

LEMMA DisksAssumed == OfDisks!Lineage!LineageAssumption
  BY OperationsAssumption, Zenon DEF Disks!LineageAssumption, OfDisks!Lineage!LineageAssumption,
         OperationsAssumption

LEMMA DisksFollow == OperationsSpec => [](part = "disks" => Disks!LineageFollowsReports)
<1>1. OfDisks!Lineage!Spec => []OfDisks!Lineage!LineageFollowsReports
  BY DisksAssumed, OfDisks!InventoryFollows, Zenon
<1>2. Disks!LineageFollowsReports <=> OfDisks!Lineage!LineageFollowsReports
  BY Zenon DEF Disks!LineageFollowsReports, OfDisks!Lineage!LineageFollowsReports, Disks!Known,
       OfDisks!Lineage!Known, Disks!Cardinality, OfDisks!Lineage!Cardinality,
       Disks!IsFiniteSet, OfDisks!Lineage!IsFiniteSet
<1> QED
  BY <1>1, <1>2, DisksBehave, PTL

-----------------------------------------------------------------------------
OfDisksApart == INSTANCE Parts_proofs WITH
    Hosts <- Two, NoHost <- None, Unread <- None, Devices <- TwoDisks, KindOf <- KindOfDisks,
    WwnOf <- WwnEach, Readings <- SerialToo, MaxSlot <- 2, MaxMoves <- 2, MaxPasses <- 3,
    where <- x1, seen <- x2, parts <- x3, open <- x4, gaps <- x5, forged <- x6, moves <- x7,
    passes <- x8, held <- x9, rows <- x10, varied <- x11

(* What a listed line does to the parts that a pass carries.               *)
LEMMA DisksApartUpserts ==
    \A st, kind, slot, line : DisksApart!Upsert(st, kind, slot, line)
                                = OfDisksApart!Lineage!Upsert(st, kind, slot, line)
<1> TAKE st, kind, slot, line
<1> DEFINE U(guarded, id, match, many) ==
              IF id = <<>> THEN [st EXCEPT !.gaps = @ \cup {<<kind, slot>>}]
              ELSE IF many THEN [st EXCEPT !.failed = TRUE]
              ELSE LET new == match = {}
                       i   == IF new THEN Len(st.parts) + 1 ELSE CHOOSE j \in match : TRUE
                   IN [st EXCEPT
                         !.parts  = IF new THEN Append(@, [kind |-> kind, wwn |-> guarded.wwn,
                                                           serial |-> guarded.serial]) ELSE @,
                         !.active = @ \cup {<<i, slot, line.device>>},
                         !.forged = IF guarded # line THEN @ \cup {line.serial} ELSE @]
<1> PICK g, id, match :
       /\ g = DisksApart!Guarded(st.parts, kind, line)
       /\ id = DisksApart!Identity(g)
       /\ match = IF id = <<>> THEN {} ELSE DisksApart!Matching(st.parts, kind, id)
  BY Zenon
<1> /\ g = OfDisksApart!Lineage!Guarded(st.parts, kind, line)
    /\ id = OfDisksApart!Lineage!Identity(g)
    /\ match = IF id = <<>> THEN {} ELSE OfDisksApart!Lineage!Matching(st.parts, kind, id)
  BY Zenon DEF DisksApart!Guarded, OfDisksApart!Lineage!Guarded, DisksApart!Identity,
       OfDisksApart!Lineage!Identity, DisksApart!Matching, OfDisksApart!Lineage!Matching,
       DisksApart!Forged, OfDisksApart!Lineage!Forged
<1>1. DisksApart!Cardinality(match) = OfDisksApart!Lineage!Cardinality(match)
  BY Zenon DEF DisksApart!Cardinality, OfDisksApart!Lineage!Cardinality, DisksApart!IsFiniteSet,
       OfDisksApart!Lineage!IsFiniteSet
<1>2. DisksApart!Upsert(st, kind, slot, line)
        = U(g, id, match, DisksApart!Cardinality(match) > 1)
  BY Zenon DEF DisksApart!Upsert
<1> OfDisksApart!Lineage!Upsert(st, kind, slot, line)
      = U(g, id, match, OfDisksApart!Lineage!Cardinality(match) > 1)
  BY Zenon DEF OfDisksApart!Lineage!Upsert
<1> QED
  BY <1>1, <1>2

(* What the lines of one kind do to them, slot after slot.                 *)
LEMMA DisksApartProjects ==
    \A ps, kind, list : DisksApart!Project(ps, kind, list)
                          = OfDisksApart!Lineage!Project(ps, kind, list)
<1> TAKE ps, kind, list
<1> DisksApart!Start(ps) = OfDisksApart!Lineage!Start(ps)
  BY Zenon DEF DisksApart!Start, OfDisksApart!Lineage!Start
<1> \A st, slot : DisksApart!Taken(st, kind, slot, list)
                    = OfDisksApart!Lineage!Taken(st, kind, slot, list)
  BY DisksApartUpserts DEF DisksApart!Taken, OfDisksApart!Lineage!Taken
<1> \A f : [slot \in 0 .. 2 |->
               IF slot = 0 THEN DisksApart!Start(ps)
               ELSE DisksApart!Taken(f[slot - 1], kind, slot, list)]
             = [slot \in 0 .. 2 |->
                  IF slot = 0 THEN OfDisksApart!Lineage!Start(ps)
                  ELSE OfDisksApart!Lineage!Taken(f[slot - 1], kind, slot, list)]
  BY Zenon
<1> (CHOOSE f : f = [slot \in 0 .. 2 |->
                       IF slot = 0 THEN DisksApart!Start(ps)
                       ELSE DisksApart!Taken(f[slot - 1], kind, slot, list)])
      = CHOOSE f : f = [slot \in 0 .. 2 |->
                          IF slot = 0 THEN OfDisksApart!Lineage!Start(ps)
                          ELSE OfDisksApart!Lineage!Taken(f[slot - 1], kind, slot, list)]
  BY Zenon
<1> QED
  BY Zenon DEF DisksApart!Project, OfDisksApart!Lineage!Project

(* What one kind leaves of the inventory, or that it failed.               *)
LEMMA DisksApartCarry ==
    \A inv, h, kind, list : DisksApart!Carried(inv, h, kind, list)
                              = OfDisksApart!Lineage!Carried(inv, h, kind, list)
<1> TAKE inv, h, kind, list
<1> DEFINE C(st, opened) ==
              IF inv.failed THEN inv
              ELSE [parts  |-> st.parts, failed |-> st.failed,
                    open   |-> IF st.failed THEN inv.open ELSE opened,
                    gaps   |-> inv.gaps \cup {<<h, g[1], g[2]>> : g \in st.gaps},
                    forged |-> inv.forged \cup {<<h, s>> : s \in st.forged},
                    active |-> inv.active \cup st.active,
                    done   |-> IF st.failed THEN inv.done ELSE inv.done \cup {kind}]
<1> PICK st : st = DisksApart!Project(inv.parts, kind, list)
  BY Zenon
<1> st = OfDisksApart!Lineage!Project(inv.parts, kind, list)
  BY DisksApartProjects, Zenon
<1> DisksApart!Placed(inv.open, h, kind, st.parts, DisksApart!Pairs(st.active))
      = OfDisksApart!Lineage!Placed(inv.open, h, kind, st.parts,
            OfDisksApart!Lineage!Pairs(st.active))
  BY Zenon DEF DisksApart!Placed, OfDisksApart!Lineage!Placed, DisksApart!Pairs,
       OfDisksApart!Lineage!Pairs
<1> DisksApart!Carried(inv, h, kind, list)
      = C(st, DisksApart!Placed(inv.open, h, kind, st.parts, DisksApart!Pairs(st.active)))
  BY Zenon DEF DisksApart!Carried
<1> OfDisksApart!Lineage!Carried(inv, h, kind, list)
      = C(st, OfDisksApart!Lineage!Placed(inv.open, h, kind, st.parts,
                OfDisksApart!Lineage!Pairs(st.active)))
  BY Zenon DEF OfDisksApart!Lineage!Carried
<1> QED
  OBVIOUS

(* All three kinds, one after the other.                                   *)
LEMMA DisksApartReconcile ==
    \A h, lists : DisksApart!ReconcileHost(h, lists)
                    <=> OfDisksApart!Lineage!ReconcileHost(h, lists)
<1> TAKE h, lists
<1> DEFINE start == [parts |-> x3, failed |-> FALSE, open |-> x4, gaps |-> {}, forged |-> x6,
                     active |-> {}, done |-> {}]
           Does(inv, devices, kindOf) ==
              LET listed == {a[3] : a \in inv.active} IN
              /\ x3' = inv.parts /\ x6' = inv.forged /\ x4' = inv.open
              /\ x5' = {g \in x5 : g[1] # h \/ inv.failed} \cup inv.gaps
              /\ x10' = [d \in devices |-> x10[d] \cup {a[1] : a \in {b \in inv.active : b[3] = d}}]
              /\ x9' = [d \in devices |-> IF kindOf[d] \notin inv.done THEN x9[d]
                                          ELSE IF d \in listed THEN h
                                          ELSE IF x9[d] = h THEN None ELSE x9[d]]
<1>a. PICK a, b, c :
                   /\ a = DisksApart!DimmLineage(start, h, lists["dimm"])
                   /\ b = DisksApart!StorageLineage(a, h, lists["disk"])
                   /\ c = DisksApart!NicLineage(b, h, lists["nic"])
  BY Zenon
<1>b. /\ a = OfDisksApart!Lineage!DimmLineage(start, h, lists["dimm"])
      /\ b = OfDisksApart!Lineage!StorageLineage(a, h, lists["disk"])
      /\ c = OfDisksApart!Lineage!NicLineage(b, h, lists["nic"])
  BY <1>a, DisksApartCarry, Zenon
     DEF DisksApart!DimmLineage, OfDisksApart!Lineage!DimmLineage,
         DisksApart!StorageLineage, OfDisksApart!Lineage!StorageLineage,
         DisksApart!NicLineage, OfDisksApart!Lineage!NicLineage
<1>1. DisksApart!ReconcileHost(h, lists) <=> Does(c, TwoDisks, KindOfDisks)
  BY <1>a DEF DisksApart!ReconcileHost
<1> OfDisksApart!Lineage!ReconcileHost(h, lists) <=> Does(c, TwoDisks, KindOfDisks)
  BY <1>b DEF OfDisksApart!Lineage!ReconcileHost
<1> QED
  BY <1>1, Zenon

(* A pass over one host.                                                   *)
LEMMA DisksApartPass ==
    \A h, kinds, sensed : DisksApart!Pass(h, kinds, sensed)
                             <=> OfDisksApart!Lineage!Pass(h, kinds, sensed)
<1> TAKE h, kinds, sensed
<1> \A k : DisksApart!Listing(h, k, sensed) = OfDisksApart!Lineage!Listing(h, k, sensed)
  BY Zenon DEF DisksApart!Listing, OfDisksApart!Lineage!Listing, DisksApart!LineOf,
       OfDisksApart!Lineage!LineOf, DisksApart!At, OfDisksApart!Lineage!At
<1> \A k : DisksApart!At(h, k) = OfDisksApart!Lineage!At(h, k)
  BY Zenon DEF DisksApart!At, OfDisksApart!Lineage!At
<1> PICK lists, seenAt :
       /\ lists = [k \in DisksApart!Kinds |->
                      IF k \in kinds THEN DisksApart!Listing(h, k, sensed) ELSE x2[h][k]]
       /\ seenAt = UNION {DisksApart!At(h, k) : k \in kinds}
  BY Zenon
<1> lists = [k \in OfDisksApart!Lineage!Kinds |->
               IF k \in kinds THEN OfDisksApart!Lineage!Listing(h, k, sensed) ELSE x2[h][k]]
  BY Zenon DEF DisksApart!Kinds, OfDisksApart!Lineage!Kinds
<1> seenAt = UNION {OfDisksApart!Lineage!At(h, k) : k \in kinds}
  BY Zenon
<1> DEFINE P(reconciled) ==
      /\ x8 < 3
      /\ x2' = [x2 EXCEPT ![h] = lists]
      /\ reconciled
      /\ x11' = x11 \cup {d \in seenAt : sensed[d] \notin {{}, {"wwn", "serial"}}}
      /\ x8' = x8 + 1
      /\ UNCHANGED <<x1, x7>>
<1> DisksApart!Pass(h, kinds, sensed) <=> P(DisksApart!ReconcileHost(h, lists))
  BY Zenon DEF DisksApart!Pass
<1> OfDisksApart!Lineage!Pass(h, kinds, sensed) <=> P(OfDisksApart!Lineage!ReconcileHost(h, lists))
  BY Zenon DEF OfDisksApart!Lineage!Pass
<1> QED
  BY DisksApartReconcile, Zenon

(* The run and the proofs speak of one behaviour, and of one property.     *)
LEMMA DisksApartInit == DisksApart!Init <=> OfDisksApart!Lineage!Init
  BY Zenon DEF DisksApart!Init, OfDisksApart!Lineage!Init, DisksApart!Kinds,
       OfDisksApart!Lineage!Kinds

LEMMA DisksApartNext == DisksApart!Next <=> OfDisksApart!Lineage!Next
<1> \A d, h, s : DisksApart!Move(d, h, s) <=> OfDisksApart!Lineage!Move(d, h, s)
  BY Zenon DEF DisksApart!Move, OfDisksApart!Lineage!Move
<1> \A i, j : DisksApart!MergeParts(i, j) <=> OfDisksApart!Lineage!MergeParts(i, j)
  BY Zenon DEF DisksApart!MergeParts, OfDisksApart!Lineage!MergeParts, DisksApart!Filled,
       OfDisksApart!Lineage!Filled
<1> \A h : DisksApart!RetireHost(h) <=> OfDisksApart!Lineage!RetireHost(h)
  BY Zenon DEF DisksApart!RetireHost, OfDisksApart!Lineage!RetireHost
<1> \A h, k : DisksApart!At(h, k) = OfDisksApart!Lineage!At(h, k)
  BY Zenon DEF DisksApart!At, OfDisksApart!Lineage!At
<1> QED
  BY DisksApartPass
     DEF DisksApart!Next, OfDisksApart!Lineage!Next, DisksApart!Slots, OfDisksApart!Lineage!Slots

LEMMA DisksApartBehave ==
    OperationsSpec => [](~(part = "disks apart")) \/ OfDisksApart!Lineage!Spec
<1>1. OperationsInit => ~(part = "disks apart") \/ OfDisksApart!Lineage!Init
  BY DisksApartInit, Zenon DEF OperationsInit
<1>2. [OperationsNext]_operationsVars
         => ~(part = "disks apart") \/ [OfDisksApart!Lineage!Next]_(OfDisksApart!Lineage!vars)
  BY PartMoves, DisksApartNext DEF slots, OfDisksApart!Lineage!vars
<1>3. [OperationsNext]_operationsVars => ((part = "disks apart")' <=> part = "disks apart")
  BY PartMoves, Zenon
<1> QED
  BY <1>1, <1>2, <1>3, PTL DEF OperationsSpec, OfDisksApart!Lineage!Spec

LEMMA DisksApartAssumed == OfDisksApart!Lineage!LineageAssumption
  BY OperationsAssumption, Zenon DEF DisksApart!LineageAssumption,
       OfDisksApart!Lineage!LineageAssumption,
         OperationsAssumption

LEMMA DisksApartFollow ==
    OperationsSpec => [](part = "disks apart" => DisksApart!LineageFollowsReports)
<1>1. OfDisksApart!Lineage!Spec => []OfDisksApart!Lineage!LineageFollowsReports
  BY DisksApartAssumed, OfDisksApart!InventoryFollows, Zenon
<1>2. DisksApart!LineageFollowsReports <=> OfDisksApart!Lineage!LineageFollowsReports
  BY Zenon DEF DisksApart!LineageFollowsReports, OfDisksApart!Lineage!LineageFollowsReports,
       DisksApart!Known, OfDisksApart!Lineage!Known, DisksApart!Cardinality,
       OfDisksApart!Lineage!Cardinality, DisksApart!IsFiniteSet,
       OfDisksApart!Lineage!IsFiniteSet
<1> QED
  BY <1>1, <1>2, DisksApartBehave, PTL

-----------------------------------------------------------------------------
(* Syncs of one guest; and those of two, with the pushes of a host.        *)
OfOneSync == INSTANCE GuestSync_proofs WITH
    Guests <- OneGuest, Names <- Two, Values <- FieldValues, Unknown <- q1,
    MaxIds <- 2, MaxEdits <- 2, MaxPasses <- 5, Direct <- FALSE,
    source <- x1, vm <- x2, netbox <- x3, diverged <- x4, sync <- x5, edits <- x6, passes <- x7,
    meant <- x8, shaky <- x9, late <- x10, fresh <- x11

LEMMA OneSyncInit == OneSync!Init <=> OfOneSync!Init
  BY DEF OneSync!Init, OfOneSync!Init, OneSync!Ids, OfOneSync!Ids, OneSync!Idle, OfOneSync!Idle

LEMMA OneSyncNext == OneSync!Next <=> OfOneSync!Next
  BY Zenon DEF OneSync!Next, OfOneSync!Next, OneSync!Change, OfOneSync!Change, OneSync!Push,
       OfOneSync!Push, OneSync!StepIn, OfOneSync!StepIn, OneSync!Ids, OfOneSync!Ids,
       OneSync!Guest, OfOneSync!Guest, OneSync!EditNetBox, OfOneSync!EditNetBox,
       OneSync!Discover, OfOneSync!Discover, OneSync!List, OfOneSync!List, OneSync!Commit,
       OfOneSync!Commit, OneSync!Fail, OfOneSync!Fail, OneSync!Edited, OfOneSync!Edited,
       OneSync!Named, OfOneSync!Named, OneSync!Begun, OfOneSync!Begun, OneSync!NeverUsed,
       OfOneSync!NeverUsed, OneSync!Patched, OfOneSync!Patched, OneSync!Alone,
       OfOneSync!Alone, OneSync!CreateIn, OfOneSync!CreateIn, OneSync!SkipIn,
       OfOneSync!SkipIn, OneSync!UpdateIn, OfOneSync!UpdateIn, OneSync!Known,
       OfOneSync!Known, OneSync!There, OfOneSync!There, OneSync!Reconciled,
       OfOneSync!Reconciled, OneSync!Idle, OfOneSync!Idle, OneSync!Match, OfOneSync!Match,
       OneSync!Done, OfOneSync!Done, OneSync!Diverged, OfOneSync!Diverged, OneSync!Baseline,
       OfOneSync!Baseline, OneSync!Trusted, OfOneSync!Trusted

LEMMA OneSyncBehave ==
    OperationsSpec => [](~(part = "one sync")) \/ OfOneSync!Spec
<1>1. OperationsInit => ~(part = "one sync") \/ OfOneSync!Init
  BY OneSyncInit, Zenon DEF OperationsInit
<1>2. [OperationsNext]_operationsVars
         => ~(part = "one sync") \/ [OfOneSync!Next]_(OfOneSync!vars)
  BY PartMoves, OneSyncNext DEF slots, OfOneSync!vars
<1>3. [OperationsNext]_operationsVars => ((part = "one sync")' <=> part = "one sync")
  BY PartMoves, Zenon
<1> QED
  BY <1>1, <1>2, <1>3, PTL DEF OperationsSpec, OfOneSync!Spec

LEMMA OneSyncAssumed == OfOneSync!GuestSyncAssumption
  BY OperationsAssumption, Zenon DEF OneSync!GuestSyncAssumption, OfOneSync!GuestSyncAssumption,
       OneSync!Known, OfOneSync!Known, OneSync!Guest, OfOneSync!Guest,
       OneSync!Row, OfOneSync!Row, OneSync!Ids, OfOneSync!Ids,
         OperationsAssumption

LEMMA OneSyncSynced == OperationsSpec => [](part = "one sync" => OneSync!SyncedMeansSame)
<1>1. OfOneSync!Spec => []OfOneSync!SyncedMeansSame
  BY OneSyncAssumed, OfOneSync!SyncedIsSame, Zenon
<1>2. OneSync!SyncedMeansSame <=> OfOneSync!SyncedMeansSame
  BY Zenon DEF OneSync!SyncedMeansSame, OfOneSync!SyncedMeansSame, OneSync!There, OfOneSync!There
<1> QED
  BY <1>1, <1>2, OneSyncBehave, PTL

LEMMA OneSyncKept ==
    OperationsSpec => [][part = "one sync" => OneSync!HandEditsKeptStep]_operationsVars
<1>1. OfOneSync!Spec => [][OfOneSync!HandEditsKeptStep]_(OfOneSync!vars)
  BY OneSyncAssumed, OfOneSync!EditsAreKept, Zenon DEF OfOneSync!HandEditsKept
<1>2. OneSync!HandEditsKeptStep <=> OfOneSync!HandEditsKeptStep
  BY Zenon DEF OneSync!HandEditsKeptStep, OfOneSync!HandEditsKeptStep, OneSync!Ids, OfOneSync!Ids,
       OneSync!There, OfOneSync!There
<1>3. UNCHANGED OfOneSync!vars => OfOneSync!HandEditsKeptStep
  BY DEF OfOneSync!vars, OfOneSync!HandEditsKeptStep
<1> QED
  BY <1>1, <1>2, <1>3, OneSyncBehave, PTL

-----------------------------------------------------------------------------
OfTwoSyncs == INSTANCE GuestSync_proofs WITH
    Guests <- TwoGuests, Names <- Two, Values <- FieldValues, Unknown <- q1,
    MaxIds <- 2, MaxEdits <- 1, MaxPasses <- 3, Direct <- FALSE,
    source <- x1, vm <- x2, netbox <- x3, diverged <- x4, sync <- x5, edits <- x6, passes <- x7,
    meant <- x8, shaky <- x9, late <- x10, fresh <- x11,
    Own <- "own", Other <- "other", Fields <- Probes, Slots <- TwoAddresses, Parts <- TwoAddresses,
    Pushers <- Two, MaxItems <- 3, MaxPushes <- 2,
    placed <- x1, host <- x2, defined <- x3, device <- x4, item <- x5, push <- x6, made <- x7,
    touches <- x8, pushes <- x9, done <- x10

LEMMA TwoSyncsInit == TwoSyncs!Init <=> OfTwoSyncs!Init
  BY DEF TwoSyncs!Init, OfTwoSyncs!Init, TwoSyncs!Ids, OfTwoSyncs!Ids, TwoSyncs!Idle,
       OfTwoSyncs!Idle

LEMMA TwoSyncsNext == TwoSyncs!Next <=> OfTwoSyncs!Next
  BY ZenonT(60) DEF TwoSyncs!Next, OfTwoSyncs!Next, TwoSyncs!Change, OfTwoSyncs!Change, TwoSyncs!Push,
       OfTwoSyncs!Push, TwoSyncs!StepIn, OfTwoSyncs!StepIn, TwoSyncs!Ids, OfTwoSyncs!Ids,
       TwoSyncs!Guest, OfTwoSyncs!Guest, TwoSyncs!EditNetBox, OfTwoSyncs!EditNetBox,
       TwoSyncs!Discover, OfTwoSyncs!Discover, TwoSyncs!List, OfTwoSyncs!List,
       TwoSyncs!Commit, OfTwoSyncs!Commit, TwoSyncs!Fail, OfTwoSyncs!Fail, TwoSyncs!Edited,
       OfTwoSyncs!Edited, TwoSyncs!Named, OfTwoSyncs!Named, TwoSyncs!Begun,
       OfTwoSyncs!Begun, TwoSyncs!NeverUsed, OfTwoSyncs!NeverUsed, TwoSyncs!Patched,
       OfTwoSyncs!Patched, TwoSyncs!Alone, OfTwoSyncs!Alone, TwoSyncs!CreateIn,
       OfTwoSyncs!CreateIn, TwoSyncs!SkipIn, OfTwoSyncs!SkipIn, TwoSyncs!UpdateIn,
       OfTwoSyncs!UpdateIn, TwoSyncs!Known, OfTwoSyncs!Known, TwoSyncs!There,
       OfTwoSyncs!There, TwoSyncs!Reconciled, OfTwoSyncs!Reconciled, TwoSyncs!Idle,
       OfTwoSyncs!Idle, TwoSyncs!Match, OfTwoSyncs!Match, TwoSyncs!Done, OfTwoSyncs!Done,
       TwoSyncs!Diverged, OfTwoSyncs!Diverged, TwoSyncs!Baseline, OfTwoSyncs!Baseline,
       TwoSyncs!Trusted, OfTwoSyncs!Trusted

LEMMA TwoSyncsBehave ==
    OperationsSpec => [](~(part = "two syncs")) \/ OfTwoSyncs!Spec
<1>1. OperationsInit => ~(part = "two syncs") \/ OfTwoSyncs!Init
  BY TwoSyncsInit, Zenon DEF OperationsInit
<1>2. [OperationsNext]_operationsVars
         => ~(part = "two syncs") \/ [OfTwoSyncs!Next]_(OfTwoSyncs!vars)
  BY PartMoves, TwoSyncsNext DEF slots, OfTwoSyncs!vars
<1>3. [OperationsNext]_operationsVars => ((part = "two syncs")' <=> part = "two syncs")
  BY PartMoves, Zenon
<1> QED
  BY <1>1, <1>2, <1>3, PTL DEF OperationsSpec, OfTwoSyncs!Spec

LEMMA TwoSyncsAssumed == OfTwoSyncs!GuestSyncAssumption
  BY OperationsAssumption, Zenon DEF TwoSyncs!GuestSyncAssumption, OfTwoSyncs!GuestSyncAssumption,
       TwoSyncs!Known, OfTwoSyncs!Known, TwoSyncs!Guest,
       OfTwoSyncs!Guest, TwoSyncs!Row, OfTwoSyncs!Row, TwoSyncs!Ids,
       OfTwoSyncs!Ids,
         OperationsAssumption

LEMMA TwoSyncsSynced == OperationsSpec => [](part = "two syncs" => TwoSyncs!SyncedMeansSame)
<1>1. OfTwoSyncs!Spec => []OfTwoSyncs!SyncedMeansSame
  BY TwoSyncsAssumed, OfTwoSyncs!SyncedIsSame, Zenon
<1>2. TwoSyncs!SyncedMeansSame <=> OfTwoSyncs!SyncedMeansSame
  BY Zenon DEF TwoSyncs!SyncedMeansSame, OfTwoSyncs!SyncedMeansSame, TwoSyncs!There,
       OfTwoSyncs!There
<1> QED
  BY <1>1, <1>2, TwoSyncsBehave, PTL

LEMMA TwoSyncsKept ==
    OperationsSpec => [][part = "two syncs" => TwoSyncs!HandEditsKeptStep]_operationsVars
<1>1. OfTwoSyncs!Spec => [][OfTwoSyncs!HandEditsKeptStep]_(OfTwoSyncs!vars)
  BY TwoSyncsAssumed, OfTwoSyncs!EditsAreKept, Zenon DEF OfTwoSyncs!HandEditsKept
<1>2. TwoSyncs!HandEditsKeptStep <=> OfTwoSyncs!HandEditsKeptStep
  BY Zenon DEF TwoSyncs!HandEditsKeptStep, OfTwoSyncs!HandEditsKeptStep, TwoSyncs!Ids,
       OfTwoSyncs!Ids, TwoSyncs!There, OfTwoSyncs!There
<1>3. UNCHANGED OfTwoSyncs!vars => OfTwoSyncs!HandEditsKeptStep
  BY DEF OfTwoSyncs!vars, OfTwoSyncs!HandEditsKeptStep
<1> QED
  BY <1>1, <1>2, <1>3, TwoSyncsBehave, PTL

(* The pushes of a host.                                                   *)
LEMMA HostPushInit == HostPush!Init <=> OfTwoSyncs!Host!Init
  BY Zenon DEF HostPush!Init, OfTwoSyncs!Host!Init, HostPush!Min, OfTwoSyncs!Host!Min,
       HostPush!Devices, OfTwoSyncs!Host!Devices, HostPush!Unset, OfTwoSyncs!Host!Unset,
       HostPush!Ids, OfTwoSyncs!Host!Ids, HostPush!Resting, OfTwoSyncs!Host!Resting

LEMMA HostPushNext == HostPush!Next <=> OfTwoSyncs!Host!Next
  BY Zenon DEF HostPush!Next, OfTwoSyncs!Host!Next, HostPush!Begin, OfTwoSyncs!Host!Begin,
       HostPush!SyncHost, OfTwoSyncs!Host!SyncHost, HostPush!List, OfTwoSyncs!Host!List,
       HostPush!End, OfTwoSyncs!Host!End, HostPush!Fail, OfTwoSyncs!Host!Fail,
       HostPush!Write, OfTwoSyncs!Host!Write, HostPush!Bootstrap, OfTwoSyncs!Host!Bootstrap,
       HostPush!Rediscover, OfTwoSyncs!Host!Rediscover, HostPush!Edit, OfTwoSyncs!Host!Edit,
       HostPush!Desired, OfTwoSyncs!Host!Desired, HostPush!Found, OfTwoSyncs!Host!Found,
       HostPush!Resting, OfTwoSyncs!Host!Resting, HostPush!Missing, OfTwoSyncs!Host!Missing,
       HostPush!To, OfTwoSyncs!Host!To, HostPush!Max, OfTwoSyncs!Host!Max, HostPush!Row,
       OfTwoSyncs!Host!Row, HostPush!Listed, OfTwoSyncs!Host!Listed, HostPush!Twins,
       OfTwoSyncs!Host!Twins, HostPush!New, OfTwoSyncs!Host!New, HostPush!Ids,
       OfTwoSyncs!Host!Ids, HostPush!Devices, OfTwoSyncs!Host!Devices, HostPush!Unset,
       OfTwoSyncs!Host!Unset, HostPush!Item, OfTwoSyncs!Host!Item

LEMMA HostPushBehave ==
    OperationsSpec => [](~(part = "host push")) \/ OfTwoSyncs!Host!Spec
<1>1. OperationsInit => ~(part = "host push") \/ OfTwoSyncs!Host!Init
  BY HostPushInit, Zenon DEF OperationsInit
<1>2. [OperationsNext]_operationsVars
         => ~(part = "host push") \/ [OfTwoSyncs!Host!Next]_(OfTwoSyncs!Host!vars)
  BY PartMoves, HostPushNext DEF slots, OfTwoSyncs!Host!vars
<1>3. [OperationsNext]_operationsVars => ((part = "host push")' <=> part = "host push")
  BY PartMoves, Zenon
<1> QED
  BY <1>1, <1>2, <1>3, PTL DEF OperationsSpec, OfTwoSyncs!Host!Spec

LEMMA HostPushAssumed == OfTwoSyncs!Host!HostPushAssumption
  BY OperationsAssumption, Zenon DEF HostPush!HostPushAssumption,
       OfTwoSyncs!Host!HostPushAssumption, HostPush!Unset,
       OfTwoSyncs!Host!Unset, HostPush!Devices,
       OfTwoSyncs!Host!Devices, HostPush!Item, OfTwoSyncs!Host!Item,
         OperationsAssumption

LEMMA HostPushMirrored == OperationsSpec => [](part = "host push" => HostPush!MirrorsPlacements)
<1>1. OfTwoSyncs!Host!Spec => [](OfTwoSyncs!Host!TypeOK /\ OfTwoSyncs!Host!MirrorsPlacements)
  BY HostPushAssumed, OfTwoSyncs!PlacementsMirrored, Zenon
<1>2. HostPush!MirrorsPlacements <=> OfTwoSyncs!Host!MirrorsPlacements
  BY Zenon DEF HostPush!MirrorsPlacements, OfTwoSyncs!Host!MirrorsPlacements, HostPush!Row,
       OfTwoSyncs!Host!Row, HostPush!Max, OfTwoSyncs!Host!Max, HostPush!Listed,
       OfTwoSyncs!Host!Listed, HostPush!Ids, OfTwoSyncs!Host!Ids
<1> QED
  BY <1>1, <1>2, HostPushBehave, PTL

LEMMA HostPushKept ==
    OperationsSpec => [][part = "host push" => HostPush!HumanItemsKeptStep]_operationsVars
<1>1. OfTwoSyncs!Host!Spec => [][OfTwoSyncs!Host!HumanItemsKeptStep]_(OfTwoSyncs!Host!vars)
  BY HostPushAssumed, OfTwoSyncs!HumanItemsAreKept, Zenon DEF OfTwoSyncs!Host!vars
<1>2. HostPush!HumanItemsKeptStep <=> OfTwoSyncs!Host!HumanItemsKeptStep
  BY Zenon DEF HostPush!HumanItemsKeptStep, OfTwoSyncs!Host!HumanItemsKeptStep, HostPush!Ids,
       OfTwoSyncs!Host!Ids
<1>3. UNCHANGED OfTwoSyncs!Host!vars => OfTwoSyncs!Host!HumanItemsKeptStep
  BY DEF OfTwoSyncs!Host!vars, OfTwoSyncs!Host!HumanItemsKeptStep
<1> QED
  BY <1>1, <1>2, <1>3, HostPushBehave, PTL
-----------------------------------------------------------------------------
(* Of the run's own instances: a device is one part, open on the host that *)
(* reported it last, and the history that is kept of a series is what its  *)
(* source last held.                                                       *)
THEOREM LineageHolds == OperationsSpec => []LineageFollowsReports
  BY DisksFollow, DisksApartFollow, DimmsFollow, UsageKept, PTL DEF LineageFollowsReports

(* A finding is what the last runs, the last verdict or the last full look *)
(* say it should be.                                                       *)
THEOREM FindingsHold == OperationsSpec => []FindingsFollowRuns
  BY ProbingFound, LooksAreTrue, AssertionsFound, PTL DEF FindingsFollowRuns

(* A pass whose source did not answer resolves nothing of that source.     *)
THEOREM SilenceHolds == OperationsSpec => SilenceResolvesNothing
  BY SilenceKept, PTL DEF SilenceResolvesNothing

(* NetBox, the guest rows, the placements and the endpoints say what was   *)
(* last synced of them.                                                    *)
THEOREM SyncedHolds == OperationsSpec => []SyncedMeansSame
  BY OneSyncSynced, TwoSyncsSynced, SlicesFollow, HostPushMirrored, PTL DEF SyncedMeansSame

(* A sync never overwrites what a person changed in NetBox, and a push     *)
(* leaves the inventory items that are not the harness's own.              *)
THEOREM HandEditsHold == OperationsSpec => HandEditsKept
  BY OneSyncKept, TwoSyncsKept, HostPushKept, PTL DEF HandEditsKept
=============================================================================
