------------------------------ MODULE Manifest ------------------------------
(***************************************************************************)
(* The executable manifest, ProposalLog.artifact, and its two readers: the *)
(* schema a proposal is drafted with (engine/manifest.py) and the parser   *)
(* that the executor trusts (executor.parse_manifest), written apart.      *)
(*                                                                         *)
(* A tool drafts an artifact, validates it and parses it back in the same  *)
(* transaction.  Other authors write rows too, so an artifact may be       *)
(* edited.  The parser then makes a manifest of it or refuses it, and the  *)
(* manifest is dispatched with the adapters that the surface resolved.     *)
(*                                                                         *)
(* A target is a function from the fields it has to a class of values: a   *)
(* field of no target is "junk", and "bad" is what both readers refuse.    *)
(* "power" stands for the four power verbs, "node-update" for the reboot   *)
(* too.  A null counts as an absent field.                                 *)
(***************************************************************************)
EXTENDS Naturals, FiniteSets, Functions, TLC

CONSTANTS MaxEdits,   \* changes another author makes to a draft
          NoRow       \* nothing drafted, parsed or run

ManifestAssumption == MaxEdits \in Nat

VARIABLES said,       \* what the tool answered
          row,        \* the proposal: what it was drafted as, its artifact and its blast radius
          edits,      \* how often the artifact was edited since
          manifest,   \* what the executor made of it
          ran         \* where it was run and what came of it

manifestVars == <<said, row, edits, manifest, ran>>

Shapes == {"guest", "workload", "argocd", "dns", "node", "talos", "k8s"}

KindsOf(shape) ==
    CASE shape = "guest"    -> {"power", "migrate", "cpu-type", "resize"}
      [] shape = "workload" -> {"workload-restart", "workload-scale"}
      [] shape = "argocd"   -> {"argocd-sync"}
      [] shape = "dns"      -> {"dns-record"}
      [] shape = "node"     -> {"node-update"}
      [] shape = "talos"    -> {"talos-upgrade"}
      [] shape = "k8s"      -> {"k8s-upgrade"}

Kinds == UNION {KindsOf(shape) : shape \in Shapes}

Required(shape) ==
    CASE shape = "guest"    -> {"node", "vmid", "vm_kind"}
      [] shape = "workload" -> {"namespace", "kind", "name"}
      [] shape = "argocd"   -> {"application"}
      [] shape = "dns"      -> {"hostname", "value"}
      [] shape = "node"     -> {"node"}
      [] shape = "talos"    -> {"node", "version"}
      [] shape = "k8s"      -> {"control_plane", "version"}

Optional(shape) ==
    CASE shape = "guest"    -> {"target_node", "online", "cpu_type", "cores", "memory_mib"}
      [] shape = "workload" -> {"replicas"}
      [] shape = "argocd"   -> {"revision", "prune"}
      [] shape = "dns"      -> {"record_type", "ttl", "controller"}
      [] OTHER              -> {}

Fields == UNION {Required(shape) \cup Optional(shape) : shape \in Shapes} \cup {"junk"}

(* A version is a tag (v1.14.2) or a number (1.37.2); "low" memory is      *)
(* enough for a container and not for a virtual machine; a guest may be    *)
(* sent to the node it is on.                                              *)
ValuesOf(field) ==
    CASE field = "vm_kind"     -> {"qemu", "lxc"}
      [] field = "version"     -> {"tag", "number"}
      [] field = "memory_mib"  -> {"ok", "low"}
      [] field = "target_node" -> {"ok", "same"}
      [] OTHER                 -> {"ok"}

Taken(shape, field) ==
    CASE shape = "talos" /\ field = "version" -> {"tag"}
      [] shape = "k8s" /\ field = "version"   -> {"number"}
      [] OTHER                                -> ValuesOf(field)

Domains == {"hypervisor", "containers", "dns", "host-os"}

DomainOf(shape, target) ==
    CASE shape = "guest" -> IF target["vm_kind"] = "lxc" THEN "containers" ELSE "hypervisor"
      [] shape \in {"workload", "argocd", "k8s"} -> "containers"
      [] shape = "dns" -> "dns"
      [] shape \in {"node", "talos"} -> "host-os"

Has(target, field) == field \in DOMAIN target
Only(target, fields) == Restrict(target, fields \cap DOMAIN target)
Is(target, field, values) == Has(target, field) /\ target[field] \in values
-----------------------------------------------------------------------------
(* The schema.  Its union takes the one shape whose fields are all there   *)
(* and good, with no other.                                                *)
Conforms(shape, target) ==
    /\ Required(shape) \subseteq DOMAIN target
    /\ DOMAIN target \subseteq Required(shape) \cup Optional(shape)
    /\ \A f \in DOMAIN target : target[f] \in Taken(shape, f)

GuestFieldsFit(kind, target) ==
    /\ kind = "migrate" => Is(target, "target_node", {"ok"})
    /\ kind = "cpu-type" => target["vm_kind"] = "qemu" /\ Has(target, "cpu_type")
    /\ (kind = "resize") <=> (Has(target, "cores") \/ Has(target, "memory_mib"))
    /\ Is(target, "memory_mib", {"low"}) => target["vm_kind"] = "lxc"

TargetFits(shape, artifact) ==
    /\ artifact.domain = DomainOf(shape, artifact.target)
    /\ artifact.kind \in KindsOf(shape)
    /\ shape = "guest" => GuestFieldsFit(artifact.kind, artifact.target)
    /\ artifact.kind = "workload-scale" => Has(artifact.target, "replicas")

SchemaTakes(shape, artifact) == Conforms(shape, artifact.target) /\ TargetFits(shape, artifact)
-----------------------------------------------------------------------------
(* The parser.  The target's own fields say which of its readers reads it. *)
ShapeOf(target) ==
    IF Has(target, "control_plane") THEN "k8s"
    ELSE IF Has(target, "node") /\ Has(target, "version") THEN "talos"
    ELSE IF Has(target, "vmid") THEN "guest"
    ELSE IF Has(target, "node") THEN "node"
    ELSE IF Has(target, "application") THEN "argocd"
    ELSE IF Has(target, "hostname") /\ Has(target, "value") THEN "dns"
    ELSE "workload"

(* A parser that takes the domain the artifact declares.                   *)
ReadAnyDomain(shape, artifact) ==
    /\ artifact.kind \in KindsOf(shape)
    /\ \A f \in Required(shape) : Is(artifact.target, f, Taken(shape, f))

(* What every reader checks: the kind, the fields, the domain.             *)
Read(shape, artifact) ==
    /\ artifact.kind \in KindsOf(shape)
    /\ \A f \in Required(shape) : Is(artifact.target, f, Taken(shape, f))
    /\ artifact.domain = DomainOf(shape, artifact.target)

NodeParses(artifact)  == Read("node", artifact) /\ DOMAIN artifact.target = Required("node")
TalosParses(artifact) == Read("talos", artifact) /\ DOMAIN artifact.target = Required("talos")

K8sParses(artifact, blast) ==
    Read("k8s", artifact) /\ DOMAIN artifact.target = Required("k8s") /\ blast = "cluster"

ArgocdParses(artifact) == Read("argocd", artifact)

DnsParses(artifact) ==
    /\ Read("dns", artifact)
    /\ \A f \in {"record_type", "ttl"} : Has(artifact.target, f) => artifact.target[f] = "ok"

ResizeFits(kind, target) ==
    LET sized == {"cores", "memory_mib"} \cap DOMAIN target
    IN  IF kind # "resize" THEN sized = {}
        ELSE /\ sized # {}
             /\ \A f \in sized : target[f] = "ok" \/ (target[f] = "low" /\ target["vm_kind"] = "lxc")

GuestParses(artifact) ==
    LET target == artifact.target
    IN  /\ Read("guest", artifact)
        /\ artifact.kind = "migrate" => Is(target, "target_node", {"ok"})
        /\ artifact.kind = "cpu-type" => target["vm_kind"] = "qemu" /\ Is(target, "cpu_type", {"ok"})
        /\ ResizeFits(artifact.kind, target)

WorkloadParses(artifact) ==
    /\ Read("workload", artifact)
    /\ artifact.kind = "workload-scale" => Is(artifact.target, "replicas", {"ok"})

Parses(artifact, blast) ==
    LET shape == ShapeOf(artifact.target)
    IN  CASE shape = "guest"    -> GuestParses(artifact)
          [] shape = "workload" -> WorkloadParses(artifact)
          [] shape = "argocd"   -> ArgocdParses(artifact)
          [] shape = "dns"      -> DnsParses(artifact)
          [] shape = "node"     -> NodeParses(artifact)
          [] shape = "talos"    -> TalosParses(artifact)
          [] shape = "k8s"      -> K8sParses(artifact, blast)

(* The fields of the manifest it makes: what the kind of action uses, and  *)
(* optional ones that are as they should be.  A version becomes the Talos  *)
(* or the Kubernetes version, by the reader that read it.                  *)
Used(shape, kind) ==
    CASE shape = "guest" -> Required("guest") \cup {"online"}
                            \cup (CASE kind = "migrate"  -> {"target_node"}
                                    [] kind = "cpu-type" -> {"cpu_type"}
                                    [] kind = "resize"   -> {"cores", "memory_mib"}
                                    [] OTHER             -> {})
      [] kind = "workload-restart" -> Required("workload")
      [] shape = "talos" -> {"node", "talos_version"}
      [] shape = "k8s"   -> {"control_plane", "k8s_version"}
      [] OTHER -> Required(shape) \cup Optional(shape)

AttributesOf(shape, artifact) ==
    LET good == {f \in DOMAIN artifact.target : artifact.target[f] # "bad" \/ f = "online"}
        versions == CASE shape = "talos" -> {"talos_version"} [] shape = "k8s" -> {"k8s_version"}
                      [] OTHER -> {}
    IN  Used(shape, artifact.kind) \cap (good \cup versions)

ManifestOf(artifact, blast) ==
    [kind |-> artifact.kind, domain |-> artifact.domain, blast |-> blast, hosts |-> artifact.hosts,
     attributes |-> AttributesOf(ShapeOf(artifact.target), artifact)]
-----------------------------------------------------------------------------
(* The drafts.  "args" are the arguments given, by field.                  *)
ArtifactOf(shape, kind, target, hosts) ==
    [kind |-> kind, domain |-> DomainOf(shape, target), target |-> target, hosts |-> hosts]

Narrow == "single-host"
Blasts == {Narrow, "cluster"}

(* The tools' shared end: the schema refuses, or the row is written and    *)
(* parsed back before the commit.                                          *)
Persist(shape, artifact, blast) ==
    /\ IF ~SchemaTakes(shape, artifact)    THEN said' = "error" /\ UNCHANGED row
       ELSE IF ~Parses(artifact, blast)    THEN said' = "raised" /\ UNCHANGED row
       ELSE said' = "drafted" /\ row' = [shape |-> shape, artifact |-> artifact, blast |-> blast]
    /\ UNCHANGED <<edits, manifest, ran>>

Picks == [vm_kind : ValuesOf("vm_kind"), version : ValuesOf("version"),
          memory_mib : ValuesOf("memory_mib"), target_node : ValuesOf("target_node")]

Given(shape) ==
    {[f \in Required(shape) \cup optional |-> IF f \in DOMAIN pick THEN pick[f] ELSE "ok"] :
        optional \in SUBSET Optional(shape), pick \in Picks}

BuildGuest(kind, args, hosts) ==
    LET used   == Only(args, Used("guest", kind) \ {"online"})
        target == IF kind = "migrate" THEN used @@ [online |-> "ok"] ELSE used
        named  == IF hosts = {} THEN {"node"} ELSE hosts
    IN  ArtifactOf("guest", kind, target,
                   named \cup (IF kind = "migrate" /\ Is(target, "target_node", {"ok"})
                               THEN {"destination"} ELSE {}))

ProposeAction ==
    \E kind \in Kinds, args \in Given("guest"), hosts \in {{}, {"elsewhere"}}, blast \in Blasts :
        Persist("guest", BuildGuest(kind, args, hosts), blast)

BuildWorkload(kind, args) ==
    ArtifactOf("workload", kind,
               Only(args, Required("workload") \cup (IF kind = "workload-scale" THEN {"replicas"} ELSE {})),
               {})

ProposeWorkloadAction ==
    \E kind \in Kinds, args \in Given("workload"), blast \in Blasts :
        Persist("workload", BuildWorkload(kind, args), blast)

BuildArgocd(args) == ArtifactOf("argocd", "argocd-sync", args @@ [prune |-> "ok"], {})

ProposeArgocdSync ==
    \E args \in Given("argocd"), blast \in Blasts : Persist("argocd", BuildArgocd(args), blast)

BuildDns(args) == ArtifactOf("dns", "dns-record", args @@ [record_type |-> "ok", ttl |-> "ok"], {})

ProposeDnsRecord ==
    \E args \in Given("dns"), blast \in Blasts : Persist("dns", BuildDns(args), blast)

BuildNode(args) == ArtifactOf("node", "node-update", args, {"node"})
DraftNodeStep   == \E args \in Given("node") : Persist("node", BuildNode(args), Narrow)

BuildTalos(args)    == ArtifactOf("talos", "talos-upgrade", args, {"node"})
ProposeTalosUpgrade == \E args \in Given("talos") : Persist("talos", BuildTalos(args), Narrow)

BuildK8s(args)    == ArtifactOf("k8s", "k8s-upgrade", args, {"node"})
ProposeK8sUpgrade == \E args \in Given("k8s") : Persist("k8s", BuildK8s(args), "cluster")
-----------------------------------------------------------------------------
(* Another author's row: a draft with another kind, domain or blast        *)
(* radius, or with a field more, less or other.                            *)
Edited(artifact) ==
    {[artifact EXCEPT !.kind = kind] : kind \in Kinds}
    \cup {[artifact EXCEPT !.domain = domain] : domain \in Domains}
    \cup {[artifact EXCEPT !.target = Only(@, Fields \ {field})] : field \in DOMAIN artifact.target}
    \cup UNION {{[artifact EXCEPT !.target = (field :> value) @@ @] :
                    value \in ValuesOf(field) \cup {"bad"}} : field \in Fields}

Rewrite ==
    /\ row # NoRow /\ manifest = NoRow /\ edits < MaxEdits
    /\ \/ \E artifact \in Edited(row.artifact) \ {row.artifact} : row' = [row EXCEPT !.artifact = artifact]
       \/ \E blast \in Blasts \ {row.blast} : row' = [row EXCEPT !.blast = blast]
    /\ edits' = edits + 1
    /\ UNCHANGED <<said, manifest, ran>>

(* execute_proposal() starts here; a refusal leaves the row pending.       *)
ParseManifest ==
    /\ row # NoRow /\ manifest = NoRow
    /\ manifest' = IF Parses(row.artifact, row.blast) THEN ManifestOf(row.artifact, row.blast)
                   ELSE [refused |-> TRUE]
    /\ UNCHANGED <<said, row, edits, ran>>

Parsed == manifest # NoRow /\ manifest # [refused |-> TRUE]
-----------------------------------------------------------------------------
(* The dispatch goes by what the manifest names.                           *)
UsesTalosctl == manifest.attributes \cap {"talos_version", "k8s_version"} # {}
IsNode == "node" \in manifest.attributes /\ "vmid" \notin manifest.attributes
          /\ "talos_version" \notin manifest.attributes

Handler ==
    IF UsesTalosctl THEN IF "k8s_version" \in manifest.attributes THEN "k8s" ELSE "talos"
    ELSE IF "application" \in manifest.attributes THEN "argocd"
    ELSE IF "hostname" \in manifest.attributes THEN "dns"
    ELSE IF "name" \in manifest.attributes THEN "workload"
    ELSE IF IsNode THEN "node"
    ELSE "guest"

Configurable == {"proxmox", "kubectl", "argocd", "unifi"}

(* The adapters of `helper exec run`: what is configured, and Proxmox.     *)
CliAdapters(configured) ==
    configured \cup (IF IsNode THEN {"ssh"} ELSE {}) \cup (IF UsesTalosctl THEN {"talos"} ELSE {})

(* Those of the MCP trigger, which stops where Argo CD or the controller   *)
(* that the manifest needs is not configured.                              *)
McpResolves(configured) ==
    Handler \in {"argocd", "dns"} => (IF Handler = "dns" THEN "unifi" ELSE "argocd") \in configured

(* The listener takes five adapters of the six.                            *)
AdaptersFor(surface, configured) ==
    CliAdapters(configured) \ (IF surface = "listener" THEN {"talos"} ELSE {})

Needed == CASE Handler = "workload" -> "kubectl"
            [] Handler = "argocd"   -> "argocd"
            [] Handler = "dns"      -> "unifi"
            [] Handler = "node"     -> "ssh"
            [] Handler \in {"talos", "k8s"} -> "talos"
            [] OTHER                -> "proxmox"

(* A missing login refuses, before the target; a missing adapter fails.    *)
Dispatch(surface, configured) ==
    IF Needed \in AdaptersFor(surface, configured) THEN "sent"
    ELSE IF Handler \in {"node", "talos", "k8s"} THEN "refused" ELSE "failed"

RunManifest ==
    /\ Parsed /\ ran = NoRow
    /\ \E surface \in {"cli", "mcp", "listener"}, configured \in SUBSET Configurable :
          /\ "proxmox" \in configured
          /\ surface # "cli" => McpResolves(configured)
          /\ ran' = [surface |-> surface, outcome |-> Dispatch(surface, configured)]
    /\ UNCHANGED <<said, row, edits, manifest>>
-----------------------------------------------------------------------------
ManifestInit == said = "nothing" /\ row = NoRow /\ edits = 0 /\ manifest = NoRow /\ ran = NoRow

Propose ==
    /\ row = NoRow /\ said = "nothing"
    /\ \/ ProposeAction \/ ProposeWorkloadAction \/ ProposeArgocdSync \/ ProposeDnsRecord
       \/ DraftNodeStep \/ ProposeTalosUpgrade \/ ProposeK8sUpgrade

ManifestNext == Propose \/ Rewrite \/ ParseManifest \/ RunManifest

ManifestSpec == ManifestInit /\ [][ManifestNext]_manifestVars
-----------------------------------------------------------------------------
ManifestTypeOK ==
    /\ said \in {"nothing", "error", "raised", "drafted"} /\ edits \in 0..MaxEdits
    /\ row # NoRow => row.shape \in Shapes /\ row.artifact.kind \in Kinds
                      /\ DOMAIN row.artifact.target \subseteq Fields
    /\ ran # NoRow => Parsed

(* What a tool drafts, the executor parses, dispatches as what the tool    *)
(* was for, and gates in the cell the tool showed; and a migration counts  *)
(* the ceiling of the node it goes to.                                     *)
DraftsRun ==
    /\ said # "raised"
    /\ row # NoRow /\ edits = 0 /\ manifest # NoRow =>
         /\ Parsed /\ Handler = row.shape
         /\ manifest.domain = DomainOf(row.shape, row.artifact.target)
         /\ manifest.kind = "migrate" => "destination" \in manifest.hosts

(* The parser takes whatever the schema takes, and as the same thing, but  *)
(* for the cluster's upgrade claimed as less.                              *)
SchemaImpliesParser ==
    row # NoRow /\ manifest # NoRow =>
        \A shape \in Shapes :
            SchemaTakes(shape, row.artifact) /\ (shape = "k8s" => row.blast = "cluster") =>
                Parsed /\ Handler = shape

(* However an artifact was written, what is dispatched is gated in the     *)
(* domain of what is touched, under a kind of action of that, and with     *)
(* everything its dispatch needs and nothing of another action's.          *)
GatedAsDispatched ==
    Parsed =>
        LET target == row.artifact.target
        IN  /\ manifest.domain = DomainOf(Handler, target)
            /\ manifest.kind \in KindsOf(Handler)
            /\ Handler = "k8s" => manifest.blast = "cluster"
            /\ Required(Handler) \ {"version"} \subseteq manifest.attributes
            /\ manifest.kind = "migrate" <=> "target_node" \in manifest.attributes
            /\ manifest.kind = "cpu-type" <=> "cpu_type" \in manifest.attributes
            /\ manifest.kind = "workload-scale" <=> "replicas" \in manifest.attributes
            /\ manifest.kind = "resize" <=> manifest.attributes \cap {"cores", "memory_mib"} # {}

(* What the MCP trigger resolves is dispatched; but kubectl it does not    *)
(* ask for.                                                                *)
ResolvedIsSent ==
    ran # NoRow /\ ran.surface = "mcp" /\ Handler # "workload" => ran.outcome = "sent"

(* The listener's resolver says it is the same; but an approved Talos or   *)
(* Kubernetes upgrade is refused there, and having been answered it is not *)
(* asked again.  Does not hold.                                            *)
ListenerResolvesTheSame ==
    ran # NoRow /\ ran.surface = "listener" /\ Handler # "workload" => ran.outcome = "sent"

ManifestsAgree == DraftsRun /\ SchemaImpliesParser /\ GatedAsDispatched /\ ResolvedIsSent
=============================================================================
