----------------------------- MODULE Resolution -----------------------------
(***************************************************************************)
(* How names resolve: the Service and ServiceEndpoint rows, which several  *)
(* sources write and none owns (engine/dns_reconcile.py,                   *)
(* service_aliases.py, hass_import.py, jetkvm.py and retire.py).           *)
(*                                                                         *)
(* Each resolver owns a slice of the endpoints; a service belongs to all   *)
(* slices that mention it, and goes with its last endpoint.  The alias     *)
(* file says which names are one service; an edit of it takes effect slice *)
(* by slice, as each is next read.  A pass is one transaction; one that    *)
(* fails, a dry run and one that cannot read the alias file change nothing.*)
(***************************************************************************)
EXTENDS Naturals, Sequences, FiniteSets, SequencesExt

CONSTANTS Controllers,      \* the UniFi controllers, in order
          Router, Public,   \* the MikroTik router; the Cloudflare zone, the only external one
          Hub, Kvm,         \* devices: each is a service, and a resolver of its own
          Names, Label,     \* hostnames; their leftmost labels
          Urls,             \* the names a device may be at
          Addresses, NoAddress,
          Zones,            \* what a source may hold: sequences of records
          AliasFiles, Malformed, \* what the alias file may say
          Never,            \* a slice that was not read, or was retired
          MaxChanges        \* bound: changes of zones and of the alias file

VARIABLES zone,       \* per source, its records
          aliases,    \* the alias file
          endpoints,  \* the ServiceEndpoint rows
          services,   \* the Service rows: "none", "bare", or with what a device said of itself
          changes,
          synced      \* history: per source, what its last pass should have left

vars == <<zone, aliases, endpoints, services, changes, synced>>

Devices   == {Hub, Kvm}
Sources   == ToSet(Controllers) \cup {Router, Public}
Resolvers == Sources \cup Devices

(* "usable" is an enabled A or AAAA record with a value.                   *)
Records  == [host : Names, ip : Addresses, usable : BOOLEAN]
Aliased  == UNION {{f.exact[h] : h \in DOMAIN f.exact} \cup {p.service : p \in ToSet(f.patterns)} : f \in AliasFiles}
Services == {Label[h] : h \in Names} \cup Devices \cup Aliased

ResolutionAssumption ==
    /\ \A z \in Zones : ToSet(z) \subseteq Records
    /\ Controllers \in Seq(Sources) /\ Devices \cap Sources = {} /\ Urls \subseteq Names /\ Malformed \notin AliasFiles
-----------------------------------------------------------------------------
(* The first usable record of a name counts.                               *)
AddressRecords(z) ==
    LET usable == SelectSeq(z, LAMBDA r : r.usable)
    IN [h \in {r.host : r \in ToSet(usable)} |->
          Head(SelectSeq(usable, LAMBDA r : r.host = h)).ip]

(* An exact name before a pattern, the first pattern before the others,    *)
(* and the label for a name that the file does not list.                   *)
ServiceKey(h) ==
    LET hits == SelectSeq(aliases.patterns, LAMBDA p : h \in p.hosts)
    IN IF h \in DOMAIN aliases.exact THEN aliases.exact[h]
       ELSE IF hits # <<>> THEN Head(hits).service ELSE Label[h]

Wanted(r) ==
    LET records == AddressRecords(zone[r])
    IN {[service |-> ServiceKey(h), resolver |-> r, host |-> h, ip |-> records[h]] : h \in DOMAIN records}

Slice(r, rows) == {e \in rows : e.resolver = r}

(* The services that an endpoint left behind go, if they have none; the    *)
(* row takes its endpoints with it.                                        *)
Reaped(db, left) ==
    LET empty == {s \in left : ~\E e \in db.endpoints : e.service = s}
    IN [endpoints |-> {e \in db.endpoints : e.service \notin empty},
        services  |-> [s \in Services |-> IF s \in empty THEN "none" ELSE db.services[s]]]

(* The rows that the source no longer has are removed, those that the file *)
(* names otherwise are moved, whatever facts a service has.                *)
Reconciled(db, r) ==
    LET wanted == Wanted(r)
        old    == Slice(r, db.endpoints)
        named  == {e.service : e \in wanted}
        left   == {e.service : e \in {o \in old : ~\E w \in wanted : w.host = o.host /\ w.service = o.service}}
    IN Reaped([endpoints |-> (db.endpoints \ old) \cup wanted,
               services  |-> [s \in Services |-> IF s \in named /\ db.services[s] = "none" THEN "bare"
                                                 ELSE db.services[s]]],
              left)

Rows == [endpoints |-> endpoints, services |-> services]

Commit(db, rs) ==
    /\ endpoints' = db.endpoints /\ services' = db.services
    /\ synced' = [r \in Sources |-> IF r \in rs THEN Wanted(r) ELSE synced[r]]
    /\ UNCHANGED <<zone, aliases, changes>>

(* Source by source, of those that answer, in one transaction.             *)
ReconciledAll(list, up) ==
    LET after[i \in 0 .. Len(list)] ==
            IF i = 0 THEN Rows
            ELSE IF list[i] \in up THEN Reconciled(after[i - 1], list[i]) ELSE after[i - 1]
    IN  after[Len(list)]

Sync(list, up) == aliases # Malformed /\ Commit(ReconciledAll(list, up), ToSet(list) \cap up)
-----------------------------------------------------------------------------
(* The command needs an answer of one controller, and reads them all       *)
(* before it writes; the tool leaves out those that fail.                  *)
CliUnifi == \E up \in SUBSET ToSet(Controllers) : up # {} /\ Sync(Controllers, up)
McpUnifi == \E up \in SUBSET ToSet(Controllers) : Sync(Controllers, up)

CliMikrotik == Sync(<<Router>>, {Router})
McpMikrotik == Sync(<<Router>>, {Router})

CliCloudflare == Sync(<<Public>>, {Public})
McpCloudflare == Sync(<<Public>>, {Public})

(* A device is a service of its own name, with one endpoint, changed in    *)
(* place when its URL does.                                                *)
Import(d) ==
    \E h \in Urls :
       LET own == [service |-> d, resolver |-> d, host |-> h, ip |-> NoAddress]
       IN Commit([endpoints |-> (endpoints \ Slice(d, endpoints)) \cup {own},
                  services  |-> [services EXCEPT ![d] = "known"]], {})

ImportHass == Import(Hub)
ImportKvm  == Import(Kvm)

(* By `helper service retire-resolver`: a slice and what it leaves empty.  *)
Retire ==
    \E r \in Resolvers :
       /\ LET slice == Slice(r, endpoints)
              db == Reaped([endpoints |-> endpoints \ slice, services |-> services],
                           {e.service : e \in slice})
          IN endpoints' = db.endpoints /\ services' = db.services
       /\ synced' = [q \in Sources |-> IF q = r THEN Never ELSE synced[q]]
       /\ UNCHANGED <<zone, aliases, changes>>

Change ==
    /\ changes < MaxChanges /\ changes' = changes + 1
    /\ \/ \E r \in Sources, z \in Zones : zone' = [zone EXCEPT ![r] = z] /\ UNCHANGED aliases
       \/ \E file \in AliasFiles \cup {Malformed} : aliases' = file /\ UNCHANGED zone
    /\ UNCHANGED <<endpoints, services, synced>>

Init ==
    /\ \E z \in Zones : zone = [r \in Sources |-> z]
    /\ aliases \in AliasFiles
    /\ endpoints = {} /\ services = [s \in Services |-> "none"]
    /\ changes = 0 /\ synced = [r \in Sources |-> Never]

Next ==
    \/ CliUnifi \/ McpUnifi \/ CliMikrotik \/ McpMikrotik \/ CliCloudflare \/ McpCloudflare
    \/ ImportHass \/ ImportKvm
    \/ Retire \/ Change

Spec == Init /\ [][Next]_vars
-----------------------------------------------------------------------------
TypeOK ==
    /\ zone \in [Sources -> Zones] /\ aliases \in AliasFiles \cup {Malformed}
    /\ endpoints \subseteq [service : Services, resolver : Resolvers, host : Names,
                            ip : Addresses \cup {NoAddress}]
    /\ services \in [Services -> {"none", "bare", "known"}]

(* What a source's last pass left is there until its next one or until it  *)
(* is retired, whatever other resolvers, aliases and devices do meanwhile; *)
(* a service is there just as long as an endpoint of it; and what a device *)
(* said of itself stays while its own endpoint does.                       *)
SlicesFollowSources ==
    /\ \A r \in Sources : synced[r] # Never => Slice(r, endpoints) = synced[r]
    /\ \A s \in Services : services[s] # "none" <=> \E e \in endpoints : e.service = s
    /\ \A d \in Devices : Slice(d, endpoints) # {} => services[d] = "known"

(* get_service() looks a hostname up as a service's name first, and then   *)
(* as that of one endpoint, of whichever resolver.                         *)
Matches(h) == {e \in endpoints : e.host = h}
GetService(h) ==
    IF h \in Services /\ services[h] # "none" THEN "found"
    ELSE CASE Matches(h) = {} -> "no service" [] Cardinality(Matches(h)) = 1 -> "found"
           [] OTHER -> "raises"

(* Doc (docs/roadmap.md:184): querying any service produces both its       *)
(* internal and its external rows.  By a hostname that both sides resolve, *)
(* or two controllers, the lookup raises.  Does not hold.                  *)
LookupsAnswer == \A h \in Names : GetService(h) # "raises"
=============================================================================
