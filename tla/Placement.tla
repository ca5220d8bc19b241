----------------------------- MODULE Placement -----------------------------
(***************************************************************************)
(* Where one workload should run: engine/placement.py over the topology of *)
(* engine/network_path.py.  A behaviour is the making of one report: the   *)
(* hosts are judged one by one, then the route from each candidate to the  *)
(* host that holds the data, then the candidates are ranked.               *)
(*                                                                         *)
(* Memory is in GB, disks in TiB, and scores are in half points.  Of the   *)
(* reasons a rejection keeps only the kind; reasons and caveats of the     *)
(* candidates, which nothing reads back, are left out, as are bandwidths.  *)
(* Routes of equal latency, which the code orders as the file does, go     *)
(* either way.                                                             *)
(***************************************************************************)
EXTENDS Integers, FiniteSets, SequencesExt

CONSTANTS HostOrder,   \* the hosts, by name
          Fleets,      \* what the hosts may have
          Profiles,    \* the library's workloads
          Topologies,  \* the operator's files, and None for no file
          None         \* a fact not observed, a host in no site, no host

VARIABLES ask,      \* the workload, the hosts and the topology of the report
          stage,    \* "judging", "routing", "ranking" or "done"
          next,     \* the host whose turn it is
          score,    \* the candidates' scores
          rejected, \* the rejections, in order
          search,   \* the path search of the candidate: its heap and what it has seen
          route,    \* the routes found
          ranking   \* the answer, best first

vars == <<ask, stage, next, score, rejected, search, route, ranking>>

Hosts == ToSet(HostOrder)
LanLatency == 5    \* _LAN_GRADE_MAX_LATENCY_MS
Bulk == 2          \* _BULK_STORAGE_BYTES
Reserve == 1       \* _RAM_RESERVE_MB

(* What the two loaders accept.                                            *)
ProfileAccepted(p) ==
    /\ p.gpu \in {"none", "optional", "required"}
    /\ p.network \in {"any", "lan-preferred", "lan-required"}
    /\ p.cores > 0 /\ p.ram > 0 /\ p.arch # {} /\ p.gravity \in BOOLEAN
TopologyAccepted(t) ==
    \/ t = None
    \/ /\ t.site \in [Hosts -> t.sites \cup {None}]
       /\ \A l \in t.links : l.a \in t.sites /\ l.b \in t.sites /\ l.latency \in Nat

PlacementAssumption ==
    /\ \A p \in Profiles : ProfileAccepted(p)
    /\ \A t \in Topologies : TopologyAccepted(t)
    /\ \A f \in Fleets : DOMAIN f = Hosts

Least(a, b) == IF a < b THEN a ELSE b
Host(h) == ask.fleet[h]
Wanted == ask.profile
Site(h) == ask.topology.site[h]
-----------------------------------------------------------------------------
HasGpu(h) == Host(h).gpu # None /\ Host(h).gpu > 0
HasBulk(h) == Host(h).disk # None /\ Host(h).disk >= Bulk

HardRejection(h) ==
    \/ Host(h).arch # "other" /\ Host(h).arch \notin Wanted.arch
    \/ Host(h).mem # None /\ Host(h).mem - Reserve < Wanted.ram
    \/ Wanted.gpu = "required" /\ ~HasGpu(h)

Points(h) ==
    LET given(condition, points) == IF condition THEN points ELSE 0
        ram == IF Host(h).mem = None THEN 0 ELSE Least(Host(h).mem - Reserve - Wanted.ram, 32)
        spare == IF Host(h).threads = None \/ Host(h).threads < Wanted.cores THEN 0
                 ELSE Least(Host(h).threads - Wanted.cores, 16)
    IN 2 * ram + spare + given(Wanted.gpu = "optional" /\ HasGpu(h), 16)
       + given(Wanted.gravity /\ HasBulk(h), 12) - Least(Host(h).guests, 10)

(* The host that most plausibly holds the data: the largest disk, and of   *)
(* several the first by name.                                              *)
Carriers == {h \in Hosts : Wanted.gravity /\ HasBulk(h)}
GravityAnchor ==
    IF Carriers = {} THEN None
    ELSE LET largest == {h \in Carriers : \A k \in Carriers : Host(k).disk <= Host(h).disk}
         IN SelectSeq(HostOrder, LAMBDA h : h \in largest)[1]

Directed == UNION {{l, [l EXCEPT !.a = l.b, !.b = l.a]} : l \in ask.topology.links}
Latency(trail) == FoldSeq(LAMBDA l, sum : l.latency + sum, 0, trail)
LanGrade(trail) ==
    /\ \A i \in DOMAIN trail : trail[i].wired /\ trail[i].steady
    /\ Latency(trail) <= LanLatency

Near(h, k) == Site(h) = None \/ Site(k) = None \/ Site(h) = Site(k)

NetworkVerdict(trail) ==
    IF LanGrade(trail) THEN "ok"
    ELSE IF Wanted.network = "lan-required" THEN "refuse"
    ELSE IF Wanted.network = "lan-preferred" \/ Wanted.gravity THEN "warn"
    ELSE "ok"
-----------------------------------------------------------------------------
Idle == [heap |-> {}, seen |-> {}, on |-> FALSE]
Nowhere == [h \in {} |-> None]

Init ==
    /\ ask \in [profile : Profiles, fleet : Fleets, topology : Topologies]
    /\ stage = "judging" /\ next = 1 /\ search = Idle
    /\ score = Nowhere /\ rejected = <<>> /\ route = Nowhere /\ ranking = <<>>

(* The next host, or the next stage after the last one.                    *)
Forward(after) ==
    IF next < Len(HostOrder) THEN next' = next + 1 /\ stage' = stage
    ELSE next' = 1 /\ stage' = after
AfterJudging == IF ask.topology = None THEN "ranking" ELSE "routing"

Refuse(h, why) == rejected' = Append(rejected, [host |-> h, why |-> why])

Judge ==
    /\ stage = "judging"
    /\ LET h == HostOrder[next] IN
         \/ /\ ~Host(h).open
            /\ Refuse(h, "intent") /\ UNCHANGED score
         \/ /\ Host(h).open /\ HardRejection(h)
            /\ Refuse(h, "unfit") /\ UNCHANGED score
         \/ /\ Host(h).open /\ ~HardRejection(h)
            /\ score' = (h :> Points(h)) @@ score
            /\ UNCHANGED rejected
    /\ Forward(AfterJudging)
    /\ UNCHANGED <<ask, search, route, ranking>>

(* A candidate that is neither the anchor nor of its site.                 *)
NeedsRoute(h) ==
    h \in DOMAIN score /\ GravityAnchor \notin {None, h} /\ ~Near(h, GravityAnchor)

Keep ==
    /\ stage = "routing" /\ ~search.on
    /\ ~NeedsRoute(HostOrder[next])
    /\ Forward("ranking")
    /\ UNCHANGED <<ask, score, rejected, search, route, ranking>>

BeginSearch ==
    /\ stage = "routing" /\ ~search.on
    /\ NeedsRoute(HostOrder[next])
    /\ search' = [heap |-> {[site |-> Site(HostOrder[next]), trail |-> <<>>]}, seen |-> {}, on |-> TRUE]
    /\ UNCHANGED <<ask, stage, next, score, rejected, route, ranking>>

Nearest == {e \in search.heap : \A f \in search.heap : Latency(e.trail) <= Latency(f.trail)}

Pop ==
    /\ search.on
    /\ \E e \in Nearest :
         /\ ~(e.site = Site(GravityAnchor) /\ e.site \notin search.seen)
         /\ search' =
              [search EXCEPT
                 !.seen = @ \cup {e.site},
                 !.heap = (@ \ {e}) \cup
                    IF e.site \in search.seen THEN {}
                    ELSE {[site |-> l.b, trail |-> Append(e.trail, l)] :
                            l \in {k \in Directed : k.a = e.site /\ k.b \notin search.seen \cup {e.site}}}]
    /\ UNCHANGED <<ask, stage, next, score, rejected, route, ranking>>

Without(f, h) == [k \in DOMAIN f \ {h} |-> f[k]]

Arrive ==
    /\ search.on
    /\ \E e \in Nearest :
         /\ e.site = Site(GravityAnchor) /\ e.site \notin search.seen
         /\ LET h == HostOrder[next]
                verdict == NetworkVerdict(e.trail)
            IN /\ route' = (h :> e.trail) @@ route
               /\ \/ /\ verdict = "refuse"
                     /\ Refuse(h, "path") /\ score' = Without(score, h)
                  \/ /\ verdict = "warn"
                     /\ score' = [score EXCEPT ![h] = @ - 16] /\ UNCHANGED rejected
                  \/ /\ verdict = "ok"
                     /\ UNCHANGED <<score, rejected>>
    /\ search' = Idle
    /\ Forward("ranking")
    /\ UNCHANGED <<ask, ranking>>

NoRoute ==
    /\ search.on /\ search.heap = {}
    /\ LET h == HostOrder[next] IN Refuse(h, "no route") /\ score' = Without(score, h)
    /\ search' = Idle
    /\ Forward("ranking")
    /\ UNCHANGED <<ask, route, ranking>>

Before(h, k) ==
    \/ score[h] > score[k]
    \/ score[h] = score[k] /\ \E i, j \in DOMAIN HostOrder : i < j /\ HostOrder[i] = h /\ HostOrder[j] = k

Rank ==
    /\ stage = "ranking"
    /\ ranking' = SetToSortSeq(DOMAIN score, Before)
    /\ stage' = "done"
    /\ UNCHANGED <<ask, next, score, rejected, search, route>>

Next ==
    Judge \/ Keep \/ BeginSearch \/ Pop \/ Arrive \/ NoRoute \/ Rank

Spec == Init /\ [][Next]_vars
-----------------------------------------------------------------------------
TypeOK ==
    /\ stage \in {"judging", "routing", "ranking", "done"} /\ next \in DOMAIN HostOrder
    /\ DOMAIN score \subseteq Hosts /\ DOMAIN route \subseteq Hosts
    /\ \A h \in DOMAIN score : score[h] \in Int
    /\ \A i \in DOMAIN rejected :
         rejected[i].host \in Hosts /\ rejected[i].why \in {"intent", "unfit", "path", "no route"}
    /\ ToSet(ranking) \subseteq Hosts /\ search.on \in BOOLEAN

(* Every host is answered once, as a candidate or with one rejection.      *)
OneAnswerEach ==
    stage = "done" =>
        /\ Len(ranking) + Len(rejected) = Len(HostOrder)
        /\ ToSet(ranking) \cup {rejected[i].host : i \in DOMAIN rejected} = Hosts

(* The trails from one host's site to another's that enter no site twice.  *)
Trails(h, k) ==
    LET sites(t) == {Site(h)} \cup {t[i].b : i \in DOMAIN t}
        connected(t) ==
            /\ t[1].a = Site(h) /\ t[Len(t)].b = Site(k)
            /\ \A i \in 1 .. Len(t) - 1 : t[i].b = t[i + 1].a
            /\ Cardinality(sites(t)) = Len(t) + 1
    IN {t \in UNION {[1 .. n -> Directed] : n \in 1 .. Cardinality(ask.topology.sites) - 1} : connected(t)}

(* The search finds the quickest of all routes, and none only if there is  *)
(* none: a candidate is not turned away for a route it has.                *)
QuickestRoute ==
    stage = "done" =>
        /\ \A h \in DOMAIN route :
             /\ route[h] \in Trails(h, GravityAnchor)
             /\ \A t \in Trails(h, GravityAnchor) : Latency(route[h]) <= Latency(t)
        /\ \A i \in DOMAIN rejected :
             rejected[i].why = "no route" => Trails(rejected[i].host, GravityAnchor) = {}

(* A workload that replicates synchronously is offered no host whose way   *)
(* to the data is worse than a LAN.                                        *)
ReplicasStayClose ==
    stage = "done" /\ Wanted.network = "lan-required" /\ ask.topology # None /\ GravityAnchor # None =>
        \A h \in ToSet(ranking) \ {GravityAnchor} :
            Near(h, GravityAnchor) \/ \E t \in Trails(h, GravityAnchor) : LanGrade(t)

(* As much of everything, on the same site and no busier.                  *)
AsGood(h, k) ==
    /\ Host(h).arch = Host(k).arch /\ Host(h).open /\ Host(h).guests <= Host(k).guests
    /\ \A fact \in {"mem", "threads", "gpu", "disk"} :
         \/ Host(h)[fact] = Host(k)[fact]
         \/ None \notin {Host(h)[fact], Host(k)[fact]} /\ Host(h)[fact] > Host(k)[fact]
    /\ ask.topology # None => Site(h) = Site(k) /\ Site(h) # None

(* A host that is as good as a candidate in everything is a candidate, and *)
(* is ranked below it by name alone.                                       *)
BetterIsNeverWorse ==
    stage = "done" =>
        \A i \in DOMAIN ranking : \A h \in Hosts \ {ranking[i]} :
            AsGood(h, ranking[i]) =>
                \E j \in DOMAIN ranking :
                    ranking[j] = h /\ (j < i \/ score[h] = score[ranking[i]])

AdviceIsSound == OneAnswerEach /\ QuickestRoute /\ ReplicasStayClose /\ BetterIsNeverWorse

(* Not run, for it does not hold: engine/placement.py:14-16 has a missing  *)
(* fact become a caveat and never eliminate a host, and line 93 rejects a  *)
(* host whose GPUs were not observed.                                      *)
UnknownIsNotUnfit ==
    \A i \in DOMAIN rejected :
        rejected[i].why = "unfit" =>
            LET h == rejected[i].host
            IN \/ Host(h).arch \notin Wanted.arch
               \/ Host(h).mem # None /\ Host(h).mem - Reserve < Wanted.ram
               \/ Host(h).gpu # None

(* Not run, for it does not hold: the search minds latency alone, so a     *)
(* workload may be refused over a quick wireless link although a slower    *)
(* route is LAN-grade throughout.                                          *)
RefusedMeansNoLan ==
    \A i \in DOMAIN rejected :
        rejected[i].why = "path" => ~\E t \in Trails(rejected[i].host, GravityAnchor) : LanGrade(t)
=============================================================================
