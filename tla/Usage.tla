------------------------------- MODULE Usage -------------------------------
(***************************************************************************)
(* The usage history of one subject (engine/usage.py): what the discovery  *)
(* passes keep of a series that its source forgets.                        *)
(*                                                                         *)
(* Proxmox holds the last points of a node, a guest or a pool; each pass   *)
(* rolls up all it holds into buckets and writes them over the rows.  For  *)
(* a workload or a filesystem there is only the reading of the moment.     *)
(* Passes may be missed, and the subject may not be shown.                 *)
(*                                                                         *)
(* A row is the set of the points it was made from: its means and its peak *)
(* are theirs.                                                             *)
(***************************************************************************)
EXTENDS Naturals, FiniteSets, FiniteSetsExt

CONSTANTS PerBucket,    \* points of a bucket: two in an hour, four in a day
          Span,         \* points that the source holds
          Horizon,      \* the age, in points, at which a row is pruned
          Sizes,        \* what the subject may be allocated
          None,         \* no point: the guest was stopped
          MaxClock      \* bound: points

VARIABLES subject,      \* "series" of Proxmox, "workload" of Kubernetes, "filesystem" of the NAS
          clock,
          point,        \* the points so far, each the allocation at its time
          rows,         \* UsageSample: per bucket, the points of its row
          last,         \* history: when the subject was last written, or None
          pruned        \* history: when rows were last pruned

vars == <<subject, clock, point, rows, last, pruned>>

UsageAssumption ==
    /\ PerBucket \in Nat \ {0} /\ Span \in Nat /\ Span >= PerBucket /\ Horizon \in Nat
    /\ MaxClock \in Nat /\ None \notin Sizes \cup Nat

Bucket(t) == t \div PerBucket
Buckets   == 0..Bucket(MaxClock)
Start(b)  == b * PerBucket
Data      == {t \in 0..(clock - 1) : point[t] # None}
-----------------------------------------------------------------------------
(* rollup(): of what the source still holds; no bucket without a point.    *)
Held == {t \in Data : t + Span >= clock}

Rollup == [b \in {Bucket(t) : t \in Held} |-> {t \in Held : Bucket(t) = b}]

(* record_usage(): a bucket's row is made or written over.                 *)
Recorded(found) == [b \in Buckets |-> IF b \in DOMAIN found THEN found[b] ELSE rows[b]]

(* workload_bucket(): one reading is a bucket, and the last one counts.    *)
Reading == [b \in {Bucket(clock)} |-> {clock}]

(* prune_usage(): rows that begin before the horizon.                      *)
Pruned(rs) == [b \in Buckets |-> IF Start(b) + Horizon < clock THEN {} ELSE rs[b]]

(* _discover_usage(): the nodes online, the guests that are no templates,  *)
(* the pools available; then the workloads; then it prunes, seen or not.   *)
DiscoverUsage ==
    /\ \E shown \in BOOLEAN :
          /\ rows' = Pruned(CASE shown /\ subject = "series"   -> Recorded(Rollup)
                              [] shown /\ subject = "workload" -> Recorded(Reading)
                              [] OTHER -> rows)
          /\ last' = IF shown /\ subject # "filesystem" THEN clock ELSE last
    /\ pruned' = clock
    /\ UNCHANGED <<subject, clock, point>>

(* record_filesystem_samples(): by the NAS's own pass, which prunes not.   *)
DiscoverOmv ==
    /\ subject = "filesystem"
    /\ rows' = Recorded(Reading) /\ last' = clock
    /\ UNCHANGED <<subject, clock, point, pruned>>

Tick ==
    /\ clock < MaxClock /\ clock' = clock + 1
    /\ \E size \in IF subject = "series" THEN Sizes \cup {None} ELSE {None} :
          point' = [point EXCEPT ![clock] = size]
    /\ UNCHANGED <<subject, rows, last, pruned>>

Init ==
    /\ subject \in {"series", "workload", "filesystem"}
    /\ clock = 0 /\ point = [t \in 0..MaxClock |-> None]
    /\ rows = [b \in Buckets |-> {}] /\ last = None /\ pruned = 0

Next == DiscoverUsage \/ DiscoverOmv \/ Tick

Spec == Init /\ [][Next]_vars
-----------------------------------------------------------------------------
TypeOK ==
    /\ clock \in 0..MaxClock /\ point \in [0..MaxClock -> Sizes \cup {None}]
    /\ rows \in [Buckets -> SUBSET (0..MaxClock)]
    /\ last \in 0..clock \cup {None} /\ pruned \in 0..clock

(* However many passes were missed before it, the last one that saw the    *)
(* subject has left a row of every point of each bucket that the source    *)
(* still held whole; the reading of a moment is the row of its bucket; and *)
(* nothing older than the horizon outlives a prune.                        *)
HistoryKept ==
    /\ subject = "series" /\ last # None =>
         \A b \in Buckets :
            Start(b) + Span >= last /\ Start(b) + Horizon >= pruned =>
               rows[b] = {t \in Data : Bucket(t) = b /\ t < last}
    /\ subject # "series" /\ last # None /\ Start(Bucket(last)) + Horizon >= pruned =>
         rows[Bucket(last)] = {last}
    /\ \A b \in Buckets : rows[b] # {} => Start(b) + Horizon >= pruned

(* summarize(): the rows since the allocation last changed, by their means.*)
Mean(b)     == [sum |-> MapThenSumSet(LAMBDA t : point[t], rows[b]), of |-> Cardinality(rows[b])]
Same(b, c)  == Mean(b).sum * Mean(c).of = Mean(c).sum * Mean(b).of
InWindow(n) == {b \in Buckets : rows[b] # {} /\ Start(b) + n >= clock}
Summarized(n) ==
    {b \in InWindow(n) : \A c \in InWindow(n) : c >= b => Same(c, Max(InWindow(n)))}

(* Doc (engine/usage.py:316-318): a guest resized mid-window is judged by  *)
(* its current size, not by a history that mixes two.  A bucket in which   *)
(* it was resized has a mean of both, and two such may be equal.           *)
JudgedAtOneSize ==
    subject = "series" =>
        \A b, c \in Summarized(Horizon) : \A t \in rows[b], u \in rows[c] : point[t] = point[u]

(* The oldest bucket of which the source holds only a part is written over *)
(* with that part, and keeps it for good.  Does not hold.                  *)
WholeRowsStay ==
    [][subject = "series" => \A b \in Buckets : rows'[b] # {} => rows[b] \subseteq rows'[b]]_vars
=============================================================================
