----------------------------- MODULE Parts_proofs -----------------------------
(***************************************************************************)
(* Parts that keep to themselves, a section each: the probe schedule and   *)
(* its findings, the assertions and theirs, the usage history, the         *)
(* conversations with a model, the lineage of the hardware, what the       *)
(* discovery passes report, and how names resolve; for every number of     *)
(* targets, probes, hosts, passes, terminals, devices, sources and things  *)
(* looked at.  All but the first are instances, whose parameters are       *)
(* apart, so that one instance of this module may speak of several parts.  *)
(***************************************************************************)
EXTENDS Probing, SequenceTheorems, FiniteSetTheorems, WellFoundedInduction, TLAPS

CONSTANTS Asserted, Global, Library, Missing, MaxLoads, MaxReadings, MaxTriage,
          PerBucket, Span, Horizon, Sizes, LastHour, None,
          Sessions, Names, Addresses, Rosters, MaxTurns, MaxParse, MaxIds, MaxTalk,
          Hosts, NoHost, Devices, KindOf, WwnOf, Unread, Readings, MaxSlot, MaxMoves, MaxPasses,
          Ranked,
          Controllers, Router, Public, Hub, Kvm, Label, Urls, NoAddress, Zones, AliasFiles,
          Malformed, Unsynced, MaxChanges
VARIABLES row, reading, run, finding, used, verdict,
          subject, hour, point, stored, latest, pruned,
          roster, hosts, talk, raced,
          where, seen, parts, open, gaps, forged, moves, passes, held, rows, varied,
          key, status, last,
          zone, aliases, endpoints, services, changes, synced

Assertions == INSTANCE Assertions WITH Hosts <- Asserted
Usage      == INSTANCE Usage WITH clock <- hour, rows <- stored, last <- latest, MaxClock <- LastHour
Interview  == INSTANCE Interview
Lineage    == INSTANCE Lineage
Discovery  == INSTANCE Discovery
Resolution == INSTANCE Resolution WITH Never <- Unsynced
-----------------------------------------------------------------------------
(***************************************************************************)
(* The probe schedule.  The runs that are kept of a pair are few, and what *)
(* was counted of it is a history of all of them: the first step is that   *)
(* the one determines the other (CountsMatch), up to the threshold, where  *)
(* both stop.                                                              *)
(***************************************************************************)

Live == {"open", "acknowledged"}

(* The runs r that are kept begin with n failures and no more.             *)
Leads(r, n) ==
    /\ r \in Seq(BOOLEAN) /\ Len(r) <= FailingAfter /\ n \in 0 .. Len(r)
    /\ \A i \in 1 .. n : r[i] = FALSE
    /\ n < Len(r) => r[n + 1] = TRUE

(* The streak of x is the failures its kept runs begin with.               *)
CountsMatch(x) == Leads(history[x], streak[x]) /\ worst[x] \in streak[x] .. FailingAfter

(* What has not failed often enough has no finding; and what was judged    *)
(* and not touched since has the finding it should have.                   *)
FindingMatches(x) ==
    /\ failing[x] \in Live => worst[x] = FailingAfter
    /\ x \in settled => /\ streak[x] = FailingAfter => failing[x] \in Live
                        /\ streak[x] = 0 => failing[x] \notin Live

(* The inductive invariant.                                                *)
ProbingInv ==
    /\ clock \in 1 .. MaxClock /\ byHand \in 0 .. MaxByHand /\ settled \subseteq Pairs
    /\ history = [x \in Pairs |-> history[x]]
    /\ ran \in [Pairs -> 0 .. clock]
    /\ failing \in [Pairs -> {"none", "open", "acknowledged", "resolved"}]
    /\ streak \in [Pairs -> Nat] /\ worst \in [Pairs -> Nat]
    /\ \A x \in Pairs : CountsMatch(x) /\ FindingMatches(x)
-----------------------------------------------------------------------------
(* The newest run goes in front, and the oldest falls out at the limit.    *)
LEMMA RecordedAt ==
    ASSUME ProbingAssumption, NEW r \in Seq(BOOLEAN), Len(r) <= FailingAfter, NEW b \in BOOLEAN
    PROVE  /\ Recorded(r, b) \in Seq(BOOLEAN)
           /\ Len(Recorded(r, b)) = IF Len(r) < FailingAfter THEN Len(r) + 1 ELSE FailingAfter
           /\ Recorded(r, b)[1] = b
           /\ \A i \in 2 .. Len(Recorded(r, b)) : Recorded(r, b)[i] = r[i - 1]
<1>. DEFINE all == <<b>> \o r
            n   == IF Len(all) < FailingAfter THEN Len(all) ELSE FailingAfter
<1>1. FailingAfter \in Nat \ {0} BY DEF ProbingAssumption
<1>2. Len(r) \in Nat /\ <<b>> \in Seq(BOOLEAN) /\ Len(<<b>>) = 1 /\ <<b>>[1] = b OBVIOUS
<1>3. all \in Seq(BOOLEAN) /\ Len(all) = Len(r) + 1 BY <1>2, ConcatProperties
<1>4. all[1] = b BY <1>2, ConcatProperties
<1>5. \A i \in 2 .. Len(all) : all[i] = r[i - 1]
  <2>. TAKE i \in 2 .. Len(all)
  <2>1. i \in 1 .. Len(<<b>>) + Len(r) /\ i > Len(<<b>>) BY <1>2, <1>3
  <2>2. all[i] = r[i - Len(<<b>>)] BY <1>2, <2>1, ConcatProperties
  <2>. QED BY <1>2, <2>2
<1>6. n \in 1 .. Len(all) BY <1>1, <1>2, <1>3
<1>. HIDE DEF all
<1>7. /\ SubSeq(all, 1, n) \in Seq(BOOLEAN) /\ Len(SubSeq(all, 1, n)) = n
      /\ \A i \in 1 .. n : SubSeq(all, 1, n)[i] = all[i]
  BY <1>3, <1>6, SubSeqProperties
<1>8. Recorded(r, b) = SubSeq(all, 1, n) BY DEF Recorded, all
<1>. QED BY <1>1, <1>2, <1>3, <1>4, <1>5, <1>6, <1>7, <1>8

(* A success ends the failures that the runs begin with; ...               *)
LEMMA Succeeds ==
    ASSUME ProbingAssumption, NEW r, NEW n, Leads(r, n)
    PROVE  Leads(Recorded(r, TRUE), 0)
<1>1. FailingAfter \in Nat \ {0} /\ Len(r) \in Nat BY DEF ProbingAssumption, Leads
<1>. DEFINE s == Recorded(r, TRUE)
<1>2. s \in Seq(BOOLEAN) /\ Len(s) = IF Len(r) < FailingAfter THEN Len(r) + 1 ELSE FailingAfter
  BY RecordedAt DEF Leads
<1>3. s[1] = TRUE BY RecordedAt DEF Leads
<1>. HIDE DEF s
<1>4. Len(s) <= FailingAfter /\ 0 \in 0 .. Len(s) /\ 0 + 1 = 1 BY <1>1, <1>2
<1>5. \A i \in 1 .. 0 : s[i] = FALSE OBVIOUS
<1>6. Leads(s, 0) BY <1>2, <1>3, <1>4, <1>5, Zenon DEF Leads
<1>. QED BY <1>6 DEF s

(* ... one more failure is one more of them, up to the threshold.          *)
LEMMA FailsAgain ==
    ASSUME ProbingAssumption, NEW r, NEW n, Leads(r, n)
    PROVE  Leads(Recorded(r, FALSE), IF n < FailingAfter THEN n + 1 ELSE n)
<1>. DEFINE s == Recorded(r, FALSE)
            m == IF n < FailingAfter THEN n + 1 ELSE n
<1>1. FailingAfter \in Nat \ {0} /\ Len(r) \in Nat /\ n \in Nat BY DEF ProbingAssumption, Leads
<1>2. /\ s \in Seq(BOOLEAN) /\ Len(s) = IF Len(r) < FailingAfter THEN Len(r) + 1 ELSE FailingAfter
      /\ s[1] = FALSE /\ \A i \in 2 .. Len(s) : s[i] = r[i - 1]
  BY RecordedAt DEF Leads
<1>. HIDE DEF s
<1>3. Len(s) \in Nat /\ Len(s) <= FailingAfter /\ m \in 1 .. Len(s) BY <1>1, <1>2 DEF Leads
<1>4. ASSUME NEW i \in 1 .. m PROVE s[i] = FALSE
  <2>1. CASE i = 1 BY <1>2, <2>1
  <2>2. CASE i # 1
    <3>1. i \in 2 .. Len(s) /\ i - 1 \in 1 .. n BY <1>1, <1>3, <2>2
    <3>. QED BY <1>2, <3>1 DEF Leads
  <2>. QED BY <2>1, <2>2
<1>5. ASSUME m < Len(s) PROVE s[m + 1] = TRUE
  <2>1. m = n + 1 /\ n < Len(r) BY <1>1, <1>2, <1>3, <1>5 DEF Leads
  <2>2. s[m + 1] = r[n + 1] BY <1>1, <1>2, <1>3, <1>5, <2>1
  <2>. QED BY <2>1, <2>2 DEF Leads
<1>. HIDE DEF m
<1>6. m \in 0 .. Len(s) BY <1>3
<1>7. Leads(s, m) BY <1>2, <1>3, <1>4, <1>5, <1>6, Zenon DEF Leads
<1>. QED BY <1>7 DEF s, m

(* A run that is recorded is counted.                                      *)
LEMMA RanCounts ==
    ASSUME ProbingAssumption, ProbingInv, NEW xs \in SUBSET Pairs, NEW good, Ran(xs, good)
    PROVE  /\ history' = [x \in Pairs |-> history'[x]]
           /\ ran' \in [Pairs -> 0 .. clock]
           /\ streak' \in [Pairs -> Nat] /\ worst' \in [Pairs -> Nat]
           /\ \A x \in Pairs : CountsMatch(x)' /\ worst'[x] >= worst[x]
           /\ \A x \in Pairs \ xs : history'[x] = history[x] /\ streak'[x] = streak[x] /\ worst'[x] = worst[x]
<1>1. FailingAfter \in Nat \ {0} /\ clock \in Nat BY DEF ProbingAssumption, ProbingInv
<1>2. ran' \in [Pairs -> 0 .. clock] BY <1>1 DEF Ran, ProbingInv
<1>3. ASSUME NEW x \in Pairs
      PROVE  /\ history'[x] = IF x \in xs THEN Recorded(history[x], x \in good) ELSE history[x]
             /\ streak'[x] = IF x \notin xs THEN streak[x] ELSE IF x \in good THEN 0
                             ELSE IF streak[x] < FailingAfter THEN streak[x] + 1 ELSE streak[x]
             /\ worst'[x] = IF streak'[x] > worst[x] THEN streak'[x] ELSE worst[x]
  BY DEF Ran
<1>4. history' = [x \in Pairs |-> history'[x]] /\ streak' = [x \in Pairs |-> streak'[x]]
      /\ worst' = [x \in Pairs |-> worst'[x]]
  BY DEF Ran
<1>5. ASSUME NEW x \in Pairs
      PROVE  /\ CountsMatch(x)' /\ worst'[x] >= worst[x] /\ streak'[x] \in Nat /\ worst'[x] \in Nat
             /\ x \notin xs => history'[x] = history[x] /\ streak'[x] = streak[x] /\ worst'[x] = worst[x]
  <2>1. /\ CountsMatch(x) /\ Len(history[x]) \in Nat /\ streak[x] \in Nat /\ worst[x] \in Nat
        /\ worst[x] >= streak[x]
    BY <1>1 DEF ProbingInv, CountsMatch, Leads
  <2>2. CASE x \notin xs
    <3>1. history'[x] = history[x] /\ streak'[x] = streak[x] /\ worst'[x] = worst[x]
      BY <1>3, <2>1, <2>2
    <3>. QED BY <2>1, <2>2, <3>1 DEF CountsMatch
  <2>3. CASE x \in xs
    <3>1. history'[x] = Recorded(history[x], x \in good) BY <1>3, <2>3
    <3>2. Leads(history'[x], streak'[x])
      <4>1. CASE x \in good
        <5>1. (x \in good) = TRUE BY <4>1
        <5>2. history'[x] = Recorded(history[x], TRUE) /\ streak'[x] = 0 BY <1>3, <2>3, <3>1, <5>1
        <5>. QED BY <2>1, <5>2, Succeeds DEF CountsMatch
      <4>2. CASE x \notin good
        <5>1. (x \in good) = FALSE BY <4>2
        <5>2. /\ history'[x] = Recorded(history[x], FALSE)
              /\ streak'[x] = IF streak[x] < FailingAfter THEN streak[x] + 1 ELSE streak[x]
          BY <1>3, <2>3, <3>1, <4>2, <5>1
        <5>. QED BY <2>1, <5>2, FailsAgain DEF CountsMatch
      <4>. QED BY <4>1, <4>2
    <3>3. Len(history'[x]) \in Nat BY <3>2 DEF Leads
    <3>. QED BY <1>1, <1>3, <2>1, <2>3, <3>2, <3>3 DEF CountsMatch, Leads
  <2>. QED BY <2>2, <2>3
<1>. QED BY <1>2, <1>4, <1>5

(* A pair fails where its streak is at the limit, and only there; and one  *)
(* that worked the last time it was run is judged.                         *)
LEMMA FailsByStreak ==
    ASSUME ProbingAssumption, NEW r, NEW n, Leads(r, n)
    PROVE  /\ Fails(r) <=> n = FailingAfter
           /\ n = 0 /\ r # <<>> => Judged(r)
<1>1. /\ FailingAfter \in Nat \ {0} /\ r \in Seq(BOOLEAN) /\ Len(r) \in Nat
      /\ DOMAIN r = 1 .. Len(r) /\ n \in Nat
  BY DEF ProbingAssumption, Leads
<1>2. ASSUME n = FailingAfter PROVE Fails(r)
  <2>1. Len(r) <= FailingAfter /\ n \in 0 .. Len(r) BY Zenon DEF Leads
  <2>2. \A i \in 1 .. n : ~r[i] BY Zenon DEF Leads
  <2>3. FailingAfter \in Nat /\ Len(r) \in Nat BY <1>1
  <2>4. Len(r) = FailingAfter BY <1>2, <2>1, <2>3
  <2>. QED BY <1>1, <1>2, <2>2, <2>4 DEF Fails
<1>3. ASSUME Fails(r) PROVE n = FailingAfter
  <2>1. Len(r) = FailingAfter /\ \A i \in 1 .. FailingAfter : ~r[i] BY <1>1, <1>3 DEF Fails
  <2>2. ~(n < FailingAfter) BY <1>1, <2>1 DEF Leads
  <2>. QED BY <1>1, <2>1, <2>2 DEF Leads
<1>4. ASSUME n = 0, r # <<>> PROVE Judged(r)
  <2>1. Len(r) > 0 BY <1>1, <1>4, EmptySeq
  <2>2. r[1] = TRUE BY <1>1, <1>4, <2>1 DEF Leads
  <2>. QED BY <1>4, <2>2 DEF Judged
<1>. QED BY <1>2, <1>3, <1>4

(* At the start nothing was ever run.                                      *)
LEMMA InitProbingInv ==
    ASSUME ProbingAssumption, Init
    PROVE  ProbingInv
<1>1. FailingAfter \in Nat \ {0} /\ MaxClock \in Nat \ {0} /\ MaxByHand \in Nat BY DEF ProbingAssumption
<1>2. ASSUME NEW x \in Pairs PROVE CountsMatch(x) /\ FindingMatches(x)
  <2>1. /\ history[x] = <<>> /\ streak[x] = 0 /\ worst[x] = 0 /\ failing[x] = "none" /\ settled = {}
    BY DEF Init
  <2>. QED BY <1>1, <2>1 DEF CountsMatch, Leads, FindingMatches, Live
<1>3. ran \in [Pairs -> 0 .. clock] BY DEF Init, Never
<1>. QED BY <1>1, <1>2, <1>3 DEF Init, ProbingInv

(* A pass of the schedule judges every pair by the runs it now has.        *)
LEMMA RunDueKeeps ==
    ASSUME ProbingAssumption, ProbingInv, NEW reached \in SUBSET Targets, NEW good, RunDue(reached, good)
    PROVE  ProbingInv'
<1>. DEFINE xs == {x \in Pairs : x[1] \in reached /\ Due(x)}
<1>1. /\ Ran(xs, good) /\ failing' = Kept(history') /\ settled' = {x \in Pairs : history'[x] # <<>>}
      /\ UNCHANGED <<clock, byHand>>
  BY DEF RunDue
<1>2. xs \in SUBSET Pairs OBVIOUS
<1>. HIDE DEF xs
<1>3. /\ history' = [x \in Pairs |-> history'[x]]
      /\ ran' \in [Pairs -> 0 .. clock] /\ streak' \in [Pairs -> Nat] /\ worst' \in [Pairs -> Nat]
      /\ \A x \in Pairs : CountsMatch(x)' /\ worst'[x] >= worst[x]
  BY <1>1, <1>2, RanCounts
<1>4. FailingAfter \in Nat \ {0} BY DEF ProbingAssumption
<1>5. ASSUME NEW x \in Pairs
      PROVE  /\ failing'[x] = IF Fails(history'[x])
                              THEN IF failing[x] \in {"none", "resolved"} THEN "open" ELSE failing[x]
                              ELSE IF x \in Seen(history') /\ failing[x] \in {"open", "acknowledged"}
                              THEN "resolved" ELSE failing[x]
             /\ failing[x] \in {"none", "open", "acknowledged", "resolved"}
  BY <1>1 DEF Kept, ProbingInv
<1>6. failing' \in [Pairs -> {"none", "open", "acknowledged", "resolved"}]
  <2>1. failing' = [x \in Pairs |-> failing'[x]] BY <1>1 DEF Kept
  <2>2. \A x \in Pairs : failing'[x] \in {"none", "open", "acknowledged", "resolved"} BY <1>5
  <2>. QED BY <2>1, <2>2
<1>7. ASSUME NEW x \in Pairs PROVE FindingMatches(x)'
  <2>1. /\ Fails(history'[x]) <=> streak'[x] = FailingAfter
        /\ streak'[x] = 0 /\ history'[x] # <<>> => Judged(history'[x])
    <3>1. Leads(history'[x], streak'[x]) BY <1>3 DEF CountsMatch
    <3>. QED BY <3>1, FailsByStreak
  <2>2. /\ streak'[x] \in Nat /\ worst'[x] \in Nat /\ worst[x] \in Nat
        /\ worst'[x] >= streak'[x] /\ worst'[x] <= FailingAfter /\ worst'[x] >= worst[x]
    BY <1>3, <1>4 DEF CountsMatch, Leads, ProbingInv
  <2>3. failing[x] \in Live => worst[x] = FailingAfter BY DEF ProbingInv, FindingMatches
  <2>4. failing'[x] \in Live => worst'[x] = FailingAfter
    BY <1>4, <1>5, <2>1, <2>2, <2>3 DEF Live
  <2>5. streak'[x] = FailingAfter => failing'[x] \in Live BY <1>5, <2>1 DEF Live
  <2>6. ASSUME x \in settled', streak'[x] = 0 PROVE failing'[x] \notin Live
    <3>1. Judged(history'[x]) /\ ~Fails(history'[x]) BY <1>1, <1>4, <2>1, <2>6
    <3>2. x \in Seen(history') BY <3>1 DEF Seen, Pairs
    <3>. QED BY <1>5, <3>1, <3>2 DEF Live
  <2>. QED BY <2>4, <2>5, <2>6 DEF FindingMatches
<1>8. settled' \subseteq Pairs BY <1>1
<1>. QED BY <1>1, <1>3, <1>6, <1>7, <1>8 DEF ProbingInv

(* The operator's runs are counted, and what they touch is not settled.    *)
LEMMA ProbeByHandKeeps ==
    ASSUME ProbingAssumption, ProbingInv, NEW t \in Targets, NEW xs \in SUBSET ({t} \X Probes), NEW good,
           ProbeByHand(t, xs, good)
    PROVE  ProbingInv'
<1>1. /\ byHand < MaxByHand /\ byHand' = byHand + 1 /\ Ran(xs, good) /\ settled' = settled \ xs
      /\ UNCHANGED <<clock, failing>>
  BY DEF ProbeByHand
<1>2. xs \in SUBSET Pairs BY DEF Pairs
<1>3. /\ history' = [x \in Pairs |-> history'[x]]
      /\ ran' \in [Pairs -> 0 .. clock] /\ streak' \in [Pairs -> Nat] /\ worst' \in [Pairs -> Nat]
      /\ \A x \in Pairs : CountsMatch(x)' /\ worst'[x] >= worst[x]
      /\ \A x \in Pairs \ xs : history'[x] = history[x] /\ streak'[x] = streak[x] /\ worst'[x] = worst[x]
  BY <1>1, <1>2, RanCounts
<1>4. ASSUME NEW x \in Pairs PROVE FindingMatches(x)'
  <2>1. FindingMatches(x) BY DEF ProbingInv
  <2>2. worst'[x] <= FailingAfter /\ worst'[x] >= worst[x] /\ worst'[x] \in Nat /\ worst[x] \in Nat
        /\ FailingAfter \in Nat
    BY <1>3 DEF CountsMatch, Leads, ProbingInv, ProbingAssumption
  <2>3. failing'[x] \in Live => worst'[x] = FailingAfter BY <1>1, <2>1, <2>2 DEF FindingMatches
  <2>4. x \in settled' => streak'[x] = streak[x] /\ x \in settled BY <1>1, <1>3
  <2>. QED BY <1>1, <2>1, <2>3, <2>4 DEF FindingMatches
<1>. QED BY <1>1, <1>3, <1>4 DEF ProbingInv, ProbingAssumption

(* So is what the operator triages.                                        *)
LEMMA TriageKeeps ==
    ASSUME ProbingAssumption, ProbingInv, NEW y \in Pairs, NEW to \in {"acknowledged", "resolved"},
           Triage(y, to)
    PROVE  ProbingInv'
<1>1. /\ failing[y] \in {"open", "acknowledged"} /\ byHand < MaxByHand /\ byHand' = byHand + 1
      /\ failing' = [failing EXCEPT ![y] = to] /\ settled' = settled \ {y}
      /\ UNCHANGED <<clock, history, ran, streak, worst>>
  BY DEF Triage
<1>2. failing' \in [Pairs -> {"none", "open", "acknowledged", "resolved"}] BY <1>1 DEF ProbingInv
<1>3. ASSUME NEW x \in Pairs PROVE CountsMatch(x)' /\ FindingMatches(x)'
  <2>1. CountsMatch(x) /\ FindingMatches(x) BY DEF ProbingInv
  <2>2. CountsMatch(x)' BY <1>1, <2>1 DEF CountsMatch
  <2>3. CASE x = y
    <3>1. failing'[x] = to /\ x \notin settled' BY <1>1, <2>3 DEF ProbingInv
    <3>. QED BY <1>1, <2>1, <2>2, <2>3, <3>1 DEF FindingMatches, Live
  <2>4. CASE x # y
    <3>1. failing'[x] = failing[x] /\ (x \in settled' => x \in settled) BY <1>1, <2>4 DEF ProbingInv
    <3>. QED BY <1>1, <2>1, <2>2, <3>1 DEF FindingMatches
  <2>. QED BY <2>2, <2>3, <2>4
<1>. QED BY <1>1, <1>2, <1>3 DEF ProbingInv, ProbingAssumption

(* The invariant holds throughout.                                         *)
LEMMA NextProbingInv ==
    ASSUME ProbingAssumption, ProbingInv, [Next]_vars
    PROVE  ProbingInv'
<1>1. CASE UNCHANGED vars BY <1>1 DEF vars, ProbingInv, CountsMatch, FindingMatches
<1>2. CASE Tick
  <2>1. /\ clock < MaxClock /\ clock' = clock + 1
        /\ UNCHANGED <<history, ran, failing, byHand, settled, streak, worst>>
    BY <1>2 DEF Tick
  <2>2. clock' \in 1 .. MaxClock /\ 0 .. clock \subseteq 0 .. clock'
    BY <2>1 DEF ProbingInv, ProbingAssumption
  <2>3. ran' \in [Pairs -> 0 .. clock'] BY <2>1, <2>2 DEF ProbingInv
  <2>. QED BY <2>1, <2>2, <2>3 DEF ProbingInv, CountsMatch, FindingMatches
<1>3. ASSUME NEW reached \in SUBSET Targets, NEW good, RunDue(reached, good) PROVE ProbingInv'
  BY <1>3, RunDueKeeps
<1>4. ASSUME NEW t \in Targets, NEW xs \in SUBSET ({t} \X Probes), NEW good, ProbeByHand(t, xs, good)
      PROVE  ProbingInv'
  BY <1>4, ProbeByHandKeeps
<1>5. ASSUME NEW x \in Pairs, NEW to \in {"acknowledged", "resolved"}, Triage(x, to)
      PROVE  ProbingInv'
  BY <1>5, TriageKeeps
<1>. QED BY <1>1, <1>2, <1>3, <1>4, <1>5 DEF Next

(* Types of the schedule's clock, its runs and the findings on them, and   *)
(* that no more runs of a pair are looked at than PROBE_FAILING_AFTER.     *)
THEOREM ProbingTypes ==
    ASSUME ProbingAssumption
    PROVE  Spec => []TypeOK
<1>1. Init => ProbingInv BY InitProbingInv
<1>2. ProbingInv /\ [Next]_vars => ProbingInv' BY NextProbingInv
<1>3. ProbingInv => TypeOK
  <2>. SUFFICES ASSUME ProbingInv PROVE TypeOK OBVIOUS
  <2>1. ASSUME NEW x \in Pairs
        PROVE  /\ Len(history[x]) <= FailingAfter /\ ran[x] \in 0 .. clock
               /\ streak[x] \in 0 .. FailingAfter /\ worst[x] \in 0 .. FailingAfter
    BY DEF ProbingInv, CountsMatch, Leads, ProbingAssumption
  <2>2. streak \in [Pairs -> 0 .. FailingAfter] /\ worst \in [Pairs -> 0 .. FailingAfter]
    BY <2>1 DEF ProbingInv
  <2>. QED BY <2>1, <2>2 DEF ProbingInv, TypeOK
<1>. QED BY <1>1, <1>2, <1>3, PTL DEF Spec

(* reconcile_probe_failures() has the finding of a pair open from the pass *)
(* after PROBE_FAILING_AFTER failures in a row on, and closed from the     *)
(* pass after it worked, or if it never failed so often.                   *)
THEOREM RunsAreFound ==
    ASSUME ProbingAssumption
    PROVE  Spec => []FindingsFollowRuns
<1>1. Init => ProbingInv BY InitProbingInv
<1>2. ProbingInv /\ [Next]_vars => ProbingInv' BY NextProbingInv
<1>3. ProbingInv => FindingsFollowRuns
  <2>. SUFFICES ASSUME ProbingInv, NEW x \in settled
                PROVE  /\ streak[x] = FailingAfter => failing[x] \in Live
                       /\ streak[x] = 0 \/ worst[x] < FailingAfter => failing[x] \in {"none", "resolved"}
    BY DEF FindingsFollowRuns, Live
  <2>1. x \in Pairs BY DEF ProbingInv
  <2>2. /\ FindingMatches(x) /\ failing[x] \in {"none", "open", "acknowledged", "resolved"}
        /\ worst[x] \in Nat /\ FailingAfter \in Nat
    BY <2>1 DEF ProbingInv, ProbingAssumption
  <2>. QED BY <2>2 DEF FindingMatches, Live
<1>. QED BY <1>1, <1>2, <1>3, PTL DEF Spec
-----------------------------------------------------------------------------
(***************************************************************************)
(* The assertions.  A run writes the finding of the target that the row    *)
(* names now and the verdict on it in one step, so that the two agree of   *)
(* every target, however the row was retargeted in between.                *)
(***************************************************************************)

(* The inductive invariant.                                                *)
AssertionsInv ==
    /\ Assertions!TypeOK /\ Assertions!FindingsFollowVerdicts
    /\ verdict \in [Assertions!Targets -> {"none", "pass", "fail", "settled"}]
    /\ used \in [loads : 0 .. MaxLoads, readings : 0 .. MaxReadings, triage : 0 .. MaxTriage]

(* A verdict is one of four, and it is on a target.                        *)
LEMMA VerifyType ==
    ASSUME Assertions!AssertionsAssumption, AssertionsInv, row # Missing
    PROVE  /\ row \in Assertions!Entries /\ row.target \in Assertions!Targets
           /\ Assertions!Verify \in {"pass", "fail", "error", "skip"}
<1>1. row \in Library BY DEF AssertionsInv, Assertions!TypeOK
<1>2. row \in Assertions!Entries BY <1>1 DEF Assertions!AssertionsAssumption
<1>3. row.target \in Assertions!Targets BY <1>2 DEF Assertions!Entries
<1>4. Assertions!Verify \in {"pass", "fail", "error", "skip"}
  BY DEF Assertions!Verify, Assertions!Predicate
<1>. QED BY <1>2, <1>3, <1>4

(* A run moves the finding and the verdict of one target together.         *)
LEMMA RunAssertionKeeps ==
    ASSUME Assertions!AssertionsAssumption, AssertionsInv, row # Missing, Assertions!RunAssertion
    PROVE  AssertionsInv'
<1>. DEFINE target == row.target  outcome == Assertions!Verify
<1>1. target \in Assertions!Targets /\ outcome \in {"pass", "fail", "error", "skip"} BY VerifyType
<1>2. /\ run' = [at |-> clock, status |-> outcome]
      /\ finding' = CASE outcome = "fail" -> Assertions!Failed
                      [] outcome = "pass" -> Assertions!Resolved [] OTHER -> finding
      /\ verdict' = IF outcome \in {"pass", "fail"} THEN [verdict EXCEPT ![target] = outcome] ELSE verdict
      /\ UNCHANGED <<clock, row, reading, used>>
  BY DEF Assertions!RunAssertion, Assertions!Fingerprint
<1>3. /\ finding \in [Assertions!Targets -> Assertions!Statuses]
      /\ verdict \in [Assertions!Targets -> {"none", "pass", "fail", "settled"}]
  BY DEF AssertionsInv, Assertions!TypeOK
<1>. HIDE DEF outcome
<1>4. /\ finding' \in [Assertions!Targets -> Assertions!Statuses]
      /\ verdict' \in [Assertions!Targets -> {"none", "pass", "fail", "settled"}]
      /\ \A t \in Assertions!Targets \ {target} : finding'[t] = finding[t] /\ verdict'[t] = verdict[t]
      /\ outcome = "fail" => verdict'[target] = "fail" /\ finding'[target] \notin {"none", "resolved"}
      /\ outcome = "pass" => verdict'[target] = "pass" /\ finding'[target] # "open"
      /\ outcome \notin {"pass", "fail"} => UNCHANGED <<finding, verdict>>
  <2>1. CASE outcome = "fail"
    BY <1>1, <1>2, <1>3, <2>1 DEF Assertions!Failed, Assertions!Fingerprint, Assertions!Statuses
  <2>2. CASE outcome = "pass"
    BY <1>1, <1>2, <1>3, <2>2 DEF Assertions!Resolved, Assertions!Fingerprint, Assertions!Statuses,
                                  Assertions!Live
  <2>3. CASE outcome \notin {"pass", "fail"} BY <1>2, <1>3, <2>3
  <2>. QED BY <2>1, <2>2, <2>3
<1>5. Assertions!FindingsFollowVerdicts'
  BY <1>1, <1>4 DEF AssertionsInv, Assertions!FindingsFollowVerdicts
<1>6. Assertions!TypeOK'
  BY <1>1, <1>2, <1>4 DEF AssertionsInv, Assertions!TypeOK, Assertions!AssertionsAssumption
<1>. QED BY <1>2, <1>4, <1>5, <1>6 DEF AssertionsInv

(* So does the operator who resolves one, and nothing else touches either. *)
LEMMA NextAssertionsInv ==
    ASSUME Assertions!AssertionsAssumption, AssertionsInv, [Assertions!Next]_(Assertions!vars)
    PROVE  AssertionsInv'
<1>. USE DEF AssertionsInv, Assertions!TypeOK, Assertions!FindingsFollowVerdicts
<1>. USE DEF Assertions!AssertionsAssumption
<1>1. CASE UNCHANGED Assertions!vars BY <1>1 DEF Assertions!vars
<1>2. CASE Assertions!Load
  <2>1. row' \in Library BY <1>2 DEF Assertions!Load
  <2>2. used' \in [loads : 0 .. MaxLoads, readings : 0 .. MaxReadings, triage : 0 .. MaxTriage]
    BY <1>2 DEF Assertions!Load
  <2>. QED BY <1>2, <2>1, <2>2 DEF Assertions!Load
<1>3. CASE Assertions!Observe
  <2>1. reading' \in [Asserted -> Assertions!Values \cup {Missing}] BY <1>3 DEF Assertions!Observe
  <2>2. used' \in [loads : 0 .. MaxLoads, readings : 0 .. MaxReadings, triage : 0 .. MaxTriage]
    BY <1>3 DEF Assertions!Observe
  <2>. QED BY <1>3, <2>1, <2>2 DEF Assertions!Observe
<1>4. CASE Assertions!AssertRun BY <1>4, RunAssertionKeeps DEF Assertions!AssertRun
<1>5. CASE Assertions!RunDue BY <1>5, RunAssertionKeeps DEF Assertions!RunDue, Assertions!Due
<1>6. CASE Assertions!Triage
  <2>1. PICK t \in Assertions!Targets, to \in {"acknowledged", "suppressed", "resolved"} :
          /\ finding' = [finding EXCEPT ![t] = to]
          /\ verdict' = IF to = "resolved" THEN [verdict EXCEPT ![t] = "settled"] ELSE verdict
    BY <1>6 DEF Assertions!Triage
  <2>2. /\ finding' \in [Assertions!Targets -> Assertions!Statuses]
        /\ verdict' \in [Assertions!Targets -> {"none", "pass", "fail", "settled"}]
    BY <2>1 DEF Assertions!Statuses
  <2>3. Assertions!FindingsFollowVerdicts' BY <2>1
  <2>4. used' \in [loads : 0 .. MaxLoads, readings : 0 .. MaxReadings, triage : 0 .. MaxTriage]
    BY <1>6 DEF Assertions!Triage
  <2>. QED BY <1>6, <2>2, <2>3, <2>4 DEF Assertions!Triage
<1>7. CASE Assertions!Tick BY <1>7 DEF Assertions!Tick
<1>. QED BY <1>1, <1>2, <1>3, <1>4, <1>5, <1>6, <1>7 DEF Assertions!Next

(* An open finding of an assertion is one whose last verdict was a         *)
(* failure, and a failure has its finding until it passes or an operator   *)
(* resolves it, however often the library retargets or disables the row:   *)
(* engine/assertions.py.                                                   *)
THEOREM VerdictsAreFound ==
    ASSUME Assertions!AssertionsAssumption
    PROVE  Assertions!Spec => []Assertions!FindingsFollowVerdicts
<1>1. Assertions!Init => AssertionsInv
  BY DEF Assertions!Init, AssertionsInv, Assertions!TypeOK, Assertions!FindingsFollowVerdicts,
         Assertions!Statuses, Assertions!AssertionsAssumption
<1>2. AssertionsInv /\ [Assertions!Next]_(Assertions!vars) => AssertionsInv' BY NextAssertionsInv
<1>3. AssertionsInv => Assertions!FindingsFollowVerdicts BY DEF AssertionsInv
<1>. QED BY <1>1, <1>2, <1>3, PTL DEF Assertions!Spec
-----------------------------------------------------------------------------
(***************************************************************************)
(* The usage history.  A row of a series never holds a point that is not   *)
(* of its bucket (RowsOf); so where the source still holds a whole bucket  *)
(* and shows no point of it, the row was empty, and is left so.            *)
(***************************************************************************)

RowsOf ==
    subject = "series" =>
        \A b \in Usage!Buckets : stored[b] \subseteq {t \in Usage!Data : Usage!Bucket(t) = b}

(* The inductive invariant.                                                *)
UsageInv ==
    /\ Usage!TypeOK /\ subject \in {"series", "workload", "filesystem"}
    /\ RowsOf /\ Usage!HistoryKept

LEMMA DivAt ==
    ASSUME NEW t \in Nat, NEW p \in Nat \ {0}
    PROVE  t \div p \in Nat /\ (t \div p) * p <= t /\ t < (t \div p) * p + p
OBVIOUS

(* A point is in its bucket, ...                                           *)
LEMMA BucketAt ==
    ASSUME Usage!UsageAssumption, NEW t \in Nat
    PROVE  /\ Usage!Bucket(t) \in Nat /\ Usage!Start(Usage!Bucket(t)) \in Nat
           /\ Usage!Start(Usage!Bucket(t)) <= t /\ t < Usage!Start(Usage!Bucket(t)) + PerBucket
BY DivAt DEF Usage!UsageAssumption, Usage!Bucket, Usage!Start

(* ... and a later one in no earlier one.                                  *)
LEMMA BucketLeq ==
    ASSUME Usage!UsageAssumption, NEW t \in Nat, NEW u \in Nat, t <= u
    PROVE  Usage!Bucket(t) <= Usage!Bucket(u)
<1>. DEFINE a == Usage!Bucket(t)  b == Usage!Bucket(u)
<1>1. PerBucket \in Nat \ {0} /\ a \in Nat /\ b \in Nat /\ a * PerBucket <= u /\ u < b * PerBucket + PerBucket
  <2>1. PerBucket \in Nat \ {0} BY DEF Usage!UsageAssumption
  <2>2. a \in Nat /\ Usage!Start(a) <= t /\ Usage!Start(a) \in Nat BY BucketAt
  <2>3. b \in Nat /\ u < Usage!Start(b) + PerBucket BY BucketAt
  <2>4. Usage!Start(a) = a * PerBucket /\ Usage!Start(b) = b * PerBucket BY DEF Usage!Start
  <2>. HIDE DEF a, b
  <2>. QED BY <2>1, <2>2, <2>3, <2>4
<1>. HIDE DEF a, b
<1>2. SUFFICES ASSUME b + 1 <= a PROVE FALSE BY <1>1 DEF a, b
<1>3. (b + 1) * PerBucket <= a * PerBucket BY <1>1, <1>2
<1>4. (b + 1) * PerBucket = b * PerBucket + PerBucket BY <1>1
<1>. QED BY <1>1, <1>3, <1>4

(* What the clock and the buckets are.                                     *)
LEMMA UsageFacts ==
    ASSUME Usage!UsageAssumption, UsageInv
    PROVE  /\ hour \in Nat /\ hour <= LastHour /\ LastHour \in Nat /\ pruned \in Nat /\ pruned <= hour
           /\ PerBucket \in Nat /\ Horizon \in Nat /\ Span \in Nat
           /\ latest # None => latest \in Nat /\ latest <= hour
           /\ None \notin Nat /\ Usage!Buckets \subseteq Nat
           /\ \A b \in Usage!Buckets : Usage!Start(b) \in Nat
           /\ \A t \in Nat : t <= LastHour => Usage!Bucket(t) \in Usage!Buckets
           /\ stored \in [Usage!Buckets -> SUBSET (0 .. LastHour)]
<1>1. /\ hour \in Nat /\ hour <= LastHour /\ LastHour \in Nat /\ pruned \in Nat /\ pruned <= hour
      /\ PerBucket \in Nat /\ Horizon \in Nat /\ Span \in Nat
      /\ latest # None => latest \in Nat /\ latest <= hour
      /\ None \notin Nat /\ stored \in [Usage!Buckets -> SUBSET (0 .. LastHour)]
  BY DEF UsageInv, Usage!TypeOK, Usage!UsageAssumption
<1>2. Usage!Bucket(LastHour) \in Nat BY <1>1, BucketAt
<1>3. Usage!Buckets \subseteq Nat BY <1>2 DEF Usage!Buckets
<1>4. \A b \in Usage!Buckets : Usage!Start(b) \in Nat BY <1>1, <1>3 DEF Usage!Start
<1>5. ASSUME NEW t \in Nat, t <= LastHour PROVE Usage!Bucket(t) \in Usage!Buckets
  <2>1. Usage!Bucket(t) \in Nat BY BucketAt
  <2>2. Usage!Bucket(t) <= Usage!Bucket(LastHour) BY <1>1, <1>5, BucketLeq
  <2>. QED BY <1>2, <2>1, <2>2 DEF Usage!Buckets
<1>. QED BY <1>1, <1>3, <1>4, <1>5

(* A tick adds a point that no pass has seen.                              *)
LEMMA TickKeepsUsage ==
    ASSUME Usage!UsageAssumption, UsageInv, Usage!Tick
    PROVE  UsageInv'
<1>1. PICK size \in Sizes \cup {None} : point' = [point EXCEPT ![hour] = size]
  BY DEF Usage!Tick
<1>2. hour < LastHour /\ hour' = hour + 1 /\ UNCHANGED <<subject, stored, latest, pruned>> BY DEF Usage!Tick
<1>3. /\ hour \in Nat /\ LastHour \in Nat /\ pruned \in Nat /\ pruned <= hour
      /\ latest # None => latest \in Nat /\ latest <= hour
  BY UsageFacts
<1>4. point \in [0 .. LastHour -> Sizes \cup {None}] BY DEF UsageInv, Usage!TypeOK
<1>5. \A t \in 0 .. LastHour : t # hour => point'[t] = point[t] BY <1>1, <1>4
<1>6. Usage!Data \subseteq Usage!Data'
  BY <1>2, <1>3, <1>5 DEF Usage!Data
<1>7. ASSUME NEW t \in Usage!Data', t < hour PROVE t \in Usage!Data
  BY <1>2, <1>3, <1>5, <1>7 DEF Usage!Data
<1>8. Usage!TypeOK' BY <1>1, <1>2, <1>3, <1>4 DEF UsageInv, Usage!TypeOK
<1>9. RowsOf' BY <1>2, <1>6 DEF UsageInv, RowsOf
<1>10. latest # None => \A b \in Usage!Buckets :
          {t \in Usage!Data' : Usage!Bucket(t) = b /\ t < latest} = {t \in Usage!Data : Usage!Bucket(t) = b /\ t < latest}
  <2>. SUFFICES ASSUME latest # None, NEW t PROVE t \in Usage!Data' /\ t < latest <=> t \in Usage!Data /\ t < latest
    OBVIOUS
  <2>1. ASSUME t \in Usage!Data', t < latest PROVE t \in Usage!Data
    <3>1. t \in Nat BY <1>2, <1>3, <2>1 DEF Usage!Data
    <3>2. t < hour BY <1>3, <2>1, <3>1
    <3>. QED BY <1>7, <2>1, <3>2
  <2>. QED BY <1>6, <2>1
<1>11. Usage!HistoryKept' BY <1>2, <1>10 DEF UsageInv, Usage!HistoryKept
<1>. QED BY <1>2, <1>8, <1>9, <1>11 DEF UsageInv

(* A prune leaves what is in the horizon, and nothing before it.           *)
LEMMA PrunedAt ==
    ASSUME Usage!UsageAssumption, UsageInv, NEW rs \in [Usage!Buckets -> SUBSET (0 .. LastHour)]
    PROVE  /\ Usage!Pruned(rs) \in [Usage!Buckets -> SUBSET (0 .. LastHour)]
           /\ \A b \in Usage!Buckets :
                 /\ Usage!Pruned(rs)[b] # {} => Usage!Start(b) + Horizon >= hour
                 /\ Usage!Start(b) + Horizon >= hour => Usage!Pruned(rs)[b] = rs[b]
                 /\ Usage!Pruned(rs)[b] \subseteq rs[b]
<1>1. hour \in Nat /\ Horizon \in Nat /\ \A b \in Usage!Buckets : Usage!Start(b) \in Nat BY UsageFacts
<1>. QED BY <1>1 DEF Usage!Pruned

(* A reading of the moment is the row of its bucket.                       *)
LEMMA ReadingAt ==
    ASSUME Usage!UsageAssumption, UsageInv
    PROVE  /\ Usage!Bucket(hour) \in Usage!Buckets
           /\ Usage!Recorded(Usage!Reading) = [stored EXCEPT ![Usage!Bucket(hour)] = {hour}]
           /\ Usage!Recorded(Usage!Reading) \in [Usage!Buckets -> SUBSET (0 .. LastHour)]
<1>1. /\ Usage!Bucket(hour) \in Usage!Buckets /\ hour \in 0 .. LastHour
      /\ stored \in [Usage!Buckets -> SUBSET (0 .. LastHour)]
  BY UsageFacts
<1>2. Usage!Recorded(Usage!Reading) = [stored EXCEPT ![Usage!Bucket(hour)] = {hour}]
  BY <1>1 DEF Usage!Recorded, Usage!Reading
<1>. QED BY <1>1, <1>2

(* What a rollup makes of the buckets that the source still holds whole is *)
(* all there is of them.                                                   *)
LEMMA RollupAt ==
    ASSUME Usage!UsageAssumption, UsageInv, subject = "series"
    PROVE  /\ Usage!Recorded(Usage!Rollup) \in [Usage!Buckets -> SUBSET (0 .. LastHour)]
           /\ \A b \in Usage!Buckets :
                 /\ Usage!Recorded(Usage!Rollup)[b] \subseteq {t \in Usage!Data : Usage!Bucket(t) = b}
                 /\ Usage!Start(b) + Span >= hour =>
                       Usage!Recorded(Usage!Rollup)[b] = {t \in Usage!Data : Usage!Bucket(t) = b /\ t < hour}
<1>1. /\ hour \in Nat /\ hour <= LastHour /\ LastHour \in Nat /\ Span \in Nat
      /\ \A b \in Usage!Buckets : Usage!Start(b) \in Nat
      /\ stored \in [Usage!Buckets -> SUBSET (0 .. LastHour)]
  BY UsageFacts
<1>2. Usage!Data \subseteq 0 .. LastHour /\ \A t \in Usage!Data : t \in Nat /\ t < hour
  BY <1>1 DEF Usage!Data
<1>3. Usage!Held \subseteq Usage!Data BY DEF Usage!Held
<1>4. ASSUME NEW b \in Usage!Buckets
      PROVE  Usage!Recorded(Usage!Rollup)[b] = IF \E t \in Usage!Held : Usage!Bucket(t) = b
                                               THEN {t \in Usage!Held : Usage!Bucket(t) = b} ELSE stored[b]
  BY DEF Usage!Recorded, Usage!Rollup
<1>5. ASSUME NEW b \in Usage!Buckets
      PROVE  Usage!Recorded(Usage!Rollup)[b] \subseteq {t \in Usage!Data : Usage!Bucket(t) = b}
  <2>1. stored[b] \subseteq {t \in Usage!Data : Usage!Bucket(t) = b} BY DEF UsageInv, RowsOf
  <2>2. {t \in Usage!Held : Usage!Bucket(t) = b} \subseteq {t \in Usage!Data : Usage!Bucket(t) = b} BY <1>3
  <2>3. \/ Usage!Recorded(Usage!Rollup)[b] = {t \in Usage!Held : Usage!Bucket(t) = b}
        \/ Usage!Recorded(Usage!Rollup)[b] = stored[b]
    BY <1>4
  <2>. QED BY <2>1, <2>2, <2>3
<1>6. ASSUME NEW b \in Usage!Buckets, Usage!Start(b) + Span >= hour
      PROVE  Usage!Recorded(Usage!Rollup)[b] = {t \in Usage!Data : Usage!Bucket(t) = b /\ t < hour}
  <2>1. ASSUME NEW t \in Usage!Data, Usage!Bucket(t) = b PROVE t \in Usage!Held
    <3>1. t \in Nat /\ Usage!Start(b) <= t BY <1>2, <2>1, BucketAt
    <3>2. t + Span >= hour BY <1>1, <1>6, <3>1
    <3>. QED BY <3>2 DEF Usage!Held
  <2>2. {t \in Usage!Data : Usage!Bucket(t) = b /\ t < hour} = {t \in Usage!Held : Usage!Bucket(t) = b}
    BY <1>2, <1>3, <2>1
  <2>3. CASE \E t \in Usage!Held : Usage!Bucket(t) = b BY <1>4, <2>2, <2>3
  <2>4. CASE ~\E t \in Usage!Held : Usage!Bucket(t) = b
    <3>1. stored[b] \subseteq {t \in Usage!Held : Usage!Bucket(t) = b} BY <2>1 DEF UsageInv, RowsOf
    <3>. QED BY <1>4, <2>2, <2>4, <3>1
  <2>. QED BY <2>3, <2>4
<1>7. Usage!Recorded(Usage!Rollup) = [b \in Usage!Buckets |-> Usage!Recorded(Usage!Rollup)[b]]
  BY DEF Usage!Recorded
<1>8. \A b \in Usage!Buckets : Usage!Recorded(Usage!Rollup)[b] \in SUBSET (0 .. LastHour) BY <1>2, <1>5
<1>. QED BY <1>5, <1>6, <1>7, <1>8

(* A pass writes what it was shown, and prunes either way.                 *)
LEMMA DiscoverUsageKeeps ==
    ASSUME Usage!UsageAssumption, UsageInv, Usage!DiscoverUsage
    PROVE  UsageInv'
<1>. DEFINE rolled == Usage!Recorded(Usage!Rollup)
            read == Usage!Recorded(Usage!Reading)
<1>1. PICK shown \in BOOLEAN :
        /\ stored' = Usage!Pruned(CASE shown /\ subject = "series"   -> rolled
                                  [] shown /\ subject = "workload" -> read
                                  [] OTHER -> stored)
        /\ latest' = IF shown /\ subject # "filesystem" THEN hour ELSE latest
  BY DEF Usage!DiscoverUsage
<1>2. pruned' = hour /\ UNCHANGED <<subject, hour, point>> BY DEF Usage!DiscoverUsage
<1>3. /\ hour \in Nat /\ pruned \in Nat /\ pruned <= hour /\ Horizon \in Nat /\ Span \in Nat
      /\ latest # None => latest \in Nat /\ latest <= hour
      /\ None \notin Nat /\ stored \in [Usage!Buckets -> SUBSET (0 .. LastHour)] /\ LastHour \in Nat
      /\ \A b \in Usage!Buckets : Usage!Start(b) \in Nat
      /\ \A t \in Nat : t <= LastHour => Usage!Bucket(t) \in Usage!Buckets
      /\ hour <= LastHour
  BY UsageFacts
<1>4. Usage!Data' = Usage!Data BY <1>2 DEF Usage!Data
<1>. HIDE DEF rolled, read
<1>5. PICK rs \in [Usage!Buckets -> SUBSET (0 .. LastHour)] :
        /\ stored' = Usage!Pruned(rs)
        /\ rs = CASE shown /\ subject = "series"   -> rolled
                  [] shown /\ subject = "workload" -> read
                  [] OTHER -> stored
  BY <1>1, <1>3, RollupAt, ReadingAt DEF rolled, read
<1>6. /\ stored' \in [Usage!Buckets -> SUBSET (0 .. LastHour)]
      /\ \A b \in Usage!Buckets :
            /\ stored'[b] # {} => Usage!Start(b) + Horizon >= hour
            /\ Usage!Start(b) + Horizon >= hour => stored'[b] = rs[b]
            /\ stored'[b] \subseteq rs[b]
  BY <1>5, PrunedAt
<1>7. Usage!TypeOK' BY <1>1, <1>2, <1>3, <1>6 DEF UsageInv, Usage!TypeOK
<1>8. CASE subject = "series"
  <2>1. \A b \in Usage!Buckets : rs[b] \subseteq {t \in Usage!Data : Usage!Bucket(t) = b}
    BY <1>5, <1>8, RollupAt DEF UsageInv, RowsOf, rolled
  <2>2. RowsOf' BY <1>2, <1>4, <1>6, <2>1 DEF RowsOf
  <2>3. ASSUME latest' # None, NEW b \in Usage!Buckets,
               Usage!Start(b) + Span >= latest', Usage!Start(b) + Horizon >= hour
        PROVE  stored'[b] = {t \in Usage!Data : Usage!Bucket(t) = b /\ t < latest'}
    <3>1. stored'[b] = rs[b] BY <1>6, <2>3
    <3>2. CASE shown
      <4>1. rs = rolled /\ latest' = hour BY <1>1, <1>5, <1>8, <3>2
      <4>. QED BY <1>8, <2>3, <3>1, <4>1, RollupAt DEF rolled
    <3>3. CASE ~shown
      <4>1. rs = stored /\ latest' = latest BY <1>1, <1>5, <1>8, <3>3
      <4>2. Usage!Start(b) + Horizon >= pruned BY <1>3, <2>3
      <4>. QED BY <1>8, <2>3, <3>1, <4>1, <4>2 DEF UsageInv, Usage!HistoryKept
    <3>. QED BY <3>2, <3>3
  <2>4. Usage!HistoryKept' BY <1>2, <1>4, <1>6, <1>8, <2>3 DEF Usage!HistoryKept
  <2>. QED BY <1>2, <1>7, <2>2, <2>4 DEF UsageInv
<1>9. CASE subject # "series"
  <2>1. ASSUME latest' # None, Usage!Start(Usage!Bucket(latest')) + Horizon >= hour
        PROVE  stored'[Usage!Bucket(latest')] = {latest'}
    <3>1. CASE shown /\ subject = "workload"
      <4>1. latest' = hour /\ rs = [stored EXCEPT ![Usage!Bucket(hour)] = {hour}]
        BY <1>1, <1>5, <1>9, <3>1, ReadingAt DEF read
      <4>. QED BY <1>3, <1>6, <2>1, <4>1
    <3>2. CASE ~(shown /\ subject = "workload")
      <4>1. latest' = latest /\ rs = stored
        BY <1>1, <1>5, <1>9, <3>2 DEF UsageInv
      <4>2. latest \in Nat /\ latest <= hour BY <1>3, <2>1, <4>1
      <4>3. Usage!Bucket(latest) \in Usage!Buckets BY <1>3, <4>2
      <4>4. Usage!Start(Usage!Bucket(latest)) + Horizon >= pruned BY <1>3, <2>1, <4>1, <4>3
      <4>. QED BY <1>6, <1>9, <2>1, <4>1, <4>3, <4>4 DEF UsageInv, Usage!HistoryKept
    <3>. QED BY <3>1, <3>2
  <2>2. Usage!HistoryKept' BY <1>2, <1>6, <1>9, <2>1 DEF Usage!HistoryKept
  <2>. QED BY <1>2, <1>7, <1>9, <2>2 DEF UsageInv, RowsOf
<1>. QED BY <1>8, <1>9

(* The NAS's own pass writes and does not prune: what it writes is young   *)
(* enough if a bucket fits in the horizon.                                 *)
LEMMA DiscoverOmvKeeps ==
    ASSUME Usage!UsageAssumption, PerBucket <= Horizon, UsageInv, Usage!DiscoverOmv
    PROVE  UsageInv'
<1>1. /\ subject = "filesystem" /\ latest' = hour /\ UNCHANGED <<subject, hour, point, pruned>>
      /\ stored' = [stored EXCEPT ![Usage!Bucket(hour)] = {hour}]
  BY ReadingAt DEF Usage!DiscoverOmv
<1>2. /\ hour \in Nat /\ hour <= LastHour /\ LastHour \in Nat /\ pruned \in Nat /\ pruned <= hour
      /\ PerBucket \in Nat /\ Horizon \in Nat /\ None \notin Nat
      /\ stored \in [Usage!Buckets -> SUBSET (0 .. LastHour)]
      /\ Usage!Bucket(hour) \in Usage!Buckets
  BY UsageFacts
<1>3. Usage!Start(Usage!Bucket(hour)) + Horizon >= pruned BY <1>2, BucketAt
<1>4. Usage!TypeOK' BY <1>1, <1>2 DEF UsageInv, Usage!TypeOK
<1>5. stored'[Usage!Bucket(hour)] = {hour} /\ \A b \in Usage!Buckets : b # Usage!Bucket(hour) => stored'[b] = stored[b]
  BY <1>1, <1>2
<1>6. Usage!HistoryKept' BY <1>1, <1>2, <1>3, <1>5 DEF UsageInv, Usage!HistoryKept
<1>. QED BY <1>1, <1>4, <1>6 DEF UsageInv, RowsOf

(* What engine/usage.py keeps is what the last pass could see: of a series *)
(* every bucket its source still held whole, of a reading of the moment    *)
(* the reading, and nothing past the horizon; for every size of a bucket,  *)
(* of the source's memory and of a horizon in which a bucket fits.         *)
THEOREM HistoryIsKept ==
    ASSUME Usage!UsageAssumption, PerBucket <= Horizon
    PROVE  Usage!Spec => []Usage!HistoryKept
<1>1. Usage!Init => UsageInv
  <2>. SUFFICES ASSUME Usage!Init PROVE UsageInv OBVIOUS
  <2>1. LastHour \in Nat BY DEF Usage!UsageAssumption
  <2>. QED BY <2>1 DEF Usage!Init, UsageInv, Usage!TypeOK, RowsOf, Usage!HistoryKept
<1>2. UsageInv /\ [Usage!Next]_(Usage!vars) => UsageInv'
  <2>. SUFFICES ASSUME UsageInv, [Usage!Next]_(Usage!vars) PROVE UsageInv' OBVIOUS
  <2>1. CASE UNCHANGED Usage!vars
    BY <2>1 DEF Usage!vars, UsageInv, Usage!TypeOK, RowsOf, Usage!HistoryKept, Usage!Data
  <2>. QED BY <2>1, TickKeepsUsage, DiscoverUsageKeeps, DiscoverOmvKeeps DEF Usage!Next
<1>3. UsageInv => Usage!HistoryKept BY DEF UsageInv
<1>. QED BY <1>1, <1>2, <1>3, PTL DEF Usage!Spec
-----------------------------------------------------------------------------
(***************************************************************************)
(* The conversations.  A transcript waits either for the model, and then   *)
(* the operator spoke last, or for the operator; and a proposal that was   *)
(* valid is still, but for the hosts that were written beside it.          *)
(***************************************************************************)

Speakers == {"user", "assistant"}

Typed(t) ==
    t \in [at : {"closed", "asking", "calling", "confirming"}, kind : {"chat", "onboard"},
          policy : Interview!Policies, lines : Seq(Speakers), turns : 0 .. MaxTurns,
          failures : 0 .. MaxParse - 1, wants : Interview!Proposals \cup {None},
          beside : SUBSET Interview!Ids, last : {t.last}]

(* Of a transcript that waits for nobody's answer, the model's line is the *)
(* last one.                                                               *)
Alternates(t) ==
    /\ \A i \in 1 .. Len(t.lines) - 1 : t.lines[i] # t.lines[i + 1]
    /\ t.at = "calling" => t.lines # <<>> /\ t.lines[Len(t.lines)] = "user"
    /\ t.at \in {"asking", "confirming"} /\ t.lines # <<>> => t.lines[Len(t.lines)] = "assistant"

(* The model is called while there are turns left; a chat counts none.     *)
InTime(t) ==
    /\ t.at = "calling" => t.turns < MaxTurns
    /\ t.kind = "chat" => t.turns = 0

(* A host like the one that is to be confirmed was written beside it.      *)
Beside(t) ==
    t.at = "confirming" =>
        /\ t.wants \in Interview!Proposals
        /\ \A h \in hosts : h.name = t.wants.name \/ (t.wants.ip # None /\ h.ip = t.wants.ip)
                              => h.id \in t.beside

TalkOK(t) == Typed(t) /\ Alternates(t) /\ InTime(t) /\ Beside(t)

(* The inductive invariant.                                                *)
InterviewInv ==
    /\ roster \in Rosters /\ raced \subseteq SUBSET Interview!Ids
    /\ \A h \in hosts : h.id \in 1 .. MaxIds /\ h.name \in Names /\ h.ip \in Addresses \cup {None}
    /\ talk = [s \in Sessions |-> talk[s]] /\ \A s \in Sessions : TalkOK(talk[s])
    /\ Interview!HostsAreDistinct
-----------------------------------------------------------------------------
(* Saying something, and taking back what was said last.                   *)
LEMMA Said ==
    ASSUME NEW l \in Seq(Speakers), \A i \in 1 .. Len(l) - 1 : l[i] # l[i + 1],
           NEW who \in Speakers, l = <<>> \/ l[Len(l)] # who
    PROVE  /\ Append(l, who) \in Seq(Speakers) /\ Append(l, who) # <<>>
           /\ Append(l, who)[Len(Append(l, who))] = who
           /\ \A i \in 1 .. Len(Append(l, who)) - 1 : Append(l, who)[i] # Append(l, who)[i + 1]
<1>. DEFINE m == Append(l, who)
<1>1. Len(l) \in Nat /\ m \in Seq(Speakers) /\ Len(m) = Len(l) + 1 /\ m[Len(l) + 1] = who OBVIOUS
<1>2. \A i \in 1 .. Len(l) : m[i] = l[i] OBVIOUS
<1>3. \A i \in 1 .. Len(l) - 1 : m[i] # m[i + 1]
  <2>. SUFFICES ASSUME NEW i \in 1 .. Len(l) - 1 PROVE m[i] # m[i + 1] OBVIOUS
  <2>1. i \in 1 .. Len(l) /\ i + 1 \in 1 .. Len(l) /\ l[i] # l[i + 1] BY <1>1
  <2>. QED BY <1>2, <2>1
<1>4. Len(l) # 0 => m[Len(l)] # m[Len(l) + 1]
  <2>1. Len(l) # 0 => l # <<>> /\ Len(l) \in 1 .. Len(l) BY <1>1
  <2>. QED BY <1>1, <1>2, <2>1
<1>. HIDE DEF m
<1>5. \A i \in 1 .. Len(m) - 1 : m[i] # m[i + 1]
  <2>. SUFFICES ASSUME NEW i \in 1 .. Len(m) - 1 PROVE m[i] # m[i + 1] OBVIOUS
  <2>1. i \in 1 .. Len(l) - 1 \/ (i = Len(l) /\ Len(l) # 0) BY <1>1
  <2>. QED BY <1>3, <1>4, <2>1
<1>6. m # <<>> /\ m[Len(m)] = who BY <1>1
<1>. QED BY <1>1, <1>5, <1>6 DEF m

LEMMA TakenBack ==
    ASSUME NEW l \in Seq(Speakers), \A i \in 1 .. Len(l) - 1 : l[i] # l[i + 1],
           l # <<>>, l[Len(l)] = "user"
    PROVE  LET f == Interview!Front(l) IN
           /\ f \in Seq(Speakers) /\ (f # <<>> => f[Len(f)] = "assistant")
           /\ \A i \in 1 .. Len(f) - 1 : f[i] # f[i + 1]
<1>. DEFINE f == Interview!Front(l)
<1>1. Len(l) \in Nat \ {0} OBVIOUS
<1>2. f \in Seq(Speakers) /\ Len(f) = Len(l) - 1 /\ \A i \in 1 .. Len(f) : f[i] = l[i]
  <2>1. f = SubSeq(l, 1, Len(l) - 1) BY DEF Interview!Front
  <2>2. Len(l) - 1 \in Nat BY <1>1
  <2>2a. PICK n \in Nat : n = Len(l) - 1 BY <2>2
  <2>3. \A i \in 1 .. n : l[i] \in Speakers BY <1>1, <2>2a
  <2>4. /\ SubSeq(l, 1, n) \in Seq(Speakers) /\ Len(SubSeq(l, 1, n)) = (IF 1 <= n THEN n - 1 + 1 ELSE 0)
        /\ \A i \in 1 .. n - 1 + 1 : SubSeq(l, 1, n)[i] = l[1 + i - 1]
    BY <2>3, SubSeqProperties
  <2>5. SubSeq(l, 1, n) \in Seq(Speakers) /\ Len(SubSeq(l, 1, n)) = n /\ \A i \in 1 .. n : SubSeq(l, 1, n)[i] = l[i]
    BY <2>4
  <2>. QED BY <2>1, <2>2a, <2>5
<1>. HIDE DEF f
<1>3. f # <<>> => f[Len(f)] = "assistant"
  <2>. SUFFICES ASSUME f # <<>> PROVE f[Len(f)] = "assistant" OBVIOUS
  <2>1. Len(f) \in 1 .. Len(l) - 1 BY <1>1, <1>2
  <2>2. l[Len(f)] # "user" BY <1>2, <2>1
  <2>3. f[Len(f)] = l[Len(f)] /\ l[Len(f)] \in Speakers BY <1>2, <2>1
  <2>. QED BY <2>2, <2>3 DEF Speakers
<1>4. \A i \in 1 .. Len(f) - 1 : f[i] # f[i + 1] BY <1>1, <1>2
<1>. QED BY <1>2, <1>3, <1>4 DEF f
-----------------------------------------------------------------------------
(* What may become of a conversation, hosts or no hosts.                   *)
LEMMA ClosedOK ==
    ASSUME Interview!InterviewAssumption
    PROVE  TalkOK(Interview!Closed)
<1>. DEFINE c == Interview!Closed
<1>1. c = [at |-> "closed", kind |-> "chat", policy |-> "open", lines |-> <<>>, turns |-> 0,
           failures |-> 0, wants |-> None, beside |-> {}, last |-> Interview!Unasked]
  BY DEF Interview!Closed
<1>. HIDE DEF c
<1>2. Typed(c) BY <1>1 DEF Typed, Interview!InterviewAssumption, Interview!Policies
<1>3. Alternates(c) BY <1>1 DEF Alternates
<1>4. InTime(c) /\ Beside(c) BY <1>1 DEF InTime, Beside
<1>. QED BY <1>2, <1>3, <1>4 DEF TalkOK, c

LEMMA EndedOK ==
    ASSUME Interview!InterviewAssumption, NEW t, t.policy \in Interview!Policies
    PROVE  TalkOK(Interview!Ended(t)) /\ Interview!Ended(t).at = "closed"
<1>. DEFINE c == Interview!Closed
            e == [c EXCEPT !.policy = t.policy, !.last = t.last]
<1>1. Typed(c) /\ c.at = "closed" /\ c.kind = "chat" /\ c.lines = <<>> /\ c.turns = 0
  BY ClosedOK DEF TalkOK, Interview!Closed
<1>2. Interview!Ended(t) = e BY DEF Interview!Ended
<1>. HIDE DEF c
<1>3. Typed(e) /\ e.at = "closed" /\ e.kind = "chat" /\ e.lines = <<>> /\ e.turns = 0 BY <1>1 DEF Typed
<1>. HIDE DEF e
<1>4. Alternates(e) BY <1>3 DEF Alternates
<1>5. InTime(e) /\ Beside(e) BY <1>3 DEF InTime, Beside
<1>. QED BY <1>2, <1>3, <1>4, <1>5 DEF TalkOK

(* A line is said that follows the one before it.                          *)
Follows(t, who) == t.lines = <<>> \/ t.lines[Len(t.lines)] # who

LEMMA SaysOK ==
    ASSUME NEW t, Typed(t), NEW who \in Speakers, Follows(t, who),
           \A i \in 1 .. Len(t.lines) - 1 : t.lines[i] # t.lines[i + 1]
    PROVE  LET u == Interview!Says(t, who) IN
           /\ Typed(u) /\ u.at = t.at /\ u.kind = t.kind /\ u.turns = t.turns /\ u.failures = t.failures
           /\ u.policy = t.policy /\ u.lines # <<>> /\ u.lines[Len(u.lines)] = who
           /\ \A i \in 1 .. Len(u.lines) - 1 : u.lines[i] # u.lines[i + 1]
<1>. DEFINE u == Interview!Says(t, who)
<1>1. t.lines \in Seq(Speakers) BY DEF Typed
<1>2. u = [t EXCEPT !.lines = Append(t.lines, who)] BY DEF Interview!Says
<1>3. PICK l : l = Append(t.lines, who) OBVIOUS
<1>4. /\ l \in Seq(Speakers) /\ l # <<>> /\ l[Len(l)] = who
      /\ \A i \in 1 .. Len(l) - 1 : l[i] # l[i + 1]
  BY <1>1, <1>3, Said DEF Follows
<1>5. u = [t EXCEPT !.lines = l] BY <1>2, <1>3
<1>. HIDE DEF u
<1>6. /\ Typed(u) /\ u.at = t.at /\ u.kind = t.kind /\ u.turns = t.turns /\ u.failures = t.failures
      /\ u.policy = t.policy /\ u.lines = l
  BY <1>4, <1>5 DEF Typed
<1>. QED BY <1>4, <1>6 DEF u

(* The next turn, after the operator or the harness has spoken.            *)
LEMMA TurnOK ==
    ASSUME Interview!InterviewAssumption, NEW u, Typed(u), u.kind = "chat" => u.turns = 0,
           u.lines # <<>>, u.lines[Len(u.lines)] = "user",
           \A i \in 1 .. Len(u.lines) - 1 : u.lines[i] # u.lines[i + 1]
    PROVE  TalkOK(Interview!Turn(u)) /\ Interview!Turn(u).at # "confirming"
<1>. DEFINE t == Interview!Turn(u)
<1>1. CASE u.turns < MaxTurns
  <2>1. t = [u EXCEPT !.at = "calling", !.wants = None, !.beside = {}] BY <1>1 DEF Interview!Turn
  <2>. HIDE DEF t
  <2>2. Typed(t) /\ t.at = "calling" /\ t.kind = u.kind /\ t.lines = u.lines /\ t.turns = u.turns
    BY <2>1 DEF Typed
  <2>3. Alternates(t) BY <2>2 DEF Alternates
  <2>4. InTime(t) /\ Beside(t) BY <1>1, <2>2 DEF InTime, Beside
  <2>. QED BY <2>2, <2>3, <2>4 DEF TalkOK, t
<1>2. CASE ~(u.turns < MaxTurns)
  <2>1. t = Interview!Ended(u) BY <1>2 DEF Interview!Turn
  <2>2. u.policy \in Interview!Policies BY DEF Typed
  <2>. QED BY <2>1, <2>2, EndedOK
<1>. QED BY <1>1, <1>2

(* A conversation moves while the hosts stay.                              *)
LEMMA Moved ==
    ASSUME InterviewInv, NEW s \in Sessions, NEW t, TalkOK(t), Interview!Becomes(s, t),
           UNCHANGED <<roster, hosts, raced>>
    PROVE  InterviewInv'
<1>1. roster' = roster /\ hosts' = hosts /\ raced' = raced OBVIOUS
<1>2. talk' = [talk EXCEPT ![s] = t] BY DEF Interview!Becomes
<1>3. talk' = [o \in Sessions |-> talk'[o]] /\ \A o \in Sessions : talk'[o] = IF o = s THEN t ELSE talk[o]
  BY <1>2 DEF InterviewInv
<1>4. \A o \in Sessions : TalkOK(talk'[o]) BY <1>3 DEF InterviewInv
<1>5. Interview!Ids' = Interview!Ids BY <1>1 DEF Interview!Ids
<1>6. \A o \in Sessions : TalkOK(talk[o])'
  <2>. SUFFICES ASSUME NEW o \in Sessions PROVE TalkOK(talk[o])' OBVIOUS
  <2>1. TalkOK(talk'[o]) BY <1>4
  <2>2. Typed(talk[o])' BY <1>5, <2>1 DEF TalkOK, Typed
  <2>3. Beside(talk[o])' BY <1>1, <2>1 DEF TalkOK, Beside
  <2>4. Alternates(talk[o])' /\ InTime(talk[o])' BY <2>1 DEF TalkOK, Alternates, InTime
  <2>. QED BY <2>2, <2>3, <2>4 DEF TalkOK
<1>7. Interview!HostsAreDistinct' BY <1>1 DEF InterviewInv, Interview!HostsAreDistinct
<1>. QED BY <1>1, <1>3, <1>5, <1>6, <1>7 DEF InterviewInv

LEMMA Known ==
    ASSUME InterviewInv, NEW s \in Sessions
    PROVE  TalkOK(talk[s]) /\ Typed(talk[s]) /\ Alternates(talk[s]) /\ InTime(talk[s])
BY DEF InterviewInv, TalkOK

LEMMA Opens ==
    ASSUME Interview!InterviewAssumption, InterviewInv, NEW s \in Sessions,
           Interview!Chat(s) \/ Interview!Onboard(s) \/ Interview!Leave(s)
    PROVE  InterviewInv'
<1>1. TalkOK(Interview!Closed) BY ClosedOK
<1>. DEFINE c == Interview!Closed
<1>2. c.at = "closed" /\ c.kind = "chat" /\ c.lines = <<>> /\ c.turns = 0 /\ Typed(c)
  BY <1>1 DEF Interview!Closed, TalkOK
<1>. HIDE DEF c
<1>3. CASE Interview!Chat(s)
  <2>1. PICK policy \in Interview!Policies : Interview!Becomes(s, [c EXCEPT !.at = "asking", !.policy = policy])
    BY <1>3 DEF Interview!Chat, c
  <2>2. PICK t : t = [c EXCEPT !.at = "asking", !.policy = policy] OBVIOUS
  <2>3. Typed(t) /\ t.at = "asking" /\ t.kind = "chat" /\ t.lines = <<>> /\ t.turns = 0
    BY <1>2, <2>2 DEF Typed
  <2>4. Alternates(t) BY <2>3 DEF Alternates
  <2>5. InTime(t) /\ Beside(t) BY <2>3 DEF InTime, Beside
  <2>. QED BY <1>3, <2>1, <2>2, <2>3, <2>4, <2>5, Moved DEF TalkOK, Interview!Chat
<1>4. CASE Interview!Onboard(s)
  <2>1. PICK policy \in Interview!Policies :
          Interview!Becomes(s, [c EXCEPT !.at = "calling", !.kind = "onboard", !.policy = policy, !.lines = <<"user">>])
    BY <1>4 DEF Interview!Onboard, c
  <2>1a. "user" \in Speakers BY DEF Speakers
  <2>1b. <<"user">> \in Seq(Speakers) BY <2>1a
  <2>2. PICK l \in Seq(Speakers) : l = <<"user">> BY <2>1b
  <2>2a. PICK t : t = [c EXCEPT !.at = "calling", !.kind = "onboard", !.policy = policy, !.lines = l] OBVIOUS
  <2>3. Typed(t) /\ t.at = "calling" /\ t.kind = "onboard" /\ t.lines = <<"user">> /\ t.turns = 0
    BY <1>2, <2>2, <2>2a DEF Typed
  <2>4. Alternates(t) BY <2>3 DEF Alternates
  <2>5. InTime(t) /\ Beside(t) BY <2>3 DEF InTime, Beside, Interview!InterviewAssumption
  <2>. QED BY <1>4, <2>1, <2>2, <2>2a, <2>3, <2>4, <2>5, Moved DEF TalkOK, Interview!Onboard
<1>5. CASE Interview!Leave(s) BY <1>1, <1>5, Moved DEF Interview!Leave
<1>. QED BY <1>3, <1>4, <1>5

LEMMA Asks ==
    ASSUME Interview!InterviewAssumption, InterviewInv, NEW s \in Sessions, Interview!Ask(s)
    PROVE  InterviewInv'
<1>. DEFINE u == Interview!Says(talk[s], "user")
<1>1. talk[s].at = "asking" /\ UNCHANGED <<roster, hosts, raced>> BY DEF Interview!Ask
<1>2. Follows(talk[s], "user") BY <1>1, Known DEF Alternates, Follows
<1>3. /\ Typed(u) /\ u.at = "asking" /\ u.kind = talk[s].kind /\ u.turns = talk[s].turns
      /\ u.lines # <<>> /\ u.lines[Len(u.lines)] = "user"
      /\ \A i \in 1 .. Len(u.lines) - 1 : u.lines[i] # u.lines[i + 1]
  BY <1>1, <1>2, Known, SaysOK DEF Alternates, Speakers
<1>4. Interview!Becomes(s, IF talk[s].kind = "chat" THEN [u EXCEPT !.at = "calling"] ELSE Interview!Turn(u))
  BY DEF Interview!Ask
<1>. HIDE DEF u
<1>5. CASE talk[s].kind = "chat"
  <2>1. PICK t : t = [u EXCEPT !.at = "calling"] OBVIOUS
  <2>2. u.turns = 0 BY <1>3, <1>5, Known DEF InTime
  <2>3. Typed(t) /\ t.at = "calling" /\ t.lines = u.lines /\ t.turns = 0
    BY <1>3, <2>1, <2>2 DEF Typed
  <2>4. Alternates(t) BY <1>3, <2>3 DEF Alternates
  <2>5. InTime(t) /\ Beside(t) BY <2>3 DEF InTime, Beside, Interview!InterviewAssumption
  <2>. QED BY <1>1, <1>4, <1>5, <2>1, <2>3, <2>4, <2>5, Moved DEF TalkOK
<1>6. CASE talk[s].kind # "chat"
  <2>1. TalkOK(Interview!Turn(u)) BY <1>3, <1>6, TurnOK
  <2>. QED BY <1>1, <1>4, <1>6, <2>1, Moved
<1>. QED BY <1>5, <1>6

LEMMA Replies ==
    ASSUME NEW policy, NEW r \in Interview!Complete(policy)
    PROVE  r.how \in {"text", "raised", "refused"}
BY DEF Interview!Complete, Interview!Replied

LEMMA ChatTurns ==
    ASSUME Interview!InterviewAssumption, InterviewInv, NEW s \in Sessions, Interview!ChatTurn(s)
    PROVE  InterviewInv'
<1>1. talk[s].at = "calling" /\ talk[s].kind = "chat" /\ UNCHANGED <<roster, hosts, raced>> BY DEF Interview!ChatTurn
<1>2. PICK r \in Interview!Complete(talk[s].policy) :
        Interview!Becomes(s, LET t == [talk[s] EXCEPT !.last = r, !.at = "asking"]
                             IN CASE r.how = "text"    -> Interview!Says(t, "assistant")
                                  [] r.how = "refused" -> Interview!Forgets(t)
                                  [] r.how = "raised"  -> Interview!Ended(t))
  BY DEF Interview!ChatTurn
<1>3. PICK t : t = [talk[s] EXCEPT !.last = r, !.at = "asking"] OBVIOUS
<1>4. /\ Typed(t) /\ t.at = "asking" /\ t.kind = "chat" /\ t.turns = 0 /\ t.lines = talk[s].lines
      /\ t.policy \in Interview!Policies
  BY <1>1, <1>3, Known DEF Typed, InTime
<1>5. /\ \A i \in 1 .. Len(t.lines) - 1 : t.lines[i] # t.lines[i + 1]
      /\ t.lines # <<>> /\ t.lines[Len(t.lines)] = "user" /\ t.lines \in Seq(Speakers)
  BY <1>1, <1>4, Known DEF Alternates, Typed
<1>6. CASE r.how = "text"
  <2>1. PICK u : u = Interview!Says(t, "assistant") OBVIOUS
  <2>2. Interview!Becomes(s, u) BY <1>2, <1>3, <1>6, <2>1
  <2>3. /\ Typed(u) /\ u.at = "asking" /\ u.turns = 0 /\ u.lines # <<>> /\ u.lines[Len(u.lines)] = "assistant"
        /\ \A i \in 1 .. Len(u.lines) - 1 : u.lines[i] # u.lines[i + 1]
    BY <1>4, <1>5, <2>1, SaysOK DEF Speakers, Follows
  <2>4. Alternates(u) /\ InTime(u) /\ Beside(u) BY <2>3 DEF Alternates, InTime, Beside
  <2>. QED BY <1>1, <2>2, <2>3, <2>4, Moved DEF TalkOK
<1>7. CASE r.how = "refused"
  <2>1. PICK u : u = Interview!Forgets(t) OBVIOUS
  <2>2. Interview!Becomes(s, u) BY <1>2, <1>3, <1>7, <2>1
  <2>3. PICK f : f = Interview!Front(t.lines) OBVIOUS
  <2>4. /\ f \in Seq(Speakers) /\ (f # <<>> => f[Len(f)] = "assistant")
        /\ \A i \in 1 .. Len(f) - 1 : f[i] # f[i + 1]
    BY <1>5, <2>3, TakenBack
  <2>5. u = [t EXCEPT !.lines = f] BY <2>1, <2>3 DEF Interview!Forgets
  <2>6. Typed(u) /\ u.at = "asking" /\ u.turns = 0 /\ u.lines = f BY <1>4, <2>4, <2>5 DEF Typed
  <2>7. Alternates(u) /\ InTime(u) /\ Beside(u) BY <2>4, <2>6 DEF Alternates, InTime, Beside
  <2>. QED BY <1>1, <2>2, <2>6, <2>7, Moved DEF TalkOK
<1>8. CASE r.how = "raised"
  <2>1. Interview!Becomes(s, Interview!Ended(t)) BY <1>2, <1>3, <1>8
  <2>. QED BY <1>1, <1>4, <2>1, EndedOK, Moved
<1>. QED BY <1>6, <1>7, <1>8, Replies

LEMMA NoAnswers ==
    ASSUME Interview!InterviewAssumption, InterviewInv, NEW s \in Sessions, Interview!NoAnswer(s)
    PROVE  InterviewInv'
<1>1. UNCHANGED <<roster, hosts, raced>> BY DEF Interview!NoAnswer
<1>2. PICK r : Interview!Becomes(s, Interview!Ended([talk[s] EXCEPT !.last = r])) BY DEF Interview!NoAnswer
<1>3. [talk[s] EXCEPT !.last = r].policy \in Interview!Policies BY Known DEF Typed
<1>. QED BY <1>1, <1>2, <1>3, EndedOK, Moved

(* What the model has said is heard before it is read.                     *)
Hears(t, r) == [Interview!Says(t, "assistant") EXCEPT !.turns = @ + 1, !.last = r]

LEMMA Heard ==
    ASSUME Interview!InterviewAssumption, InterviewInv, NEW s \in Sessions, NEW r,
           talk[s].at = "calling", talk[s].kind = "onboard"
    PROVE  LET h == Hears(talk[s], r) IN
           /\ Typed(h) /\ h.failures = talk[s].failures /\ h.kind = "onboard"
           /\ h.lines # <<>> /\ h.lines[Len(h.lines)] = "assistant"
           /\ \A i \in 1 .. Len(h.lines) - 1 : h.lines[i] # h.lines[i + 1]
<1>. PICK g : g = Interview!Says(talk[s], "assistant") OBVIOUS
<1>1. /\ Typed(g) /\ g.kind = "onboard" /\ g.turns = talk[s].turns /\ g.failures = talk[s].failures
      /\ g.lines # <<>> /\ g.lines[Len(g.lines)] = "assistant"
      /\ \A i \in 1 .. Len(g.lines) - 1 : g.lines[i] # g.lines[i + 1]
  BY Known, SaysOK DEF Speakers, Follows, Alternates
<1>2. g.turns + 1 \in 0 .. MaxTurns BY <1>1, Known DEF InTime, Typed, Interview!InterviewAssumption
<1>3. PICK h : h = Hears(talk[s], r) OBVIOUS
<1>4. h = [g EXCEPT !.turns = @ + 1, !.last = r] BY <1>3 DEF Hears
<1>5. Typed(h) /\ h.kind = "onboard" /\ h.lines = g.lines /\ h.failures = talk[s].failures
  BY <1>1, <1>2, <1>4 DEF Typed
<1>. QED BY <1>1, <1>3, <1>5

(* The harness or the operator answers the model, and the next turn comes. *)
LEMMA Answers ==
    ASSUME Interview!InterviewAssumption, NEW t, Typed(t), t.kind = "chat" => t.turns = 0,
           t.lines # <<>> => t.lines[Len(t.lines)] = "assistant",
           \A i \in 1 .. Len(t.lines) - 1 : t.lines[i] # t.lines[i + 1]
    PROVE  LET u == Interview!Turn(Interview!Says(t, "user")) IN TalkOK(u) /\ u.at # "confirming"
<1>. PICK u : u = Interview!Says(t, "user") OBVIOUS
<1>1. /\ Typed(u) /\ u.kind = t.kind /\ u.turns = t.turns /\ u.lines # <<>> /\ u.lines[Len(u.lines)] = "user"
      /\ \A i \in 1 .. Len(u.lines) - 1 : u.lines[i] # u.lines[i + 1]
  BY SaysOK DEF Speakers, Follows
<1>. QED BY <1>1, TurnOK

LEMMA ModelTurns ==
    ASSUME Interview!InterviewAssumption, InterviewInv, NEW s \in Sessions, Interview!ModelTurn(s)
    PROVE  InterviewInv'
<1>1. /\ talk[s].at = "calling" /\ talk[s].kind = "onboard"
      /\ UNCHANGED <<roster, hosts, raced>>
  BY DEF Interview!ModelTurn
<1>. DEFINE Read(r) == [Hears(talk[s], r) EXCEPT !.failures = 0]
            Garbled(r) == [Hears(talk[s], r) EXCEPT !.failures = @ + 1]
<1>2. PICK r :
        \/ Interview!Becomes(s, IF Garbled(r).failures >= MaxParse THEN Interview!Ended(Garbled(r))
                                ELSE Interview!Turn(Interview!Says(Garbled(r), "user")))
        \/ \E p \in Interview!Proposals :
             Interview!Becomes(s, IF Interview!Valid(p) THEN [Read(r) EXCEPT !.at = "confirming", !.wants = p, !.beside = {}]
                                 ELSE Interview!Turn(Interview!Says(Read(r), "user")))
        \/ Interview!Becomes(s, Interview!Ended(Read(r)))
        \/ Interview!Becomes(s, [Read(r) EXCEPT !.at = "asking"])
  BY DEF Interview!ModelTurn, Hears
<1>3. PICK h : h = Hears(talk[s], r) OBVIOUS
<1>4. PICK g : g = [h EXCEPT !.failures = @ + 1] OBVIOUS
<1>5. PICK d : d = [h EXCEPT !.failures = 0] OBVIOUS
<1>6. /\ Typed(h) /\ h.failures = talk[s].failures /\ h.kind = "onboard"
      /\ h.lines # <<>> /\ h.lines[Len(h.lines)] = "assistant"
      /\ \A i \in 1 .. Len(h.lines) - 1 : h.lines[i] # h.lines[i + 1]
  BY <1>1, <1>3, Heard
<1>6a. 0 \in 0 .. MaxParse - 1 BY DEF Interview!InterviewAssumption
<1>7. Typed(d) /\ d.kind = "onboard" /\ d.lines = h.lines BY <1>5, <1>6, <1>6a DEF Typed
<1>8. \/ Interview!Becomes(s, IF g.failures >= MaxParse THEN Interview!Ended(g)
                              ELSE Interview!Turn(Interview!Says(g, "user")))
      \/ \E p \in Interview!Proposals :
           Interview!Becomes(s, IF Interview!Valid(p) THEN [d EXCEPT !.at = "confirming", !.wants = p, !.beside = {}]
                               ELSE Interview!Turn(Interview!Says(d, "user")))
      \/ Interview!Becomes(s, Interview!Ended(d))
      \/ Interview!Becomes(s, [d EXCEPT !.at = "asking"])
  BY <1>2, <1>3, <1>4, <1>5
<1>. HIDE DEF Read, Garbled
<1>9. CASE Interview!Becomes(s, IF g.failures >= MaxParse THEN Interview!Ended(g)
                              ELSE Interview!Turn(Interview!Says(g, "user")))
  <2>1. /\ g.policy \in Interview!Policies /\ g.failures = talk[s].failures + 1
        /\ g.kind = "onboard" /\ g.lines = h.lines
    BY <1>4, <1>6 DEF Typed
  <2>2. CASE g.failures >= MaxParse BY <1>1, <1>9, <2>1, <2>2, EndedOK, Moved
  <2>3. CASE ~(g.failures >= MaxParse)
    <3>1. g.failures \in 0 .. MaxParse - 1 BY <2>1, <2>3, Known DEF Typed, Interview!InterviewAssumption
    <3>2. Typed(g) BY <1>4, <1>6, <2>1, <3>1 DEF Typed
    <3>5. TalkOK(Interview!Turn(Interview!Says(g, "user"))) BY <1>6, <2>1, <3>2, Answers
    <3>. QED BY <1>1, <1>9, <2>3, <3>5, Moved
  <2>. QED BY <2>2, <2>3
<1>10. ASSUME NEW p \in Interview!Proposals,
              Interview!Becomes(s, IF Interview!Valid(p) THEN [d EXCEPT !.at = "confirming", !.wants = p, !.beside = {}]
                                   ELSE Interview!Turn(Interview!Says(d, "user")))
       PROVE  InterviewInv'
  <2>1. CASE Interview!Valid(p)
    <3>1. PICK t : t = [d EXCEPT !.at = "confirming", !.wants = p, !.beside = {}] OBVIOUS
    <3>2. /\ Typed(t) /\ t.at = "confirming" /\ t.kind = "onboard" /\ t.lines = d.lines
          /\ t.wants = p /\ t.beside = {}
      BY <1>7, <3>1 DEF Typed
    <3>3. Alternates(t) /\ InTime(t) BY <1>6, <1>7, <3>2 DEF Alternates, InTime
    <3>4. Beside(t) BY <2>1, <3>2 DEF Beside, Interview!Valid, Interview!Known
    <3>. QED BY <1>1, <1>10, <2>1, <3>1, <3>2, <3>3, <3>4, Moved DEF TalkOK
  <2>2. CASE ~Interview!Valid(p)
    <3>1. TalkOK(Interview!Turn(Interview!Says(d, "user"))) BY <1>6, <1>7, Answers
    <3>. QED BY <1>1, <1>10, <2>2, <3>1, Moved
  <2>. QED BY <2>1, <2>2
<1>11. CASE Interview!Becomes(s, Interview!Ended(d))
  <2>1. d.policy \in Interview!Policies BY <1>7 DEF Typed
  <2>. QED BY <1>1, <1>11, <2>1, EndedOK, Moved
<1>12. CASE Interview!Becomes(s, [d EXCEPT !.at = "asking"])
  <2>1. PICK t : t = [d EXCEPT !.at = "asking"] OBVIOUS
  <2>2. Typed(t) /\ t.at = "asking" /\ t.kind = "onboard" /\ t.lines = d.lines BY <1>7, <2>1 DEF Typed
  <2>3. Alternates(t) /\ InTime(t) /\ Beside(t) BY <1>6, <1>7, <2>2 DEF Alternates, InTime, Beside
  <2>. QED BY <1>1, <1>12, <2>1, <2>2, <2>3, Moved DEF TalkOK
<1>. QED BY <1>8, <1>9, <1>10, <1>11, <1>12

LEMMA Declines ==
    ASSUME Interview!InterviewAssumption, InterviewInv, NEW s \in Sessions, Interview!Decline(s)
    PROVE  InterviewInv'
<1>1. /\ talk[s].at = "confirming" /\ UNCHANGED <<roster, hosts, raced>>
      /\ Interview!Becomes(s, Interview!Turn(Interview!Says(talk[s], "user")))
  BY DEF Interview!Decline
<1>2. TalkOK(Interview!Turn(Interview!Says(talk[s], "user")))
  BY <1>1, Known, Answers DEF Alternates, InTime
<1>. QED BY <1>1, <1>2, Moved

(* A host is written: beside it, at the other prompts, it is remembered.   *)
LEMMA Registers ==
    ASSUME Interview!InterviewAssumption, InterviewInv, NEW s \in Sessions, Interview!Register(s)
    PROVE  InterviewInv'
<1>. DEFINE w == talk[s].wants
            t == Interview!Turn(Interview!Says(talk[s], "user"))
<1>1. talk[s].at = "confirming" /\ roster' = roster BY DEF Interview!Register
<1>2. PICK id \in (1 .. MaxIds) \ Interview!Ids :
        /\ hosts' = hosts \cup {[id |-> id, name |-> w.name, ip |-> w.ip]}
        /\ raced' = raced \cup {{id, b} : b \in talk[s].beside}
        /\ talk' = [o \in Sessions |->
                      IF o = s THEN t
                      ELSE IF talk[o].at = "confirming" THEN [talk[o] EXCEPT !.beside = @ \cup {id}]
                      ELSE talk[o]]
  BY DEF Interview!Register
<1>3. TalkOK(t) /\ t.at # "confirming" BY <1>1, Known, Answers DEF Alternates, InTime
<1>. HIDE DEF t
<1>4. Interview!Ids' = Interview!Ids \cup {id}
  <2>1. Interview!Ids' = {h.id : h \in hosts'} BY DEF Interview!Ids
  <2>2. PICK new : new = [id |-> id, name |-> w.name, ip |-> w.ip] OBVIOUS
  <2>3. hosts' = hosts \cup {new} /\ new.id = id BY <1>2, <2>2
  <2>. QED BY <2>1, <2>3 DEF Interview!Ids
<1>5. w \in Interview!Proposals /\ w.name \in Names /\ w.ip \in Addresses \cup {None}
  BY <1>1, Known DEF TalkOK, Beside, Interview!Proposals
<1>6. \A h \in hosts : h.name = w.name \/ (w.ip # None /\ h.ip = w.ip) => h.id \in talk[s].beside
  BY <1>1, Known DEF TalkOK, Beside
<1>7. \A h \in hosts' : h.id \in 1 .. MaxIds /\ h.name \in Names /\ h.ip \in Addresses \cup {None}
  BY <1>2, <1>5 DEF InterviewInv
<1>8. talk[s].beside \subseteq Interview!Ids BY Known DEF Typed
<1>9. raced' \subseteq SUBSET Interview!Ids'
  <2>1. raced \subseteq SUBSET Interview!Ids BY DEF InterviewInv
  <2>2. \A b \in talk[s].beside : {id, b} \subseteq Interview!Ids' BY <1>4, <1>8
  <2>. QED BY <1>2, <1>4, <2>1, <2>2
<1>10. Interview!HostsAreDistinct'
  <2>. SUFFICES ASSUME NEW h \in hosts', NEW k \in hosts', h.id # k.id,
                       h.name = k.name \/ (h.ip = k.ip /\ h.ip # None)
                PROVE  {h.id, k.id} \in raced'
    BY DEF Interview!HostsAreDistinct
  <2>. DEFINE new == [id |-> id, name |-> w.name, ip |-> w.ip]
  <2>1. new.id = id /\ new.name = w.name /\ new.ip = w.ip OBVIOUS
  <2>2. h \in hosts \/ h = new BY <1>2
  <2>3. k \in hosts \/ k = new BY <1>2
  <2>4. CASE h \in hosts /\ k \in hosts
    <3>1. {h.id, k.id} \in raced BY <2>4 DEF InterviewInv, Interview!HostsAreDistinct
    <3>. QED BY <1>2, <3>1
  <2>. HIDE DEF new
  <2>5. CASE h = new /\ k \in hosts
    <3>1. k.id \in talk[s].beside BY <1>6, <2>1, <2>5
    <3>2. {id, k.id} \in raced' BY <1>2, <3>1
    <3>. QED BY <2>1, <2>5, <3>2
  <2>6. CASE h \in hosts /\ k = new
    <3>1. h.id \in talk[s].beside BY <1>6, <2>1, <2>6
    <3>2. {id, h.id} \in raced' BY <1>2, <3>1
    <3>3. {id, h.id} = {h.id, k.id} BY <2>1, <2>6
    <3>. QED BY <3>2, <3>3
  <2>. QED BY <2>2, <2>3, <2>4, <2>5, <2>6
<1>11. ASSUME NEW o \in Sessions PROVE TalkOK(talk[o])'
  <2>1. CASE o = s
    <3>1. talk'[o] = t BY <1>2, <2>1
    <3>2. Typed(talk[o])' BY <1>3, <1>4, <3>1 DEF TalkOK, Typed
    <3>3. Alternates(talk[o])' /\ InTime(talk[o])' BY <1>3, <3>1 DEF TalkOK, Alternates, InTime
    <3>4. Beside(talk[o])' BY <1>3, <3>1 DEF Beside
    <3>. QED BY <3>2, <3>3, <3>4 DEF TalkOK
  <2>2. CASE o # s /\ talk[o].at = "confirming"
    <3>1. talk'[o] = [talk[o] EXCEPT !.beside = @ \cup {id}] BY <1>2, <2>2
    <3>2. Typed(talk[o]) BY Known
    <3>3. /\ Typed(talk[o])' /\ talk'[o].at = "confirming" /\ talk'[o].kind = talk[o].kind
          /\ talk'[o].lines = talk[o].lines /\ talk'[o].turns = talk[o].turns
          /\ talk'[o].wants = talk[o].wants /\ talk'[o].beside = talk[o].beside \cup {id}
      BY <1>4, <2>2, <3>1, <3>2 DEF Typed
    <3>4. Alternates(talk[o])' /\ InTime(talk[o])' BY <2>2, <3>3, Known DEF Alternates, InTime
    <3>5. Beside(talk[o])
      BY Known DEF TalkOK
    <3>6. Beside(talk[o])'
      BY <1>2, <2>2, <3>3, <3>5 DEF Beside
    <3>. QED BY <3>3, <3>4, <3>6 DEF TalkOK
  <2>3. CASE o # s /\ talk[o].at # "confirming"
    <3>1. talk'[o] = talk[o] BY <1>2, <2>3
    <3>2. Typed(talk[o])' BY <1>4, <3>1, Known DEF Typed
    <3>3. Alternates(talk[o])' /\ InTime(talk[o])' BY <3>1, Known DEF Alternates, InTime
    <3>4. Beside(talk[o])' BY <2>3, <3>1 DEF Beside
    <3>. QED BY <3>2, <3>3, <3>4 DEF TalkOK
  <2>. QED BY <2>1, <2>2, <2>3
<1>12. talk' = [o \in Sessions |-> talk'[o]] BY <1>2
<1>. QED BY <1>1, <1>7, <1>9, <1>10, <1>11, <1>12 DEF InterviewInv
-----------------------------------------------------------------------------
LEMMA InterviewStarts ==
    ASSUME Interview!InterviewAssumption, Interview!Init
    PROVE  InterviewInv
<1>1. /\ roster \in Rosters /\ hosts = {} /\ raced = {} /\ talk = [s \in Sessions |-> Interview!Closed]
  BY DEF Interview!Init
<1>2. \A s \in Sessions : TalkOK(talk[s]) BY <1>1, ClosedOK
<1>3. talk = [s \in Sessions |-> talk[s]] BY <1>1
<1>. QED BY <1>1, <1>2, <1>3 DEF InterviewInv, Interview!HostsAreDistinct

LEMMA InterviewGoesOn ==
    ASSUME Interview!InterviewAssumption, InterviewInv, [Interview!Next]_(Interview!vars)
    PROVE  InterviewInv'
<1>1. CASE Interview!Next
  <2>. PICK s \in Sessions :
        \/ Interview!Chat(s) \/ Interview!Onboard(s) \/ Interview!Ask(s) \/ Interview!Leave(s)
        \/ Interview!ChatTurn(s) \/ Interview!NoAnswer(s) \/ Interview!ModelTurn(s)
        \/ Interview!Decline(s) \/ Interview!Register(s)
    BY <1>1 DEF Interview!Next
  <2>. QED BY Opens, Asks, ChatTurns, NoAnswers, ModelTurns, Declines, Registers
<1>2. CASE UNCHANGED Interview!vars
  <2>1. roster' = roster /\ hosts' = hosts /\ talk' = talk /\ raced' = raced BY <1>2 DEF Interview!vars
  <2>2. Interview!Ids' = Interview!Ids BY <2>1 DEF Interview!Ids
  <2>3. ASSUME NEW s \in Sessions PROVE TalkOK(talk[s])'
    BY <2>1, <2>2, Known DEF TalkOK, Typed, Alternates, InTime, Beside
  <2>. QED BY <2>1, <2>2, <2>3 DEF InterviewInv, Interview!HostsAreDistinct
<1>. QED BY <1>1, <1>2

LEMMA Conversed ==
    ASSUME Interview!InterviewAssumption
    PROVE  Interview!Spec => []InterviewInv
<1>1. Interview!Init => InterviewInv BY InterviewStarts
<1>2. InterviewInv /\ [Interview!Next]_(Interview!vars) => InterviewInv' BY InterviewGoesOn
<1>. QED BY <1>1, <1>2, PTL DEF Interview!Spec

(* Whatever the model replies, refuses or garbles and whatever the         *)
(* operator declines, it is asked with a transcript in which the speakers  *)
(* alternate and the operator, or the harness for him, has spoken last;    *)
(* the interview ends within its turns.  For every roster of backends,     *)
(* number of terminals and bound on the turns.                             *)
THEOREM SpeakersTakeTurns ==
    ASSUME Interview!InterviewAssumption
    PROVE  Interview!Spec => [](Interview!TypeOK /\ Interview!SpeakersAlternate)
<1>1. InterviewInv => Interview!TypeOK
  <2>. SUFFICES ASSUME InterviewInv PROVE Interview!TypeOK OBVIOUS
  <2>1. ASSUME NEW s \in Sessions
        PROVE  /\ talk[s].at \in {"closed", "asking", "calling", "confirming"}
               /\ talk[s].kind \in {"chat", "onboard"} /\ talk[s].policy \in Interview!Policies
               /\ talk[s].turns \in 0 .. MaxTurns /\ talk[s].failures \in 0 .. MaxParse
               /\ talk[s].wants \in Interview!Proposals \cup {None} /\ talk[s].beside \subseteq Interview!Ids
    <3>1. Typed(talk[s]) BY Known
    <3>2. talk[s].failures \in 0 .. MaxParse - 1 BY <3>1 DEF Typed
    <3>3. talk[s].failures \in 0 .. MaxParse BY <3>2 DEF Interview!InterviewAssumption
    <3>. QED BY <3>1, <3>3 DEF Typed
  <2>. QED BY <2>1 DEF InterviewInv, Interview!TypeOK
<1>2. InterviewInv => Interview!SpeakersAlternate
  <2>. SUFFICES ASSUME InterviewInv, NEW s \in Sessions
                PROVE  /\ \A i \in 1 .. Len(talk[s].lines) - 1 : talk[s].lines[i] # talk[s].lines[i + 1]
                       /\ talk[s].at = "calling" => Interview!Last(talk[s].lines) = "user"
    BY DEF Interview!SpeakersAlternate
  <2>. QED BY Known DEF Alternates, Interview!Last
<1>. QED BY <1>1, <1>2, Conversed, PTL

(* Two hosts share neither a name nor an address, but for two of which one *)
(* was written while the other's prompt stood open: validation looks at    *)
(* every host, and what was validated is not looked at again.              *)
THEOREM HostsStandApart ==
    ASSUME Interview!InterviewAssumption
    PROVE  Interview!Spec => []Interview!HostsAreDistinct
<1>1. InterviewInv => Interview!HostsAreDistinct BY DEF InterviewInv
<1>. QED BY <1>1, Conversed, PTL
-----------------------------------------------------------------------------
(***************************************************************************)
(* The parts.  A device that was read in full or not at all, with every    *)
(* device that shows its WWN, is found by an identity that leads to one    *)
(* row; the rows others are confused over are of other WWNs.  It is an     *)
(* invariant of the parts, the rows each device was taken for and the      *)
(* devices that were read in part (PartsOK), kept by every line of a list. *)
(***************************************************************************)

(* Lineage!Known, of whatever set of devices was read in part.             *)
Sure(d, vs) == \A e \in Devices : WwnOf[e] = WwnOf[d] => e \notin vs

(* A part that device d may be taken for.                                  *)
IsOf(p, d) ==
    /\ p.kind = KindOf[d] /\ p.wwn \in {Unread, WwnOf[d]}
    /\ p.serial # Unread => p.serial \in Devices /\ WwnOf[p.serial] = WwnOf[d]
    /\ p.wwn # Unread \/ p.serial # Unread

(* A serial leads back to its device; a WWN without a serial was read so.  *)
PartOK(p, i, rs, vs) ==
    /\ p \in Lineage!Part
    /\ p.wwn # Unread => p.kind = "disk"
    /\ p.serial # Unread => i \in rs[p.serial]
    /\ p.wwn # Unread /\ p.serial = Unread => \E e \in vs : WwnOf[e] = p.wwn

(* A device read in full has one part, and its WWN one owner.              *)
SureOK(d, ps, rs) ==
    /\ \A i \in rs[d] : ps[i].serial = d
    /\ \A i, j \in rs[d] : i = j
    /\ \A i, j \in DOMAIN ps : ps[i].wwn = WwnOf[d] /\ ps[j].wwn = WwnOf[d] => i = j
    /\ KindOf[d] = "disk" /\ rs[d] # {} => \E k \in DOMAIN ps : ps[k].wwn = WwnOf[d]

PartsOK(ps, rs, vs) ==
    /\ ps \in Seq(Lineage!Part) /\ vs \subseteq Devices
    /\ rs \in [Devices -> SUBSET DOMAIN ps]
    /\ \A i \in DOMAIN ps : PartOK(ps[i], i, rs, vs)
    /\ \A d \in Devices : \A i \in rs[d] : IsOf(ps[i], d)
    /\ \A d \in Devices : Sure(d, vs) => SureOK(d, ps, rs)

(* A part is found by the serial of d, or by its WWN.                      *)
LEMMA FoundKeepsParts ==
    ASSUME Lineage!LineageAssumption, NEW ps, NEW rs, NEW vs, PartsOK(ps, rs, vs), NEW d \in Devices,
           NEW i \in DOMAIN ps, ps[i].kind = KindOf[d],
           \/ ps[i].serial = d
           \/ /\ ps[i].wwn = WwnOf[d]
              /\ Sure(d, vs) => ps[i].serial \in {Unread, d}
    PROVE  PartsOK(ps, [rs EXCEPT ![d] = @ \cup {i}], vs)
<1>0. rs \in [Devices -> SUBSET DOMAIN ps] /\ Unread \notin Devices /\ vs \subseteq Devices
  BY DEF PartsOK, Lineage!LineageAssumption
<1>1. CASE i \in rs[d]
  <2>1. [rs EXCEPT ![d] = @ \cup {i}] = rs
    BY <1>0, <1>1
  <2> QED
    BY <2>1
<1>2. CASE i \notin rs[d]
  <2>1. PartOK(ps[i], i, rs, vs)
    BY DEF PartsOK
  <2>2. ps[i].serial # d
    BY <1>0, <1>2, <2>1 DEF PartOK
  <2>3. ps[i].wwn = WwnOf[d] /\ WwnOf[d] # Unread
    BY <2>2 DEF Lineage!LineageAssumption
  <2>4. ~Sure(d, vs)
    <3> SUFFICES ASSUME Sure(d, vs) PROVE FALSE
      OBVIOUS
    <3>1. ps[i].serial = Unread
      BY <2>2
    <3>2. PICK e \in vs : WwnOf[e] = WwnOf[d]
      BY <2>1, <2>3, <3>1 DEF PartOK
    <3> QED
      BY <1>0, <3>2 DEF Sure
  <2> DEFINE new == [rs EXCEPT ![d] = @ \cup {i}]
  <2>5. new \in [Devices -> SUBSET DOMAIN ps]
    BY <1>0
  <2>6. \A e \in Devices : rs[e] \subseteq new[e] /\ (e # d => new[e] = rs[e])
    BY <1>0
  <2>7. ASSUME NEW j \in DOMAIN ps PROVE PartOK(ps[j], j, new, vs)
    <3>1. PartOK(ps[j], j, rs, vs)
      BY DEF PartsOK
    <3>2. ps[j].serial # Unread => ps[j].serial \in Devices
      BY <3>1 DEF PartOK, Lineage!Part
    <3> QED
      BY <2>6, <3>1, <3>2 DEF PartOK
  <2>8. IsOf(ps[i], d)
    <3>1. ps[i].serial # Unread => ps[i].serial \in Devices /\ i \in rs[ps[i].serial]
      BY <2>1 DEF PartOK, Lineage!Part
    <3>2. ps[i].serial # Unread => IsOf(ps[i], ps[i].serial)
      BY <3>1 DEF PartsOK
    <3> QED
      BY <2>3, <3>1, <3>2 DEF IsOf
  <2>9. \A e \in Devices : \A j \in new[e] : IsOf(ps[j], e)
    BY <1>0, <2>6, <2>8 DEF PartsOK
  <2>10. ASSUME NEW e \in Devices, Sure(e, vs) PROVE SureOK(e, ps, new)
    <3>1. new[e] = rs[e]
      BY <2>4, <2>6, <2>10
    <3>2. SureOK(e, ps, rs)
      BY <2>10 DEF PartsOK
    <3> QED
      BY <3>1, <3>2 DEF SureOK
  <2> QED
    BY <1>0, <2>5, <2>7, <2>9, <2>10 DEF PartsOK
<1> QED
  BY <1>1, <1>2

(* The fields of a new part: those of a line of d that no part matches.    *)
NewOK(p, d, ps, vs) ==
    /\ p \in Lineage!Part /\ p.kind = KindOf[d]
    /\ p.wwn # Unread => /\ p.wwn = WwnOf[d] /\ p.kind = "disk"
                         /\ \A j \in DOMAIN ps : ps[j].kind = "disk" => ps[j].wwn # p.wwn
    /\ p.serial \in {Unread, d}
    /\ p.wwn = Unread => /\ p.serial = d
                         /\ \A j \in DOMAIN ps : ps[j].kind = p.kind => ps[j].serial # d
    /\ p.wwn # Unread /\ p.serial = Unread => d \in vs
    /\ Sure(d, vs) /\ p.kind = "disk" /\ p.wwn = Unread =>
          \E k \in DOMAIN ps : ps[k].wwn = WwnOf[d]

LEMMA NewKeepsParts ==
    ASSUME Lineage!LineageAssumption, NEW ps, NEW rs, NEW vs, PartsOK(ps, rs, vs), NEW d \in Devices,
           NEW p, NewOK(p, d, ps, vs)
    PROVE  PartsOK(Append(ps, p), [rs EXCEPT ![d] = @ \cup {Len(ps) + 1}], vs)
<1> DEFINE n   == Len(ps) + 1
           new == [rs EXCEPT ![d] = @ \cup {n}]
           qs  == Append(ps, p)
<1>0. /\ rs \in [Devices -> SUBSET DOMAIN ps] /\ Unread \notin Devices /\ vs \subseteq Devices
      /\ ps \in Seq(Lineage!Part) /\ WwnOf[d] # Unread
  BY DEF PartsOK, Lineage!LineageAssumption
<1>1. /\ qs \in Seq(Lineage!Part) /\ DOMAIN qs = DOMAIN ps \cup {n} /\ qs[n] = p
      /\ n \notin DOMAIN ps /\ \A j \in DOMAIN ps : qs[j] = ps[j]
  <2>1. p \in Lineage!Part
    BY DEF NewOK
  <2> QED
    BY <1>0, <2>1
<1>2. new \in [Devices -> SUBSET DOMAIN qs]
  BY <1>0, <1>1
<1>3. new[d] = rs[d] \cup {n} /\ \A e \in Devices : rs[e] \subseteq new[e] /\ (e # d => new[e] = rs[e])
  BY <1>0
<1> HIDE DEF n, new, qs
<1>4. PartOK(p, n, new, vs)
  BY <1>0, <1>3 DEF NewOK, PartOK
<1>5. ASSUME NEW j \in DOMAIN qs PROVE PartOK(qs[j], j, new, vs)
  <2>1. CASE j \in DOMAIN ps
    <3>1. PartOK(ps[j], j, rs, vs)
      BY <2>1 DEF PartsOK
    <3>2. ps[j].serial # Unread => ps[j].serial \in Devices
      BY <3>1 DEF PartOK, Lineage!Part
    <3> QED
      BY <1>1, <1>3, <2>1, <3>1, <3>2 DEF PartOK
  <2> QED
    BY <1>1, <1>4, <2>1
<1>6. IsOf(p, d)
  BY <1>0 DEF IsOf, NewOK
<1>7. ASSUME NEW e \in Devices, NEW j \in new[e] PROVE IsOf(qs[j], e)
  <2>1. CASE j \in rs[e]
    <3>1. j \in DOMAIN ps /\ IsOf(ps[j], e)
      BY <1>0, <2>1 DEF PartsOK
    <3> QED
      BY <1>1, <3>1
  <2>2. CASE j \notin rs[e]
    BY <1>1, <1>3, <1>6, <1>7, <2>2
  <2> QED
    BY <2>1, <2>2
<1>8. ASSUME NEW e \in Devices, Sure(e, vs) PROVE SureOK(e, qs, new)
  <2>1. SureOK(e, ps, rs)
    BY <1>8 DEF PartsOK
  <2>2. CASE WwnOf[e] # WwnOf[d]
    <3>1. new[e] = rs[e] /\ p.wwn # WwnOf[e] /\ rs[e] \subseteq DOMAIN ps
      <4>1. WwnOf[e] # Unread
        BY DEF Lineage!LineageAssumption
      <4>2. p.wwn \in {Unread, WwnOf[d]}
        BY DEF NewOK
      <4> QED
        BY <1>0, <1>3, <2>2, <4>1, <4>2
    <3> QED
      BY <1>1, <2>1, <3>1 DEF SureOK
  <2>3. CASE WwnOf[e] = WwnOf[d]
    <3>1. Sure(d, vs) /\ d \notin vs
      BY <1>8, <2>3 DEF Sure
    <3>2. p.serial = d
      BY <3>1 DEF NewOK
    <3>3. SureOK(d, ps, rs)
      BY <3>1 DEF PartsOK
    <3>4. p.wwn # Unread => \A j \in DOMAIN ps : ps[j].wwn # WwnOf[d]
      <4>1. \A j \in DOMAIN ps : ps[j].wwn = WwnOf[d] => ps[j].kind = "disk"
        BY <1>0 DEF PartsOK, PartOK
      <4> QED
        BY <4>1 DEF NewOK
    <3>5. rs[d] = {}
      <4> SUFFICES ASSUME NEW j \in rs[d] PROVE FALSE
        OBVIOUS
      <4>1. j \in DOMAIN ps /\ ps[j].serial = d /\ IsOf(ps[j], d)
        BY <1>0, <3>3 DEF SureOK, PartsOK
      <4>2. p.wwn # Unread
        BY <4>1 DEF NewOK, IsOf
      <4>3. \E k \in DOMAIN ps : ps[k].wwn = WwnOf[d]
        BY <3>3, <4>1, <4>2 DEF SureOK, IsOf, NewOK
      <4> QED
        BY <3>4, <4>2, <4>3
    <3>6. \A i, j \in DOMAIN qs : qs[i].wwn = WwnOf[e] /\ qs[j].wwn = WwnOf[e] => i = j
      <4>1. p.wwn \in {Unread, WwnOf[d]}
        BY DEF NewOK
      <4> QED
        BY <1>0, <1>1, <2>1, <2>3, <3>4, <4>1 DEF SureOK
    <3>7. \A i \in new[e] : qs[i].serial = e
      <4>1. CASE e = d
        BY <1>1, <1>3, <3>2, <3>5, <4>1
      <4>2. CASE e # d
        BY <1>0, <1>1, <1>3, <2>1, <4>2 DEF SureOK
      <4> QED
        BY <4>1, <4>2
    <3>8. \A i, j \in new[e] : i = j
      <4>1. CASE e = d
        BY <1>3, <3>5, <4>1
      <4>2. CASE e # d
        BY <1>3, <2>1, <4>2 DEF SureOK
      <4> QED
        BY <4>1, <4>2
    <3>9. ASSUME KindOf[e] = "disk", new[e] # {} PROVE \E k \in DOMAIN qs : qs[k].wwn = WwnOf[e]
      <4>1. CASE e = d
        <5>1. CASE p.wwn = Unread
          <6>1. \E k \in DOMAIN ps : ps[k].wwn = WwnOf[d]
            BY <3>1, <3>9, <4>1, <5>1 DEF NewOK
          <6> QED
            BY <1>1, <2>3, <6>1
        <5>2. CASE p.wwn # Unread
          BY <1>1, <2>3, <5>2 DEF NewOK
        <5> QED
          BY <5>1, <5>2
      <4>2. CASE e # d
        <5>1. \E k \in DOMAIN ps : ps[k].wwn = WwnOf[e]
          BY <1>3, <2>1, <3>9, <4>2 DEF SureOK
        <5> QED
          BY <1>1, <5>1
      <4> QED
        BY <4>1, <4>2
    <3> QED
      BY <3>6, <3>7, <3>8, <3>9 DEF SureOK
  <2> QED
    BY <2>2, <2>3
<1> QED
  BY <1>0, <1>1, <1>2, <1>5, <1>7, <1>8 DEF PartsOK, n, new, qs
-----------------------------------------------------------------------------
(* A line that a probe may have read of a device of this kind: in full or  *)
(* not at all, if the device is none of those that were read in part.      *)
LineOK(line, kind, vs) ==
    /\ line \in Lineage!Line /\ KindOf[line.device] = kind
    /\ line.wwn # Unread => line.wwn = WwnOf[line.device] /\ kind = "disk"
    /\ line.serial # Unread => line.serial = line.device
    /\ line.device \notin vs =>
          /\ line.serial = Unread => line.wwn = Unread
          /\ kind = "disk" /\ line.wwn = Unread => line.serial = Unread

(* What a list brought: the rows with the parts its devices were taken for. *)
With(rs, act) == [d \in Devices |-> rs[d] \cup {a[1] : a \in {b \in act : b[3] = d}}]

Plus(rs, d, i) == [rs EXCEPT ![d] = @ \cup {i}]

(* A pass over one kind's list, begun with the parts ps.                   *)
TakingOK(st, kind, ps, rs, vs) ==
    /\ st = [parts |-> st.parts, active |-> st.active, gaps |-> st.gaps,
             forged |-> st.forged, failed |-> st.failed]
    /\ PartsOK(st.parts, With(rs, st.active), vs)
    /\ \A a \in st.active :
          a = <<a[1], a[2], a[3]>> /\ a[2] \in Lineage!Slots /\ a[3] \in Devices /\ KindOf[a[3]] = kind
    /\ st.gaps \subseteq Lineage!Kinds \X Lineage!Slots /\ st.forged \subseteq Devices
    /\ st.failed \in BOOLEAN
    /\ DOMAIN ps \subseteq DOMAIN st.parts /\ \A i \in DOMAIN ps : st.parts[i] = ps[i]

LEMMA WithOne ==
    ASSUME NEW rs, NEW act, NEW i, NEW slot, NEW d \in Devices
    PROVE  With(rs, act \cup {<<i, slot, d>>}) = Plus(With(rs, act), d, i)
<1> DEFINE one == <<i, slot, d>>
           more == act \cup {one}
<1>0. one[1] = i /\ one[3] = d
  OBVIOUS
<1> HIDE DEF one
<1>1. ASSUME NEW e \in Devices
      PROVE  {a[1] : a \in {b \in more : b[3] = e}}
             = {a[1] : a \in {b \in act : b[3] = e}} \cup (IF e = d THEN {i} ELSE {})
  BY <1>0
<1> HIDE DEF more
<1>2. ASSUME NEW e \in Devices
      PROVE  With(rs, more)[e] = With(rs, act)[e] \cup (IF e = d THEN {i} ELSE {})
  BY <1>1 DEF With
<1>3. With(rs, more) = [e \in Devices |-> With(rs, more)[e]]
  BY DEF With
<1>4. [With(rs, act) EXCEPT ![d] = @ \cup {i}]
      = [e \in Devices |-> With(rs, act)[e] \cup (IF e = d THEN {i} ELSE {})]
  BY DEF With
<1> QED
  BY <1>2, <1>3, <1>4 DEF more, one, Plus

LEMMA WithMore ==
    ASSUME NEW rs, NEW act, NEW more
    PROVE  With(With(rs, act), more) = With(rs, act \cup more)
  BY DEF With

LEMMA WithNone ==
    ASSUME NEW ps, NEW rs, NEW vs, PartsOK(ps, rs, vs)
    PROVE  With(rs, {}) = rs
<1>1. rs \in [Devices -> SUBSET DOMAIN ps]
  BY DEF PartsOK
<1> QED
  BY <1>1 DEF With

(* The instance has a Cardinality of its own, the same.                    *)
LEMMA SameCardinality ==
    ASSUME NEW S
    PROVE  Lineage!Cardinality(S) = Cardinality(S)
  BY DEF Lineage!Cardinality, Lineage!IsFiniteSet, Cardinality, IsFiniteSet

(* More than one index matches, or none, or the one that is chosen.        *)
LEMMA OneMatch ==
    ASSUME NEW ps \in Seq(Lineage!Part), NEW M, M \subseteq DOMAIN ps, ~(Cardinality(M) > 1), M # {}
    PROVE  /\ (CHOOSE j \in M : TRUE) \in M
           /\ M = {CHOOSE j \in M : TRUE}
<1>1. IsFiniteSet(M)
  <2>1. IsFiniteSet(1 .. Len(ps))
    BY FS_Interval
  <2> QED
    BY <2>1, FS_Subset
<1>2. PICK i : i \in M /\ i = CHOOSE j \in M : TRUE
  OBVIOUS
<1>3. Cardinality(M) \in Nat
  BY <1>1, FS_CardinalityType
<1>4. ASSUME NEW k \in M, k # i PROVE FALSE
  <2>1. {i, k} \subseteq M /\ IsFiniteSet({i, k})
    BY <1>1, <1>2, <1>4, FS_Subset
  <2>2. Cardinality({i, k}) = 2
    <3>1. Cardinality({i}) = 1 /\ IsFiniteSet({i}) /\ k \notin {i}
      BY <1>4, FS_Singleton
    <3>2. Cardinality({i} \cup {k}) = Cardinality({i}) + 1
      BY <3>1, FS_AddElement
    <3>3. Cardinality({i, k}) = Cardinality({i} \cup {k})
      <4>1. {i, k} = {i} \cup {k}
        OBVIOUS
      <4> QED
        BY <4>1
    <3>4. Cardinality({i} \cup {k}) = 1 + 1
      BY <3>1, <3>2
    <3> QED
      BY <3>3, <3>4
  <2>3. Cardinality({i, k}) <= Cardinality(M)
    BY <1>1, <2>1, FS_Subset
  <2> QED
    BY <1>3, <2>2, <2>3
<1> QED
  BY <1>2, <1>4

LEMMA UpsertKeeps ==
    ASSUME Lineage!LineageAssumption, NEW kind \in Lineage!Kinds, NEW slot \in Lineage!Slots,
           NEW ps, NEW rs, NEW vs, NEW st, TakingOK(st, kind, ps, rs, vs),
           NEW line, LineOK(line, kind, vs)
    PROVE  TakingOK(Lineage!Upsert(st, kind, slot, line), kind, ps, rs, vs)
<1> DEFINE guarded == Lineage!Guarded(st.parts, kind, line)
           id      == Lineage!Identity(guarded)
           match   == IF id = <<>> THEN {} ELSE Lineage!Matching(st.parts, kind, id)
           d       == line.device
           n       == Len(st.parts) + 1
<1>0. /\ Unread \notin Devices /\ d \in Devices /\ vs \subseteq Devices /\ KindOf[d] = kind
      /\ st.parts \in Seq(Lineage!Part) /\ PartsOK(st.parts, With(rs, st.active), vs)
      /\ WwnOf[d] # Unread /\ line \in Lineage!Line
  BY DEF TakingOK, LineOK, PartsOK, Lineage!LineageAssumption, Lineage!Line
<1>T. /\ \A a \in st.active :
            a = <<a[1], a[2], a[3]>> /\ a[2] \in Lineage!Slots /\ a[3] \in Devices /\ KindOf[a[3]] = kind
      /\ st.gaps \subseteq Lineage!Kinds \X Lineage!Slots /\ st.forged \subseteq Devices
      /\ st.failed \in BOOLEAN
      /\ DOMAIN ps \subseteq DOMAIN st.parts /\ \A j \in DOMAIN ps : st.parts[j] = ps[j]
  BY DEF TakingOK
<1>1. /\ guarded.device = d /\ guarded.serial = line.serial
      /\ guarded.wwn = IF Lineage!Forged(st.parts, kind, line) THEN Unread ELSE line.wwn
      /\ guarded # line => Lineage!Forged(st.parts, kind, line)
  BY <1>0 DEF Lineage!Guarded, Lineage!Line
<1>2. Lineage!Forged(st.parts, kind, line) =>
         /\ line.wwn = WwnOf[d] /\ line.serial = d /\ kind = "disk"
         /\ \E k \in DOMAIN st.parts : st.parts[k].wwn = WwnOf[d]
  BY DEF Lineage!Forged, LineOK
<1>3. /\ guarded.wwn # Unread => guarded.wwn = WwnOf[d] /\ kind = "disk"
      /\ guarded.serial \in {Unread, d}
  BY <1>0, <1>1, <1>2 DEF LineOK
<1>4. id = IF guarded.wwn # Unread THEN <<"wwn", guarded.wwn>>
           ELSE IF guarded.serial # Unread THEN <<"serial", guarded.serial>> ELSE <<>>
  BY DEF Lineage!Identity
<1> DEFINE up == Lineage!Upsert(st, kind, slot, line)
           p  == [kind |-> kind, wwn |-> guarded.wwn, serial |-> guarded.serial]
           i  == IF match = {} THEN n ELSE CHOOSE j \in match : TRUE
           qs == IF match = {} THEN Append(st.parts, p) ELSE st.parts
           fs == IF guarded # line THEN st.forged \cup {line.serial} ELSE st.forged
<1> SUFFICES TakingOK(up, kind, ps, rs, vs)
  OBVIOUS
<1>U. up = IF id = <<>> THEN [st EXCEPT !.gaps = @ \cup {<<kind, slot>>}]
           ELSE IF Cardinality(match) > 1 THEN [st EXCEPT !.failed = TRUE]
           ELSE [st EXCEPT !.parts = qs, !.active = @ \cup {<<i, slot, d>>}, !.forged = fs]
  BY SameCardinality DEF Lineage!Upsert
<1>M. id # <<>> => match = Lineage!Matching(st.parts, kind, id)
  OBVIOUS
<1>I. i = IF match = {} THEN n ELSE CHOOSE j \in match : TRUE
  OBVIOUS
<1> HIDE DEF id, match, up, i
<1>Q. ASSUME up = [parts |-> up.parts, active |-> up.active, gaps |-> up.gaps,
                   forged |-> up.forged, failed |-> up.failed],
             PartsOK(up.parts, With(rs, up.active), vs),
             \A a \in up.active :
                a = <<a[1], a[2], a[3]>> /\ a[2] \in Lineage!Slots /\ a[3] \in Devices /\ KindOf[a[3]] = kind,
             up.gaps \subseteq Lineage!Kinds \X Lineage!Slots, up.forged \subseteq Devices,
             up.failed \in BOOLEAN,
             DOMAIN ps \subseteq DOMAIN up.parts, \A j \in DOMAIN ps : up.parts[j] = ps[j]
      PROVE  TakingOK(up, kind, ps, rs, vs)
  BY <1>Q, Zenon DEF TakingOK
<1>5. CASE id = <<>>
  <2>1. up = [st EXCEPT !.gaps = @ \cup {<<kind, slot>>}]
    BY <1>5, <1>U
  <2>2. /\ up.parts = st.parts /\ up.active = st.active /\ up.forged = st.forged
        /\ up.failed = st.failed /\ up.gaps = st.gaps \cup {<<kind, slot>>}
        /\ up = [parts |-> up.parts, active |-> up.active, gaps |-> up.gaps,
                 forged |-> up.forged, failed |-> up.failed]
    BY <2>1 DEF TakingOK
  <2>3. PartsOK(up.parts, With(rs, up.active), vs)
    BY <1>0, <2>2
  <2>4. up = [parts |-> up.parts, active |-> up.active, gaps |-> up.gaps,
             forged |-> up.forged, failed |-> up.failed]
    BY <2>2
  <2>5. \A a \in up.active :
            a = <<a[1], a[2], a[3]>> /\ a[2] \in Lineage!Slots /\ a[3] \in Devices /\ KindOf[a[3]] = kind
    BY <1>T, <2>2
  <2>6. up.gaps \subseteq Lineage!Kinds \X Lineage!Slots /\ up.failed \in BOOLEAN /\ up.forged \subseteq Devices
    BY <1>T, <2>2
  <2>7. DOMAIN ps \subseteq DOMAIN up.parts /\ \A j \in DOMAIN ps : up.parts[j] = ps[j]
    BY <1>T, <2>2
  <2> QED
    BY <1>Q, <2>3, <2>4, <2>5, <2>6, <2>7, Zenon
<1>6. CASE id # <<>> /\ Cardinality(match) > 1
  <2>1. up = [st EXCEPT !.failed = TRUE]
    BY <1>6, <1>U
  <2>2. /\ up.parts = st.parts /\ up.active = st.active /\ up.forged = st.forged
        /\ up.failed = TRUE /\ up.gaps = st.gaps
        /\ up = [parts |-> up.parts, active |-> up.active, gaps |-> up.gaps,
                 forged |-> up.forged, failed |-> up.failed]
    BY <2>1 DEF TakingOK
  <2>3. PartsOK(up.parts, With(rs, up.active), vs)
    BY <1>0, <2>2
  <2>4. up = [parts |-> up.parts, active |-> up.active, gaps |-> up.gaps,
             forged |-> up.forged, failed |-> up.failed]
    BY <2>2
  <2>5. \A a \in up.active :
            a = <<a[1], a[2], a[3]>> /\ a[2] \in Lineage!Slots /\ a[3] \in Devices /\ KindOf[a[3]] = kind
    BY <1>T, <2>2
  <2>6. up.gaps \subseteq Lineage!Kinds \X Lineage!Slots /\ up.failed \in BOOLEAN /\ up.forged \subseteq Devices
    BY <1>T, <2>2
  <2>7. DOMAIN ps \subseteq DOMAIN up.parts /\ \A j \in DOMAIN ps : up.parts[j] = ps[j]
    BY <1>T, <2>2
  <2> QED
    BY <1>Q, <2>3, <2>4, <2>5, <2>6, <2>7, Zenon
<1>7. CASE id # <<>> /\ ~(Cardinality(match) > 1)
  <2>1. up = [st EXCEPT !.parts = qs, !.active = @ \cup {<<i, slot, d>>}, !.forged = fs]
    BY <1>7, <1>U
  <2>2. /\ up.parts = qs /\ up.active = st.active \cup {<<i, slot, d>>} /\ up.forged = fs
        /\ up.failed = st.failed /\ up.gaps = st.gaps
        /\ up = [parts |-> up.parts, active |-> up.active, gaps |-> up.gaps,
                 forged |-> up.forged, failed |-> up.failed]
    BY <2>1 DEF TakingOK
  <2>3. match = {j \in DOMAIN st.parts : st.parts[j].kind = kind /\ st.parts[j][id[1]] = id[2]}
    BY <1>7, <1>M DEF Lineage!Matching
  <2>4. /\ guarded.wwn # Unread =>
              match = {j \in DOMAIN st.parts : st.parts[j].kind = kind /\ st.parts[j].wwn = guarded.wwn}
        /\ guarded.wwn = Unread =>
              /\ guarded.serial = d
              /\ match = {j \in DOMAIN st.parts : st.parts[j].kind = kind /\ st.parts[j].serial = d}
    <3>1. CASE guarded.wwn # Unread
      <4>1. id[1] = "wwn" /\ id[2] = guarded.wwn
        BY <1>4, <3>1
      <4> QED
        BY <2>3, <3>1, <4>1
    <3>2. CASE guarded.wwn = Unread
      <4>1. guarded.serial # Unread
        BY <1>4, <1>7, <3>2
      <4>2. id[1] = "serial" /\ id[2] = guarded.serial
        BY <1>4, <3>2, <4>1
      <4> QED
        BY <1>3, <2>3, <3>2, <4>1, <4>2
    <3> QED
      BY <3>1, <3>2
  <2>5. Sure(d, vs) /\ guarded.wwn # Unread => guarded.serial = d /\ ~Lineage!Forged(st.parts, kind, line)
    <3>1. Sure(d, vs) => d \notin vs
      BY <1>0 DEF Sure
    <3> QED
      BY <1>0, <1>1, <3>1 DEF LineOK
  <2> DEFINE new == [With(rs, st.active) EXCEPT ![d] = @ \cup {i}]
  <2>6. PartsOK(qs, new, vs)
    <3>1. CASE match = {}
      <4>1. qs = Append(st.parts, p) /\ i = Len(st.parts) + 1
        BY <1>I, <3>1
      <4>2. NewOK(p, d, st.parts, vs)
        <5>1. p \in Lineage!Part
          BY <1>0, <1>3 DEF Lineage!Part
        <5>2. p.kind = kind /\ p.wwn = guarded.wwn /\ p.serial = guarded.serial
          OBVIOUS
        <5> HIDE DEF p
        <5>3. p.wwn # Unread => /\ p.wwn = WwnOf[d] /\ p.kind = "disk"
                 /\ \A j \in DOMAIN st.parts : st.parts[j].kind = "disk" => st.parts[j].wwn # p.wwn
          BY <1>3, <2>4, <3>1, <5>2
        <5>4. p.wwn = Unread => /\ p.serial = d
                 /\ \A j \in DOMAIN st.parts : st.parts[j].kind = p.kind => st.parts[j].serial # d
          BY <2>4, <3>1, <5>2
        <5>5. p.wwn # Unread /\ p.serial = Unread => d \in vs
          BY <1>1, <5>2 DEF LineOK
        <5>6. Sure(d, vs) /\ p.kind = "disk" /\ p.wwn = Unread =>
                 \E k \in DOMAIN st.parts : st.parts[k].wwn = WwnOf[d]
          <6> SUFFICES ASSUME Sure(d, vs), p.kind = "disk", p.wwn = Unread
                       PROVE  Lineage!Forged(st.parts, kind, line)
            BY <1>2
          <6>1. d \notin vs
            BY <1>0 DEF Sure
          <6>2. line.serial = d
            BY <1>1, <5>2, <5>4
          <6>3. line.wwn # Unread
            BY <1>0, <5>2, <6>1, <6>2 DEF LineOK
          <6> QED
            BY <1>1, <5>2, <6>3
        <5> QED
          BY <1>0, <1>3, <5>1, <5>2, <5>3, <5>4, <5>5, <5>6 DEF NewOK
      <4>3. PartsOK(Append(st.parts, p), [With(rs, st.active) EXCEPT ![d] = @ \cup {Len(st.parts) + 1}], vs)
        <5> HIDE DEF p
        <5> QED
          BY <1>0, <4>2, NewKeepsParts
      <4> QED
        BY <4>1, <4>3
    <3>2. CASE match # {}
      <4>1. match \subseteq DOMAIN st.parts
        BY <2>3
      <4>2. i \in match /\ match = {i}
        BY <1>0, <1>7, <1>I, <3>2, <4>1, OneMatch
      <4>3. i \in DOMAIN st.parts /\ st.parts[i].kind = kind
        BY <2>3, <4>2
      <4>4. \/ st.parts[i].serial = d
            \/ /\ st.parts[i].wwn = WwnOf[d]
               /\ Sure(d, vs) => st.parts[i].serial \in {Unread, d}
        <5>1. CASE guarded.wwn = Unread
          BY <2>4, <4>2, <5>1
        <5>2. CASE guarded.wwn # Unread
          <6>1. st.parts[i].wwn = WwnOf[d]
            BY <1>3, <2>4, <4>2, <5>2
          <6>2. ASSUME Sure(d, vs), st.parts[i].serial \notin {Unread, d} PROVE FALSE
            <7>1. line.serial = d /\ line.wwn = WwnOf[d] /\ ~Lineage!Forged(st.parts, kind, line)
              BY <1>1, <1>3, <2>5, <5>2, <6>2
            <7>2. \A j \in 1 .. i - 1 : st.parts[j].kind # kind \/ st.parts[j].wwn # line.wwn
              <8> SUFFICES ASSUME NEW j \in 1 .. i - 1, st.parts[j].kind = kind, st.parts[j].wwn = line.wwn
                           PROVE  FALSE
                OBVIOUS
              <8>1. j \in DOMAIN st.parts /\ j # i
                BY <1>0, <4>3
              <8>2. j \in match
                BY <1>3, <2>4, <5>2, <7>1, <8>1
              <8> QED
                BY <4>2, <8>1, <8>2
            <7> QED
              BY <1>0, <4>3, <6>1, <6>2, <7>1, <7>2 DEF Lineage!Forged
          <6> QED
            BY <6>1, <6>2
        <5> QED
          BY <5>1, <5>2
      <4>5. PartsOK(st.parts, [With(rs, st.active) EXCEPT ![d] = @ \cup {i}], vs)
        BY <1>0, <4>3, <4>4, FoundKeepsParts
      <4> QED
        BY <3>2, <4>5
    <3> QED
      BY <3>1, <3>2
  <2>7. With(rs, st.active \cup {<<i, slot, d>>}) = new
    <3>1. d \in Devices
      BY <1>0
    <3>3. \A act, i0, s0 : \A e \in Devices : With(rs, act \cup {<<i0, s0, e>>}) = Plus(With(rs, act), e, i0)
      BY WithOne, Zenon
    <3> HIDE DEF d, guarded
    <3>2. With(rs, st.active \cup {<<i, slot, d>>}) = Plus(With(rs, st.active), d, i)
      BY <3>1, <3>3
    <3> QED
      BY <3>2 DEF Plus
  <2>8. PartsOK(up.parts, With(rs, up.active), vs)
    BY <2>2, <2>6, <2>7
  <2>9. fs \subseteq Devices
    <3>1. guarded # line => line.serial \in Devices
      BY <1>0, <1>1, <1>2
    <3> QED
      BY <3>1 DEF TakingOK
  <2>10. DOMAIN ps \subseteq DOMAIN qs /\ \A j \in DOMAIN ps : qs[j] = ps[j]
    <3>1. p \in Lineage!Part
      BY <1>0, <1>3 DEF Lineage!Part
    <3>2. DOMAIN ps \subseteq DOMAIN st.parts /\ \A j \in DOMAIN ps : st.parts[j] = ps[j]
      BY DEF TakingOK
    <3>3. DOMAIN st.parts \subseteq DOMAIN qs /\ \A j \in DOMAIN st.parts : qs[j] = st.parts[j]
      BY <1>0, <3>1
    <3> QED
      BY <3>2, <3>3
  <2>11. \A a \in up.active :
            a = <<a[1], a[2], a[3]>> /\ a[2] \in Lineage!Slots /\ a[3] \in Devices /\ KindOf[a[3]] = kind
    <3> SUFFICES ASSUME NEW a \in up.active
                 PROVE  a = <<a[1], a[2], a[3]>> /\ a[2] \in Lineage!Slots /\ a[3] \in Devices /\ KindOf[a[3]] = kind
      OBVIOUS
    <3>1. CASE a \in st.active
      BY <3>1 DEF TakingOK
    <3>2. CASE a = <<i, slot, d>>
      BY <1>0, <3>2
    <3> QED
      BY <2>2, <3>1, <3>2
  <2> HIDE DEF qs, fs
  <2>12. up.gaps \subseteq Lineage!Kinds \X Lineage!Slots /\ up.failed \in BOOLEAN /\ up.forged \subseteq Devices
    BY <1>T, <2>2, <2>9
  <2>13. DOMAIN ps \subseteq DOMAIN up.parts /\ \A j \in DOMAIN ps : up.parts[j] = ps[j]
    BY <2>2, <2>10
  <2>14. up = [parts |-> up.parts, active |-> up.active, gaps |-> up.gaps,
              forged |-> up.forged, failed |-> up.failed]
    BY <2>2
  <2> QED
    BY <1>Q, <2>8, <2>11, <2>12, <2>13, <2>14, Zenon
<1> QED
  BY <1>5, <1>6, <1>7
-----------------------------------------------------------------------------
(* A whole list: a fold over the slots of the host.                        *)
ListOK(list, kind, vs) == \A x \in list : x[1] \in Lineage!Slots /\ LineOK(x[2], kind, vs)

IsProjection(f, n, ps, kind, list) ==
    f = [k \in 0 .. n |-> IF k = 0 THEN Lineage!Start(ps) ELSE Lineage!Taken(f[k - 1], kind, k, list)]

LEMMA ProjectUnfolds ==
    ASSUME NEW ps, NEW kind, NEW list
    PROVE  Lineage!Project(ps, kind, list)
           = (CHOOSE f : IsProjection(f, MaxSlot, ps, kind, list))[MaxSlot]
  BY DEF Lineage!Project, IsProjection

(* A least number without a property.                                      *)
LEMMA LeastWithout ==
    ASSUME NEW S \in SUBSET Nat, S # {}
    PROVE  \E n \in S : \A m \in S : n <= m
<1>1. PICK n \in S : \A m \in S : <<m, n>> \notin OpToRel(<, Nat)
  BY NatLessThanWellFounded, WFMin
<1>2. \A m \in S : ~ (m < n)
  BY <1>1 DEF OpToRel
<1> QED
  BY <1>2

LEMMA ProjectionExists ==
    ASSUME NEW ps, NEW kind, NEW list, NEW n \in Nat
    PROVE  \E f : IsProjection(f, n, ps, kind, list)
<1> DEFINE Has(k) == \E f : IsProjection(f, k, ps, kind, list)
           S == {k \in Nat : ~ Has(k)}
<1> SUFFICES ASSUME S # {} PROVE FALSE
  OBVIOUS
<1>1. PICK k \in S : \A m \in S : k <= m
  BY LeastWithout
<1>2. k # 0
  <2> DEFINE f == [j \in 0 .. 0 |-> Lineage!Start(ps)]
  <2>1. IsProjection(f, 0, ps, kind, list)
    BY DEF IsProjection
  <2> QED
    BY <2>1
<1>3. k - 1 \in Nat /\ k - 1 \notin S
  BY <1>1, <1>2
<1>4. PICK f : IsProjection(f, k - 1, ps, kind, list)
  BY <1>3
<1> DEFINE g == [j \in 0 .. k |-> IF j < k THEN f[j] ELSE Lineage!Taken(f[k - 1], kind, k, list)]
<1>5. f = [j \in 0 .. k - 1 |-> IF j = 0 THEN Lineage!Start(ps) ELSE Lineage!Taken(f[j - 1], kind, j, list)]
  BY <1>4 DEF IsProjection
<1>6. ASSUME NEW j \in 0 .. k
      PROVE  g[j] = IF j = 0 THEN Lineage!Start(ps) ELSE Lineage!Taken(g[j - 1], kind, j, list)
  <2>1. CASE j = k
    BY <1>2, <2>1
  <2>2. CASE j < k
    <3>1. f[j] = IF j = 0 THEN Lineage!Start(ps) ELSE Lineage!Taken(f[j - 1], kind, j, list)
      BY <1>5, <2>2
    <3>2. j # 0 => g[j - 1] = f[j - 1]
      BY <2>2
    <3> QED
      BY <2>2, <3>1, <3>2
  <2> QED
    BY <2>1, <2>2
<1>7. IsProjection(g, k, ps, kind, list)
  BY <1>6 DEF IsProjection
<1> QED
  BY <1>7

LEMMA TakenKeeps ==
    ASSUME Lineage!LineageAssumption, NEW kind \in Lineage!Kinds, NEW slot \in Lineage!Slots,
           NEW ps, NEW rs, NEW vs, NEW st, TakingOK(st, kind, ps, rs, vs),
           NEW list, ListOK(list, kind, vs)
    PROVE  TakingOK(Lineage!Taken(st, kind, slot, list), kind, ps, rs, vs)
<1> DEFINE lines == {x \in list : x[1] = slot}
<1>1. CASE st.failed \/ lines = {}
  <2>1. Lineage!Taken(st, kind, slot, list) = st
    BY <1>1 DEF Lineage!Taken
  <2> QED
    BY <2>1
<1>2. CASE ~(st.failed \/ lines = {})
  <2>1. PICK x : x = CHOOSE y \in lines : TRUE
    OBVIOUS
  <2>2. x \in list
    BY <1>2, <2>1
  <2>3. LineOK(x[2], kind, vs)
    BY <2>2 DEF ListOK
  <2>4. Lineage!Taken(st, kind, slot, list) = Lineage!Upsert(st, kind, slot, x[2])
    BY <1>2, <2>1 DEF Lineage!Taken
  <2> QED
    BY <2>3, <2>4, UpsertKeeps
<1> QED
  BY <1>1, <1>2

LEMMA ProjectKeeps ==
    ASSUME Lineage!LineageAssumption, NEW kind \in Lineage!Kinds,
           NEW ps, NEW rs, NEW vs, PartsOK(ps, rs, vs), NEW list, ListOK(list, kind, vs)
    PROVE  TakingOK(Lineage!Project(ps, kind, list), kind, ps, rs, vs)
<1>0. MaxSlot \in Nat
  BY DEF Lineage!LineageAssumption
<1>1. PICK f : f = CHOOSE g : IsProjection(g, MaxSlot, ps, kind, list)
  OBVIOUS
<1>2. IsProjection(f, MaxSlot, ps, kind, list)
  BY <1>0, <1>1, ProjectionExists
<1> DEFINE OK(k) == TakingOK(f[k], kind, ps, rs, vs)
           S == {k \in 0 .. MaxSlot : ~ OK(k)}
<1>3. S = {}
  <2> SUFFICES ASSUME S # {} PROVE FALSE
    OBVIOUS
  <2>0. S \subseteq Nat
    BY <1>0
  <2>1. PICK k \in S : \A m \in S : k <= m
    <3> HIDE DEF S
    <3> QED
      BY <2>0, LeastWithout
  <2>2. f[k] = IF k = 0 THEN Lineage!Start(ps) ELSE Lineage!Taken(f[k - 1], kind, k, list)
    BY <1>2 DEF IsProjection
  <2>3. CASE k = 0
    <3>1. f[k] = [parts |-> ps, active |-> {}, gaps |-> {}, forged |-> {}, failed |-> FALSE]
      BY <2>2, <2>3 DEF Lineage!Start
    <3>2. With(rs, f[k].active) = rs
      BY <3>1, WithNone
    <3>3. /\ f[k].parts = ps /\ f[k].active = {} /\ f[k].gaps = {} /\ f[k].forged = {}
          /\ f[k].failed = FALSE
          /\ f[k] = [parts |-> f[k].parts, active |-> f[k].active, gaps |-> f[k].gaps,
                     forged |-> f[k].forged, failed |-> f[k].failed]
      BY <3>1
    <3>4. PartsOK(f[k].parts, With(rs, f[k].active), vs)
      BY <3>2, <3>3
    <3>5. TakingOK(f[k], kind, ps, rs, vs)
      BY <3>3, <3>4 DEF TakingOK
    <3> QED
      BY <2>1, <3>5
  <2>4. CASE k # 0
    <3>1. k - 1 \in 0 .. MaxSlot /\ k - 1 \notin S /\ k \in Lineage!Slots
      BY <1>0, <2>1, <2>4 DEF Lineage!Slots
    <3>2. TakingOK(f[k - 1], kind, ps, rs, vs)
      BY <3>1
    <3>3. TakingOK(Lineage!Taken(f[k - 1], kind, k, list), kind, ps, rs, vs)
      BY <3>1, <3>2, TakenKeeps
    <3> QED
      BY <2>1, <2>2, <2>4, <3>3
  <2> QED
    BY <2>3, <2>4
<1>4. TakingOK(f[MaxSlot], kind, ps, rs, vs)
  BY <1>0, <1>3
<1>5. Lineage!Project(ps, kind, list) = f[MaxSlot]
  BY <1>1, ProjectUnfolds
<1> QED
  BY <1>4, <1>5
-----------------------------------------------------------------------------
(* The placements of a device that was read in full are on the host where  *)
(* a list held it last.                                                    *)
HeldOK(op, rs, hd, vs) ==
    \A d \in Devices : Sure(d, vs) =>
       \A h \in Hosts : hd[d] = h <=> \E p \in op : p[1] \in rs[d] /\ p[2] = h

HeldAfter(hd, h, done, listed) ==
    [d \in Devices |-> IF KindOf[d] \notin done THEN hd[d]
                       ELSE IF d \in listed THEN h
                       ELSE IF hd[d] = h THEN NoHost ELSE hd[d]]

Placements(ps) == (DOMAIN ps) \X Hosts \X Lineage!Slots

ListedBy(act) == {a[3] : a \in act}

(* A list takes a device for no older part that it was not taken for.      *)
LEMMA OldRows ==
    ASSUME Lineage!LineageAssumption, NEW kind, NEW ps, NEW rs, NEW vs, PartsOK(ps, rs, vs),
           NEW st, TakingOK(st, kind, ps, rs, vs), NEW d \in Devices, Sure(d, vs),
           NEW i \in DOMAIN ps
    PROVE  i \in With(rs, st.active)[d] <=> i \in rs[d]
<1>1. i \in rs[d] => i \in With(rs, st.active)[d]
  BY DEF With
<1>2. ASSUME i \in With(rs, st.active)[d] PROVE i \in rs[d]
  <2>1. SureOK(d, st.parts, With(rs, st.active))
    BY DEF TakingOK, PartsOK
  <2>2. ps[i].serial = d
    <3>1. st.parts[i].serial = d
      BY <1>2, <2>1 DEF SureOK
    <3>2. st.parts[i] = ps[i]
      BY DEF TakingOK
    <3> QED
      BY <3>1, <3>2
  <2>3. PartOK(ps[i], i, rs, vs)
    BY DEF PartsOK
  <2> QED
    BY <2>2, <2>3 DEF PartOK, Lineage!LineageAssumption
<1> QED
  BY <1>1, <1>2

(* A list that a pass did not get to the end of moves nothing.             *)
LEMMA FailedKeepsHeld ==
    ASSUME Lineage!LineageAssumption, NEW kind, NEW ps, NEW rs, NEW vs, PartsOK(ps, rs, vs),
           NEW st, TakingOK(st, kind, ps, rs, vs),
           NEW op, op \subseteq Placements(ps), NEW hd, HeldOK(op, rs, hd, vs)
    PROVE  /\ op \subseteq Placements(st.parts)
           /\ HeldOK(op, With(rs, st.active), hd, vs)
<1>1. op \subseteq Placements(st.parts)
  BY DEF TakingOK, Placements
<1>2. ASSUME NEW d \in Devices, Sure(d, vs), NEW h \in Hosts
      PROVE  hd[d] = h <=> \E p \in op : p[1] \in With(rs, st.active)[d] /\ p[2] = h
  <2>1. \A p \in op : p[1] \in DOMAIN ps
    BY DEF Placements
  <2>2. \A p \in op : p[1] \in With(rs, st.active)[d] <=> p[1] \in rs[d]
    BY <1>2, <2>1, OldRows
  <2>3. hd[d] = h <=> \E p \in op : p[1] \in rs[d] /\ p[2] = h
    BY <1>2 DEF HeldOK
  <2> QED
    BY <2>2, <2>3
<1> QED
  BY <1>1, <1>2 DEF HeldOK

(* One that it did moves what it lists here, from wherever it was.         *)
LEMMA PlacedFollows ==
    ASSUME Lineage!LineageAssumption, NEW kind, NEW ps, NEW rs, NEW vs, PartsOK(ps, rs, vs),
           NEW st, TakingOK(st, kind, ps, rs, vs), NEW h \in Hosts,
           NEW op, op \subseteq Placements(ps), NEW hd, HeldOK(op, rs, hd, vs)
    PROVE  LET after == Lineage!Placed(op, h, kind, st.parts, Lineage!Pairs(st.active)) IN
           /\ after \subseteq Placements(st.parts)
           /\ HeldOK(after, With(rs, st.active),
                     HeldAfter(hd, h, {kind}, ListedBy(st.active)), vs)
<1> DEFINE qs     == st.parts
           new    == With(rs, st.active)
           active == Lineage!Pairs(st.active)
           kept   == {p \in op : p[2] # h \/ qs[p[1]].kind # kind \/ <<p[1], p[3]>> \in active}
           fresh  == {a \in active : <<a[1], h, a[2]>> \notin kept}
           stay   == {p \in kept : p[2] = h \/ \A a \in fresh : a[1] # p[1]}
           put    == {<<a[1], h, a[2]>> : a \in fresh}
           after  == stay \cup put
<1>1. Lineage!Placed(op, h, kind, st.parts, Lineage!Pairs(st.active)) = after
  BY DEF Lineage!Placed
<1>2. op \subseteq Placements(qs) /\ HeldOK(op, new, hd, vs)
  BY FailedKeepsHeld
<1>3. PartsOK(qs, new, vs) /\ new \in [Devices -> SUBSET DOMAIN qs]
  BY DEF TakingOK, PartsOK
(* What is listed is a part of this kind, and the part of a device of it.  *)
<1>4. ASSUME NEW a \in active
      PROVE  \E d \in Devices : /\ KindOf[d] = kind /\ a[1] \in new[d] /\ d \in ListedBy(st.active)
                                /\ a[1] \in DOMAIN qs /\ qs[a[1]].kind = kind
                                /\ a[2] \in Lineage!Slots
  <2>1. PICK b \in st.active : a = <<b[1], b[2]>>
    BY DEF Lineage!Pairs
  <2>2. b[2] \in Lineage!Slots /\ b[3] \in Devices /\ KindOf[b[3]] = kind
    BY DEF TakingOK
  <2>3. b[1] \in new[b[3]] /\ b[3] \in ListedBy(st.active)
    BY <2>2 DEF With, ListedBy
  <2>4. b[1] \in DOMAIN qs /\ qs[b[1]].kind = kind
    BY <1>3, <2>2, <2>3 DEF PartsOK, IsOf
  <2>5. a[1] = b[1] /\ a[2] = b[2]
    BY <2>1
  <2> QED
    BY <2>2, <2>3, <2>4, <2>5
<1>5. ASSUME NEW d \in ListedBy(st.active)
      PROVE  \E a \in active : a[1] \in new[d] /\ d \in Devices /\ KindOf[d] = kind
  <2>1. PICK b \in st.active : d = b[3]
    BY DEF ListedBy
  <2>2. <<b[1], b[2]>> \in active
    BY DEF Lineage!Pairs
  <2>3. b[3] \in Devices /\ KindOf[b[3]] = kind
    BY DEF TakingOK
  <2>4. b[1] \in new[d]
    BY <2>1, <2>3 DEF With
  <2> QED
    BY <2>1, <2>2, <2>3, <2>4
(* A device that was read in full shares its part with no other.           *)
<1>6. ASSUME NEW d \in Devices, Sure(d, vs), NEW e \in Devices, NEW i \in new[d], i \in new[e]
      PROVE  d = e
  <2>1. SureOK(d, qs, new)
    BY <1>3, <1>6 DEF PartsOK
  <2>2. qs[i].serial = d
    BY <2>1 DEF SureOK
  <2>3. WwnOf[d] = WwnOf[e]
    BY <1>3, <1>6, <2>2 DEF PartsOK, IsOf, Lineage!LineageAssumption
  <2>4. Sure(e, vs)
    BY <1>6, <2>3 DEF Sure
  <2>5. SureOK(e, qs, new)
    BY <1>3, <2>4 DEF PartsOK
  <2> QED
    BY <1>6, <2>2, <2>5 DEF SureOK
<1>7. after \subseteq Placements(qs)
  <2>1. stay \subseteq Placements(qs)
    BY <1>2
  <2>2. ASSUME NEW a \in active PROVE <<a[1], h, a[2]>> \in Placements(qs)
    BY <1>4 DEF Placements
  <2> QED
    BY <2>1, <2>2
<1> HIDE DEF active, new
<1> DEFINE hd2 == HeldAfter(hd, h, {kind}, ListedBy(st.active))
<1>8. ASSUME NEW d \in Devices, Sure(d, vs), NEW g \in Hosts
      PROVE  hd2[d] = g <=> \E p \in after : p[1] \in new[d] /\ p[2] = g
  <2>0. NoHost \notin Hosts
    BY DEF Lineage!LineageAssumption
  <2>1. hd2[d] = IF KindOf[d] # kind THEN hd[d]
                 ELSE IF d \in ListedBy(st.active) THEN h
                 ELSE IF hd[d] = h THEN NoHost ELSE hd[d]
    BY DEF HeldAfter
  <2>2. \A f \in Hosts : hd[d] = f <=> \E p \in op : p[1] \in new[d] /\ p[2] = f
    BY <1>2, <1>8 DEF HeldOK
  <2>3. \A i \in new[d] : i \in DOMAIN qs /\ qs[i].kind = KindOf[d]
    BY <1>3 DEF PartsOK, IsOf
  <2>4. \A i, j \in new[d] : i = j
    BY <1>3, <1>8 DEF PartsOK, SureOK
  <2>5. CASE d \in ListedBy(st.active)
    <3>1. PICK a \in active : a[1] \in new[d]
      BY <1>5, <2>5
    <3>2. KindOf[d] = kind
      BY <1>5, <2>5
    <3>3. PICK x : x = <<a[1], h, a[2]>>
      OBVIOUS
    <3>4. x \in after /\ x[1] \in new[d] /\ x[2] = h
      <4>1. x[1] = a[1] /\ x[2] = h
        BY <3>3
      <4>2. x \in kept => x \in stay
        BY <4>1
      <4>3. x \notin kept => x \in put
        BY <3>3
      <4> QED
        BY <3>1, <4>1, <4>2, <4>3
    <3>5. ASSUME NEW p \in after, p[1] \in new[d], p[2] # h PROVE FALSE
      <4>1. p \in kept /\ \A b \in fresh : b[1] # p[1]
        <5>1. p \notin put
          <6> SUFFICES ASSUME NEW b \in fresh, p = <<b[1], h, b[2]>> PROVE FALSE
            OBVIOUS
          <6>1. p[2] = h
            OBVIOUS
          <6> QED
            BY <3>5, <6>1
        <5> QED
          BY <3>5, <5>1
      <4>2. p[1] = a[1]
        BY <2>4, <3>1, <3>5
      <4>3. x \in kept
        BY <3>3, <4>1, <4>2
      <4>4. x \in op
        BY <4>3
      <4>5. p \in op /\ p[2] \in Hosts
        BY <1>2, <4>1 DEF Placements
      <4>6. hd[d] = h
        BY <2>2, <3>4, <4>4
      <4>7. hd[d] = p[2]
        BY <2>2, <3>5, <4>5
      <4> QED
        BY <3>5, <4>6, <4>7
    <3> QED
      BY <2>1, <2>5, <3>2, <3>4, <3>5
  <2>6. CASE d \notin ListedBy(st.active)
    <3>1. ASSUME NEW a \in active, a[1] \in new[d] PROVE FALSE
      <4>1. PICK e \in Devices : a[1] \in new[e] /\ e \in ListedBy(st.active)
        BY <1>4
      <4> QED
        BY <1>6, <1>8, <2>6, <3>1, <4>1
    <3>2. ASSUME NEW p \in after, p[1] \in new[d]
          PROVE  p \in op /\ (KindOf[d] = kind => p[2] # h)
      <4>1. p \notin put
        <5> SUFFICES ASSUME NEW a \in fresh, p = <<a[1], h, a[2]>> PROVE FALSE
          OBVIOUS
        <5>1. p[1] = a[1]
          OBVIOUS
        <5> QED
          BY <3>1, <3>2, <5>1
      <4>2. p \in kept
        BY <3>2, <4>1
      <4>3. <<p[1], p[3]>> \notin active
        <5>1. PICK y : y = <<p[1], p[3]>>
          OBVIOUS
        <5>2. y[1] = p[1]
          BY <5>1
        <5> QED
          BY <3>1, <3>2, <5>1, <5>2
      <4>4. KindOf[d] = kind => qs[p[1]].kind = kind
        BY <2>3, <3>2
      <4> QED
        BY <4>2, <4>3, <4>4
    <3>3. ASSUME NEW p \in op, p[1] \in new[d], KindOf[d] # kind \/ p[2] # h
          PROVE  p \in after
      <4>1. p \in kept
        BY <2>3, <3>3
      <4>2. \A b \in fresh : b[1] # p[1]
        BY <3>1, <3>3
      <4> QED
        BY <4>1, <4>2
    <3>4. CASE KindOf[d] # kind
      BY <2>1, <2>2, <3>2, <3>3, <3>4
    <3>5. CASE KindOf[d] = kind
      <4>1. hd2[d] = IF hd[d] = h THEN NoHost ELSE hd[d]
        BY <2>1, <2>6, <3>5
      <4>2. CASE g = h
        <5>1. hd2[d] # h
          BY <2>0, <4>1
        <5> QED
          BY <3>2, <3>5, <4>2, <5>1
      <4>3. CASE g # h
        <5>1. hd2[d] = g <=> hd[d] = g
          BY <2>0, <4>1, <4>3
        <5> QED
          BY <2>2, <3>2, <3>3, <4>3, <5>1
      <4> QED
        BY <4>2, <4>3
    <3> QED
      BY <3>4, <3>5
  <2> QED
    BY <2>5, <2>6
<1>9. HeldOK(after, new, hd2, vs)
  <2> HIDE DEF after, hd2
  <2> QED
    BY <1>8 DEF HeldOK
<1>10. /\ after \subseteq Placements(st.parts)
       /\ HeldOK(after, With(rs, st.active), HeldAfter(hd, h, {kind}, ListedBy(st.active)), vs)
  BY <1>7, <1>9 DEF new
<1> HIDE DEF after
<1> QED
  BY <1>1, <1>10
-----------------------------------------------------------------------------
(* A pass over some of the kinds, begun with these parts, placements and   *)
(* histories.                                                              *)
CarriedOK(inv, h, kinds, rs, hd, vs) ==
    LET now == With(rs, inv.active) IN
    /\ inv = [parts |-> inv.parts, failed |-> inv.failed, open |-> inv.open, gaps |-> inv.gaps,
              forged |-> inv.forged, active |-> inv.active, done |-> inv.done]
    /\ PartsOK(inv.parts, now, vs)
    /\ inv.open \subseteq Placements(inv.parts)
    /\ \A d \in ListedBy(inv.active) : d \in Devices /\ KindOf[d] \in kinds
    /\ inv.done \subseteq kinds
    /\ HeldOK(inv.open, now, HeldAfter(hd, h, inv.done, ListedBy(inv.active)), vs)
    /\ inv.gaps \subseteq Hosts \X Lineage!Kinds \X Lineage!Slots
    /\ inv.forged \subseteq Hosts \X Devices

LEMMA CarriedKeeps ==
    ASSUME Lineage!LineageAssumption, NEW h \in Hosts, NEW kind \in Lineage!Kinds, NEW kinds,
           kind \notin kinds, NEW rs, NEW hd, NEW vs,
           NEW inv, CarriedOK(inv, h, kinds, rs, hd, vs), NEW list, ListOK(list, kind, vs)
    PROVE  CarriedOK(Lineage!Carried(inv, h, kind, list), h, kinds \cup {kind}, rs, hd, vs)
<1> DEFINE st  == Lineage!Project(inv.parts, kind, list)
           now == With(rs, inv.active)
           hd1 == HeldAfter(hd, h, inv.done, ListedBy(inv.active))
           act == inv.active \cup st.active
           out == Lineage!Carried(inv, h, kind, list)
<1>1. /\ PartsOK(inv.parts, now, vs) /\ inv.open \subseteq Placements(inv.parts)
      /\ HeldOK(inv.open, now, hd1, vs)
      /\ \A d \in ListedBy(inv.active) : d \in Devices /\ KindOf[d] \in kinds
      /\ inv.done \subseteq kinds
      /\ inv.gaps \subseteq Hosts \X Lineage!Kinds \X Lineage!Slots /\ inv.forged \subseteq Hosts \X Devices
  BY DEF CarriedOK
<1>2. TakingOK(st, kind, inv.parts, now, vs)
  BY <1>1, ProjectKeeps
<1>3. CASE inv.failed
  <2>1. out = inv
    BY <1>3 DEF Lineage!Carried
  <2> QED
    BY <1>1, <2>1 DEF CarriedOK
<1>4. CASE ~inv.failed
  <2> DEFINE op   == IF st.failed THEN inv.open
                     ELSE Lineage!Placed(inv.open, h, kind, st.parts, Lineage!Pairs(st.active))
             gs   == inv.gaps \cup {<<h, g[1], g[2]>> : g \in st.gaps}
             fs   == inv.forged \cup {<<h, s>> : s \in st.forged}
             done == IF st.failed THEN inv.done ELSE inv.done \cup {kind}
             rec  == [parts |-> st.parts, failed |-> st.failed, open |-> op, gaps |-> gs,
                      forged |-> fs, active |-> act, done |-> done]
  <2>1. out = rec
    BY <1>4 DEF Lineage!Carried
  <2>2. PartsOK(st.parts, With(now, st.active), vs)
    BY <1>2 DEF TakingOK
  <2>3. With(now, st.active) = With(rs, act)
    BY WithMore
  <2>4. gs \subseteq Hosts \X Lineage!Kinds \X Lineage!Slots /\ fs \subseteq Hosts \X Devices
    <3>1. st.gaps \subseteq Lineage!Kinds \X Lineage!Slots /\ st.forged \subseteq Devices
      BY <1>2 DEF TakingOK
    <3> QED
      BY <1>1, <3>1
  <2>5. \A d \in ListedBy(st.active) : d \in Devices /\ KindOf[d] = kind
    BY <1>2 DEF TakingOK, ListedBy
  <2>6. ListedBy(act) = ListedBy(inv.active) \cup ListedBy(st.active)
    BY DEF ListedBy
  <2>7. \A d \in ListedBy(act) : d \in Devices /\ KindOf[d] \in kinds \cup {kind}
    BY <1>1, <2>5, <2>6
  <2>8. done \subseteq kinds \cup {kind}
    BY <1>1
  <2> HIDE DEF st, act
  <2>9. /\ op \subseteq Placements(st.parts)
        /\ HeldOK(op, With(now, st.active), HeldAfter(hd, h, done, ListedBy(act)), vs)
    <3>1. CASE st.failed
      <4>1. HeldAfter(hd, h, inv.done, ListedBy(act)) = hd1
        <5>1. ASSUME NEW d \in Devices, KindOf[d] \in inv.done
              PROVE  d \in ListedBy(act) <=> d \in ListedBy(inv.active)
          BY <1>1, <2>5, <2>6, <5>1
        <5> QED
          BY <5>1 DEF HeldAfter
      <4>2. op = inv.open /\ done = inv.done
        BY <3>1
      <4>3. inv.open \subseteq Placements(st.parts) /\ HeldOK(inv.open, With(now, st.active), hd1, vs)
        <5> HIDE DEF now, hd1
        <5> QED
          BY <1>1, <1>2, FailedKeepsHeld
      <4> QED
        BY <4>1, <4>2, <4>3
    <3>2. CASE ~st.failed
      <4>1. HeldAfter(hd, h, inv.done \cup {kind}, ListedBy(act))
            = HeldAfter(hd1, h, {kind}, ListedBy(st.active))
        <5>1. ASSUME NEW d \in Devices, KindOf[d] \in inv.done
              PROVE  d \in ListedBy(act) <=> d \in ListedBy(inv.active)
          BY <1>1, <2>5, <2>6, <5>1
        <5>2. ASSUME NEW d \in Devices, KindOf[d] = kind
              PROVE  (d \in ListedBy(act) <=> d \in ListedBy(st.active)) /\ KindOf[d] \notin inv.done
          BY <1>1, <2>5, <2>6, <5>2
        <5>3. ASSUME NEW d \in Devices
              PROVE  HeldAfter(hd, h, inv.done \cup {kind}, ListedBy(act))[d]
                     = HeldAfter(hd1, h, {kind}, ListedBy(st.active))[d]
          BY <5>1, <5>2 DEF HeldAfter
        <5> QED
          BY <5>3 DEF HeldAfter
      <4>2. PICK p : p = Lineage!Placed(inv.open, h, kind, st.parts, Lineage!Pairs(st.active))
        OBVIOUS
      <4>3. op = p /\ done = inv.done \cup {kind}
        BY <3>2, <4>2
      <4>4. p \subseteq Placements(st.parts)
            /\ HeldOK(p, With(now, st.active), HeldAfter(hd1, h, {kind}, ListedBy(st.active)), vs)
        <5> HIDE DEF now, hd1
        <5> QED
          BY <1>1, <1>2, <4>2, PlacedFollows
      <4> QED
        BY <4>1, <4>3, <4>4
    <3> QED
      BY <3>1, <3>2
  <2>10. /\ out.parts = st.parts /\ out.open = op /\ out.gaps = gs /\ out.forged = fs
         /\ out.active = act /\ out.done = done /\ out.failed = st.failed
         /\ out = [parts |-> out.parts, failed |-> out.failed, open |-> out.open, gaps |-> out.gaps,
                   forged |-> out.forged, active |-> out.active, done |-> out.done]
    BY <2>1
  <2> HIDE DEF op, gs, fs, done, out, now
  <2>11. PartsOK(out.parts, With(rs, out.active), vs)
    BY <2>2, <2>3, <2>10
  <2>12. HeldOK(out.open, With(rs, out.active), HeldAfter(hd, h, out.done, ListedBy(out.active)), vs)
    BY <2>3, <2>9, <2>10
  <2>13. /\ out.open \subseteq Placements(out.parts)
         /\ out.gaps \subseteq Hosts \X Lineage!Kinds \X Lineage!Slots
         /\ out.forged \subseteq Hosts \X Devices
    BY <2>4, <2>9, <2>10
  <2>14. /\ \A d \in ListedBy(out.active) : d \in Devices /\ KindOf[d] \in kinds \cup {kind}
         /\ out.done \subseteq kinds \cup {kind}
    BY <2>7, <2>8, <2>10
  <2>15. out = [parts |-> out.parts, failed |-> out.failed, open |-> out.open, gaps |-> out.gaps,
                forged |-> out.forged, active |-> out.active, done |-> out.done]
    BY <2>10
  <2>16. CarriedOK(out, h, kinds \cup {kind}, rs, hd, vs)
    BY <2>11, <2>12, <2>13, <2>14, <2>15, Zenon DEF CarriedOK
  <2> QED
    BY <2>16 DEF out
<1> QED
  BY <1>3, <1>4
-----------------------------------------------------------------------------
(* The inductive invariant.                                                *)
LineageInv ==
    /\ where \in [Devices -> (Hosts \X Lineage!Slots) \cup {<<NoHost, 0>>}]
    /\ seen \in [Hosts -> [Lineage!Kinds -> SUBSET (Lineage!Slots \X Lineage!Line)]]
    /\ \A h \in Hosts, k \in Lineage!Kinds : ListOK(seen[h][k], k, varied)
    /\ PartsOK(parts, rows, varied)
    /\ open \subseteq Placements(parts)
    /\ gaps \subseteq Hosts \X Lineage!Kinds \X Lineage!Slots
    /\ forged \subseteq Hosts \X Devices
    /\ held \in [Devices -> Hosts \cup {NoHost}]
    /\ HeldOK(open, rows, held, varied)

LEMMA ReconcileKeeps ==
    ASSUME Lineage!LineageAssumption, NEW vs,
           PartsOK(parts, rows, vs), open \subseteq Placements(parts),
           gaps \subseteq Hosts \X Lineage!Kinds \X Lineage!Slots, forged \subseteq Hosts \X Devices,
           held \in [Devices -> Hosts \cup {NoHost}], HeldOK(open, rows, held, vs),
           NEW h \in Hosts, NEW lists, \A k \in Lineage!Kinds : ListOK(lists[k], k, vs),
           Lineage!ReconcileHost(h, lists)
    PROVE  /\ PartsOK(parts', rows', vs) /\ open' \subseteq Placements(parts')
           /\ gaps' \subseteq Hosts \X Lineage!Kinds \X Lineage!Slots /\ forged' \subseteq Hosts \X Devices
           /\ held' \in [Devices -> Hosts \cup {NoHost}] /\ HeldOK(open', rows', held', vs)
<1> DEFINE rec0 == [parts |-> parts, failed |-> FALSE, open |-> open, gaps |-> {},
                    forged |-> forged, active |-> {}, done |-> {}]
<1>0. PICK i0 : i0 = rec0
  OBVIOUS
<1>0a. PICK i1 \in {Lineage!Carried(i0, h, "dimm", lists["dimm"])} :
      \E i \in {Lineage!Carried(i1, h, "disk", lists["disk"])} :
      \E j \in {Lineage!Carried(i, h, "nic", lists["nic"])} :
         /\ parts' = j.parts /\ forged' = j.forged /\ open' = j.open
         /\ gaps' = {g \in gaps : g[1] # h \/ j.failed} \cup j.gaps
         /\ rows' = With(rows, j.active)
         /\ held' = HeldAfter(held, h, j.done, ListedBy(j.active))
  BY <1>0
  DEF Lineage!ReconcileHost, Lineage!DimmLineage, Lineage!StorageLineage, Lineage!NicLineage,
      With, HeldAfter, ListedBy
<1>1. i1 = Lineage!Carried(i0, h, "dimm", lists["dimm"])
  BY <1>0a
<1>2. PICK i2 : /\ i2 = Lineage!Carried(i1, h, "disk", lists["disk"])
                /\ \E j \in {Lineage!Carried(i2, h, "nic", lists["nic"])} :
                      /\ parts' = j.parts /\ forged' = j.forged /\ open' = j.open
                      /\ gaps' = {g \in gaps : g[1] # h \/ j.failed} \cup j.gaps
                      /\ rows' = With(rows, j.active)
                      /\ held' = HeldAfter(held, h, j.done, ListedBy(j.active))
  BY <1>0a
<1>3. PICK i3 : /\ i3 = Lineage!Carried(i2, h, "nic", lists["nic"])
                /\ parts' = i3.parts /\ forged' = i3.forged /\ open' = i3.open
                /\ gaps' = {g \in gaps : g[1] # h \/ i3.failed} \cup i3.gaps
                /\ rows' = With(rows, i3.active)
                /\ held' = HeldAfter(held, h, i3.done, ListedBy(i3.active))
  BY <1>2
<1>4. CarriedOK(i0, h, {}, rows, held, vs)
  <2>1. /\ i0.parts = parts /\ i0.failed = FALSE /\ i0.open = open /\ i0.gaps = {}
        /\ i0.forged = forged /\ i0.active = {} /\ i0.done = {}
        /\ i0 = [parts |-> i0.parts, failed |-> i0.failed, open |-> i0.open, gaps |-> i0.gaps,
                 forged |-> i0.forged, active |-> i0.active, done |-> i0.done]
    BY <1>0
  <2>2. With(rows, i0.active) = rows
    BY <2>1, WithNone
  <2>3. HeldAfter(held, h, i0.done, ListedBy(i0.active)) = held
    BY <2>1 DEF HeldAfter
  <2>4. ListedBy(i0.active) = {}
    BY <2>1 DEF ListedBy
  <2> QED
    BY <2>1, <2>2, <2>3, <2>4 DEF CarriedOK
<1>5. PICK k1, k2, k3 : k1 = "dimm" /\ k2 = "disk" /\ k3 = "nic"
  OBVIOUS
<1>6. /\ k1 \in Lineage!Kinds /\ k2 \in Lineage!Kinds /\ k3 \in Lineage!Kinds
      /\ k1 \notin {} /\ k2 \notin {} \cup {k1} /\ k3 \notin ({} \cup {k1}) \cup {k2}
  BY <1>5 DEF Lineage!Kinds
<1>7. CarriedOK(i1, h, {} \cup {k1}, rows, held, vs)
  <2>1. i1 = Lineage!Carried(i0, h, k1, lists[k1]) /\ ListOK(lists[k1], k1, vs)
    BY <1>1, <1>5, <1>6
  <2> QED
    BY <1>4, <1>6, <2>1, CarriedKeeps
<1>8. CarriedOK(i2, h, ({} \cup {k1}) \cup {k2}, rows, held, vs)
  <2>1. i2 = Lineage!Carried(i1, h, k2, lists[k2]) /\ ListOK(lists[k2], k2, vs)
    BY <1>2, <1>5, <1>6
  <2> QED
    BY <1>6, <1>7, <2>1, CarriedKeeps
<1>9. CarriedOK(i3, h, (({} \cup {k1}) \cup {k2}) \cup {k3}, rows, held, vs)
  <2>1. i3 = Lineage!Carried(i2, h, k3, lists[k3]) /\ ListOK(lists[k3], k3, vs)
    BY <1>3, <1>5, <1>6
  <2> QED
    BY <1>6, <1>8, <2>1, CarriedKeeps
<1>10. /\ parts' = i3.parts /\ forged' = i3.forged /\ open' = i3.open
       /\ gaps' = {g \in gaps : g[1] # h \/ i3.failed} \cup i3.gaps
       /\ rows' = With(rows, i3.active)
       /\ held' = HeldAfter(held, h, i3.done, ListedBy(i3.active))
  BY <1>3
<1>11. /\ PartsOK(i3.parts, With(rows, i3.active), vs)
       /\ i3.open \subseteq Placements(i3.parts)
       /\ HeldOK(i3.open, With(rows, i3.active), HeldAfter(held, h, i3.done, ListedBy(i3.active)), vs)
       /\ i3.gaps \subseteq Hosts \X Lineage!Kinds \X Lineage!Slots /\ i3.forged \subseteq Hosts \X Devices
  BY <1>9 DEF CarriedOK
<1>12. HeldAfter(held, h, i3.done, ListedBy(i3.active)) \in [Devices -> Hosts \cup {NoHost}]
  BY DEF HeldAfter
<1>13. PartsOK(parts', rows', vs)
  BY <1>10, <1>11
<1>14. HeldOK(open', rows', held', vs)
  BY <1>10, <1>11
<1>15. open' \subseteq Placements(parts')
  BY <1>10, <1>11
<1> QED
  BY <1>10, <1>11, <1>12, <1>13, <1>14, <1>15

(* Two parts of one device have the WWN of its like.                       *)
LEMMA OneClass ==
    ASSUME Lineage!LineageAssumption, NEW ps, NEW rs, NEW vs, PartsOK(ps, rs, vs),
           NEW d \in Devices, NEW e \in Devices, NEW i \in rs[d], i \in rs[e]
    PROVE  WwnOf[d] = WwnOf[e]
  BY DEF PartsOK, IsOf, Lineage!LineageAssumption

LEMMA MergeKeeps ==
    ASSUME Lineage!LineageAssumption, LineageInv,
           NEW i \in DOMAIN parts, NEW j \in DOMAIN parts, Lineage!MergeParts(i, j)
    PROVE  /\ PartsOK(parts', rows', varied) /\ open' \subseteq Placements(parts')
           /\ HeldOK(open', rows', held, varied)
<1>0. /\ PartsOK(parts, rows, varied) /\ i # j /\ Unread \notin Devices /\ varied \subseteq Devices
      /\ parts \in Seq(Lineage!Part) /\ rows \in [Devices -> SUBSET DOMAIN parts]
      /\ open \subseteq Placements(parts)
  BY DEF LineageInv, PartsOK, Lineage!MergeParts, Lineage!LineageAssumption
<1>1. PICK x \in Devices : i \in rows[x] /\ j \in rows[x]
  BY DEF Lineage!MergeParts
<1>2. ~Sure(x, varied)
  BY <1>0, <1>1 DEF PartsOK, SureOK
<1> DEFINE gone == [kind |-> "merged", wwn |-> Unread, serial |-> Unread]
           both == [kind |-> parts[j].kind, wwn |-> Lineage!Filled(parts[j].wwn, parts[i].wwn),
                    serial |-> Lineage!Filled(parts[j].serial, parts[i].serial)]
<1>3. /\ parts' = [parts EXCEPT ![i] = gone, ![j] = both]
      /\ parts[i].kind = parts[j].kind
      /\ open' = {IF p[1] = i THEN <<j, p[2], p[3]>> ELSE p : p \in open}
      /\ rows' = [d \in Devices |-> IF i \in rows[d] THEN (rows[d] \ {i}) \cup {j} ELSE rows[d]]
  BY DEF Lineage!MergeParts
<1>4. PartOK(parts[i], i, rows, varied) /\ PartOK(parts[j], j, rows, varied)
  BY <1>0 DEF PartsOK
<1>5. IsOf(parts[i], x) /\ IsOf(parts[j], x)
  BY <1>0, <1>1 DEF PartsOK
<1>6. /\ both.kind = parts[j].kind
      /\ both.wwn = IF parts[j].wwn = Unread THEN parts[i].wwn ELSE parts[j].wwn
      /\ both.serial = IF parts[j].serial = Unread THEN parts[i].serial ELSE parts[j].serial
      /\ gone.wwn = Unread /\ gone.serial = Unread
  BY DEF Lineage!Filled
<1>7. gone \in Lineage!Part /\ both \in Lineage!Part
  <2>1. parts[i] \in Lineage!Part /\ parts[j] \in Lineage!Part
    BY <1>4 DEF PartOK
  <2> QED
    BY <2>1 DEF Lineage!Part, Lineage!Filled
<1> HIDE DEF gone, both
<1>8. /\ DOMAIN parts' = DOMAIN parts /\ parts' \in Seq(Lineage!Part)
      /\ parts'[i] = gone /\ parts'[j] = both
      /\ \A k \in DOMAIN parts : k # i /\ k # j => parts'[k] = parts[k]
  BY <1>0, <1>3, <1>7
<1>9. ASSUME NEW d \in Devices
      PROVE  /\ rows'[d] = IF i \in rows[d] THEN (rows[d] \ {i}) \cup {j} ELSE rows[d]
             /\ \A k \in rows[d] : k # i => k \in rows'[d]
             /\ i \in rows[d] => j \in rows'[d]
             /\ i \notin rows'[d]
  BY <1>0, <1>3
<1>10. rows' \in [Devices -> SUBSET DOMAIN parts']
  BY <1>0, <1>3, <1>8
<1>11. PartOK(both, j, rows', varied)
  <2>1. both.serial # Unread => both.serial \in Devices /\ j \in rows'[both.serial]
    BY <1>0, <1>4, <1>6, <1>7, <1>9 DEF PartOK, Lineage!Part
  <2>2. both.wwn # Unread => both.kind = "disk"
    BY <1>3, <1>4, <1>6 DEF PartOK
  <2>3. ASSUME both.wwn # Unread, both.serial = Unread PROVE \E e \in varied : WwnOf[e] = both.wwn
    BY <1>4, <1>6, <2>3 DEF PartOK
  <2> QED
    BY <1>7, <2>1, <2>2, <2>3 DEF PartOK
<1>12. ASSUME NEW k \in DOMAIN parts' PROVE PartOK(parts'[k], k, rows', varied)
  <2>1. CASE k = i
    BY <1>6, <1>7, <1>8, <2>1 DEF PartOK
  <2>2. CASE k = j
    BY <1>8, <1>11, <2>2
  <2>3. CASE k # i /\ k # j
    <3>1. PartOK(parts[k], k, rows, varied) /\ parts'[k] = parts[k]
      BY <1>0, <1>8, <2>3 DEF PartsOK
    <3>2. parts[k].serial # Unread => parts[k].serial \in Devices
      BY <3>1 DEF PartOK, Lineage!Part
    <3> QED
      BY <1>9, <2>3, <3>1, <3>2 DEF PartOK
  <2> QED
    BY <2>1, <2>2, <2>3
<1>13. ASSUME NEW d \in Devices, i \in rows[d] \/ j \in rows[d]
       PROVE  WwnOf[d] = WwnOf[x] /\ KindOf[d] = parts[j].kind
  <2>1. WwnOf[d] = WwnOf[x]
    BY <1>0, <1>1, <1>13, OneClass
  <2> QED
    BY <1>0, <1>3, <1>13, <2>1 DEF PartsOK, IsOf
<1>14. ASSUME NEW d \in Devices, NEW k \in rows'[d] PROVE IsOf(parts'[k], d)
  <2>1. CASE k = j
    <3>1. i \in rows[d] \/ j \in rows[d]
      BY <1>9, <1>14, <2>1
    <3>2. WwnOf[d] = WwnOf[x] /\ KindOf[d] = parts[j].kind
      BY <1>13, <3>1
    <3>3. both.wwn \in {Unread, WwnOf[d]} /\ (both.wwn # Unread \/ both.serial # Unread)
      BY <1>5, <1>6, <3>2 DEF IsOf
    <3>4. both.serial # Unread => both.serial \in Devices /\ WwnOf[both.serial] = WwnOf[d]
      BY <1>5, <1>6, <3>2 DEF IsOf
    <3> QED
      BY <1>6, <1>8, <2>1, <3>2, <3>3, <3>4 DEF IsOf
  <2>2. CASE k # j
    <3>1. k \in rows[d] /\ k # i
      BY <1>0, <1>9, <1>14, <2>2
    <3>2. k \in DOMAIN parts /\ IsOf(parts[k], d)
      BY <1>0, <3>1 DEF PartsOK
    <3> QED
      BY <1>8, <2>2, <3>1, <3>2
  <2> QED
    BY <2>1, <2>2
<1>15. ASSUME NEW d \in Devices, Sure(d, varied)
       PROVE  i \notin rows[d] /\ j \notin rows[d] /\ rows'[d] = rows[d] /\ WwnOf[d] # WwnOf[x]
  <2>1. WwnOf[d] # WwnOf[x]
    BY <1>2, <1>15 DEF Sure
  <2>2. i \notin rows[d] /\ j \notin rows[d]
    BY <1>13, <2>1
  <2> QED
    BY <1>9, <2>1, <2>2
<1>16. ASSUME NEW d \in Devices, Sure(d, varied) PROVE SureOK(d, parts', rows')
  <2>1. SureOK(d, parts, rows) /\ WwnOf[d] # Unread
    BY <1>0, <1>16 DEF PartsOK, Lineage!LineageAssumption
  <2>2. rows'[d] = rows[d] /\ i \notin rows[d] /\ j \notin rows[d] /\ WwnOf[d] # WwnOf[x]
    BY <1>15, <1>16
  <2>3. \A k \in rows[d] : k \in DOMAIN parts /\ parts'[k] = parts[k]
    BY <1>0, <1>8, <2>2
  <2>4. parts'[i].wwn # WwnOf[d] /\ parts'[j].wwn # WwnOf[d]
    BY <1>5, <1>6, <1>8, <2>1, <2>2 DEF IsOf
  <2>5. parts[i].wwn # WwnOf[d] /\ parts[j].wwn # WwnOf[d]
    BY <1>5, <2>1, <2>2 DEF IsOf
  <2>6. \A k \in DOMAIN parts : parts'[k].wwn = WwnOf[d] <=> parts[k].wwn = WwnOf[d]
    BY <1>8, <2>4, <2>5
  <2> QED
    BY <1>8, <2>1, <2>2, <2>3, <2>6 DEF SureOK
<1>17. PartsOK(parts', rows', varied)
  BY <1>0, <1>8, <1>10, <1>12, <1>14, <1>16 DEF PartsOK
<1>18. open' \subseteq Placements(parts')
  BY <1>0, <1>3, <1>8 DEF Placements
<1>19. ASSUME NEW d \in Devices, Sure(d, varied), NEW h \in Hosts
       PROVE  held[d] = h <=> \E p \in open' : p[1] \in rows'[d] /\ p[2] = h
  <2>1. rows'[d] = rows[d] /\ i \notin rows[d] /\ j \notin rows[d]
    BY <1>15, <1>19
  <2>2. held[d] = h <=> \E p \in open : p[1] \in rows[d] /\ p[2] = h
    BY <1>19 DEF LineageInv, HeldOK
  <2>3. ASSUME NEW p \in open, p[1] \in rows[d] PROVE p \in open'
    BY <1>3, <2>1, <2>3
  <2>4. ASSUME NEW p \in open', p[1] \in rows[d] PROVE p \in open
    <3>1. PICK q \in open : p = IF q[1] = i THEN <<j, q[2], q[3]>> ELSE q
      BY <1>3
    <3>2. q[1] # i
      <4> SUFFICES ASSUME q[1] = i PROVE FALSE
        OBVIOUS
      <4>1. p[1] = j
        BY <3>1
      <4> QED
        BY <2>1, <2>4, <4>1
    <3> QED
      BY <3>1, <3>2
  <2> QED
    BY <2>1, <2>2, <2>3, <2>4
<1> QED
  BY <1>17, <1>18, <1>19 DEF HeldOK
LEMMA StartsInOrder ==
    ASSUME Lineage!LineageAssumption, Lineage!Init
    PROVE  LineageInv
<1>1. PartsOK(parts, rows, varied)
  BY DEF Lineage!Init, PartsOK, SureOK
<1>2. HeldOK(open, rows, held, varied)
  BY DEF Lineage!Init, HeldOK, Lineage!LineageAssumption
<1>3. \A h \in Hosts, k \in Lineage!Kinds : ListOK(seen[h][k], k, varied)
  BY DEF Lineage!Init, ListOK
<1> QED
  BY <1>1, <1>2, <1>3 DEF Lineage!Init, LineageInv

LEMMA MoveKeeps ==
    ASSUME Lineage!LineageAssumption, LineageInv, NEW d \in Devices,
           NEW h \in Hosts \cup {NoHost}, NEW slot, Lineage!Move(d, h, slot),
           (h = NoHost /\ slot = 0) \/ (h \in Hosts /\ slot \in Lineage!Slots)
    PROVE  LineageInv'
<1>1. UNCHANGED <<seen, parts, open, gaps, forged, held, rows, varied>>
  BY DEF Lineage!Move
<1>2. where' \in [Devices -> (Hosts \X Lineage!Slots) \cup {<<NoHost, 0>>}]
  BY DEF Lineage!Move, LineageInv
<1>3. PartsOK(parts, rows, varied)' /\ HeldOK(open, rows, held, varied)'
  BY <1>1 DEF LineageInv, PartsOK, PartOK, HeldOK, Sure, SureOK, IsOf
<1>4. \A g \in Hosts, k \in Lineage!Kinds : ListOK(seen[g][k], k, varied)'
  BY <1>1 DEF LineageInv, ListOK, LineOK
<1> QED
  BY <1>1, <1>2, <1>3, <1>4 DEF LineageInv, Placements

(* More devices that were read in part leave less to be said.              *)
LEMMA LessIsSure ==
    ASSUME NEW ps, NEW rs, NEW op, NEW hd, NEW vs, NEW ws, vs \subseteq ws, ws \subseteq Devices
    PROVE  /\ PartsOK(ps, rs, vs) => PartsOK(ps, rs, ws)
           /\ HeldOK(op, rs, hd, vs) => HeldOK(op, rs, hd, ws)
           /\ \A list, kind : ListOK(list, kind, vs) => ListOK(list, kind, ws)
<1>1. \A d \in Devices : Sure(d, ws) => Sure(d, vs)
  BY DEF Sure
<1>2. ASSUME NEW p, NEW i, PartOK(p, i, rs, vs) PROVE PartOK(p, i, rs, ws)
  BY <1>2 DEF PartOK
<1>3. ASSUME NEW line, NEW kind, LineOK(line, kind, vs) PROVE LineOK(line, kind, ws)
  BY <1>3 DEF LineOK
<1>4. PartsOK(ps, rs, vs) => PartsOK(ps, rs, ws)
  BY <1>1, <1>2 DEF PartsOK
<1>5. HeldOK(op, rs, hd, vs) => HeldOK(op, rs, hd, ws)
  BY <1>1 DEF HeldOK
<1> QED
  BY <1>3, <1>4, <1>5 DEF ListOK

LEMMA ListingOK ==
    ASSUME Lineage!LineageAssumption, LineageInv, NEW h \in Hosts, NEW kind \in Lineage!Kinds,
           NEW fields, NEW vs,
           \A d \in Lineage!At(h, kind) : d \notin vs => fields[d] \in {{}, {"wwn", "serial"}}
    PROVE  /\ ListOK(Lineage!Listing(h, kind, fields), kind, vs)
           /\ Lineage!Listing(h, kind, fields) \subseteq Lineage!Slots \X Lineage!Line
<1>1. ASSUME NEW x \in Lineage!Listing(h, kind, fields)
      PROVE  x \in Lineage!Slots \X Lineage!Line /\ x[1] \in Lineage!Slots /\ LineOK(x[2], kind, vs)
  <2>1. PICK d \in Lineage!At(h, kind) : x = <<where[d][2], Lineage!LineOf(d, fields[d])>>
    BY DEF Lineage!Listing
  <2>2. d \in Devices /\ KindOf[d] = kind /\ where[d][1] = h
    BY DEF Lineage!At
  <2>3. where[d][2] \in Lineage!Slots
    <3>1. where[d] \in (Hosts \X Lineage!Slots) \cup {<<NoHost, 0>>}
      BY <2>2 DEF LineageInv
    <3>2. where[d] # <<NoHost, 0>>
      BY <2>2 DEF Lineage!LineageAssumption
    <3> QED
      BY <3>1, <3>2
  <2>4. PICK line : line = Lineage!LineOf(d, fields[d])
    OBVIOUS
  <2>5. /\ line = [device |-> d, wwn |-> line.wwn, serial |-> line.serial]
        /\ line.device = d
        /\ line.wwn = IF "wwn" \in fields[d] /\ KindOf[d] = "disk" THEN WwnOf[d] ELSE Unread
        /\ line.serial = IF "serial" \in fields[d] THEN d ELSE Unread
    BY <2>4 DEF Lineage!LineOf
  <2>6. line \in Lineage!Line
    <3>1. line.wwn \in {WwnOf[e] : e \in Devices} \cup {Unread} /\ line.serial \in Devices \cup {Unread}
      BY <2>2, <2>5
    <3> QED
      BY <2>2, <2>5, <3>1 DEF Lineage!Line
  <2>7. line.wwn # Unread => line.wwn = WwnOf[d] /\ kind = "disk"
    BY <2>2, <2>5
  <2>8. line.serial # Unread => line.serial = d
    BY <2>5
  <2>9. ASSUME d \notin vs
        PROVE  /\ line.serial = Unread => line.wwn = Unread
               /\ kind = "disk" /\ line.wwn = Unread => line.serial = Unread
    <3>1. CASE fields[d] = {}
      BY <2>5, <3>1
    <3>2. CASE fields[d] = {"wwn", "serial"}
      <4>1. line.serial = d /\ (kind = "disk" => line.wwn = WwnOf[d])
        BY <2>2, <2>5, <3>2
      <4>2. d # Unread /\ WwnOf[d] # Unread
        BY <2>2 DEF Lineage!LineageAssumption
      <4> QED
        BY <4>1, <4>2
    <3> QED
      BY <2>1, <2>9, <3>1, <3>2
  <2>10. LineOK(line, kind, vs)
    BY <2>2, <2>5, <2>6, <2>7, <2>8, <2>9 DEF LineOK
  <2>11. x = <<where[d][2], line>>
    BY <2>1, <2>4
  <2>12. x[1] = where[d][2] /\ x[2] = line
    BY <2>11
  <2> QED
    BY <2>3, <2>6, <2>10, <2>11, <2>12
<1> QED
  BY <1>1 DEF ListOK

LEMMA PassKeeps ==
    ASSUME Lineage!LineageAssumption, LineageInv, NEW h \in Hosts,
           NEW kinds \in SUBSET {KindOf[d] : d \in Devices}, NEW fields, Lineage!Pass(h, kinds, fields)
    PROVE  LineageInv'
<1> DEFINE fresh(k) == Lineage!Listing(h, k, fields)
           lists == [k \in Lineage!Kinds |-> IF k \in kinds THEN fresh(k) ELSE seen[h][k]]
<1>0. /\ seen' = [seen EXCEPT ![h] = lists] /\ Lineage!ReconcileHost(h, lists) /\ UNCHANGED where
      /\ varied' = varied \cup {d \in UNION {Lineage!At(h, k) : k \in kinds} :
                                   fields[d] \notin {{}, {"wwn", "serial"}}}
  BY DEF Lineage!Pass
<1>1. varied \subseteq varied' /\ varied' \subseteq Devices
  BY <1>0 DEF LineageInv, PartsOK, Lineage!At
<1>2. PICK vs : vs = varied'
  OBVIOUS
<1>3. /\ PartsOK(parts, rows, vs) /\ HeldOK(open, rows, held, vs)
      /\ \A g \in Hosts, k \in Lineage!Kinds : ListOK(seen[g][k], k, vs)
  BY <1>1, <1>2, LessIsSure DEF LineageInv
<1>4. ASSUME NEW k \in Lineage!Kinds
      PROVE  lists[k] \subseteq Lineage!Slots \X Lineage!Line /\ ListOK(lists[k], k, vs)
  <2>1. CASE k \in kinds
    <3>1. \A d \in Lineage!At(h, k) : d \notin vs => fields[d] \in {{}, {"wwn", "serial"}}
      BY <1>0, <1>2, <2>1
    <3>2. lists[k] = Lineage!Listing(h, k, fields)
      BY <2>1
    <3>3. /\ ListOK(Lineage!Listing(h, k, fields), k, vs)
          /\ Lineage!Listing(h, k, fields) \subseteq Lineage!Slots \X Lineage!Line
      BY <3>1, ListingOK
    <3> QED
      BY <3>2, <3>3
  <2>2. CASE k \notin kinds
    <3>1. lists[k] = seen[h][k]
      BY <2>2
    <3>2. seen[h][k] \subseteq Lineage!Slots \X Lineage!Line
      BY DEF LineageInv
    <3> QED
      BY <1>3, <3>1, <3>2
  <2> QED
    BY <2>1, <2>2
<1>5. PICK ls : ls = lists
  OBVIOUS
<1>6. \A k \in Lineage!Kinds : ListOK(ls[k], k, vs)
  BY <1>4, <1>5
<1>7. ls \in [Lineage!Kinds -> SUBSET (Lineage!Slots \X Lineage!Line)]
  BY <1>4, <1>5
<1>8. seen' = [seen EXCEPT ![h] = ls] /\ Lineage!ReconcileHost(h, ls)
  BY <1>0, <1>5
<1> HIDE DEF lists
<1>9. /\ PartsOK(parts', rows', vs) /\ open' \subseteq Placements(parts')
      /\ gaps' \subseteq Hosts \X Lineage!Kinds \X Lineage!Slots /\ forged' \subseteq Hosts \X Devices
      /\ held' \in [Devices -> Hosts \cup {NoHost}] /\ HeldOK(open', rows', held', vs)
  BY <1>3, <1>6, <1>8, ReconcileKeeps DEF LineageInv
<1>10. seen' \in [Hosts -> [Lineage!Kinds -> SUBSET (Lineage!Slots \X Lineage!Line)]]
  BY <1>7, <1>8 DEF LineageInv
<1>11. ASSUME NEW g \in Hosts, NEW k \in Lineage!Kinds PROVE ListOK(seen'[g][k], k, varied')
  <2>1. seen'[g] = IF g = h THEN ls ELSE seen[g]
    BY <1>8 DEF LineageInv
  <2> QED
    BY <1>2, <1>3, <1>6, <2>1
<1>12. where' \in [Devices -> (Hosts \X Lineage!Slots) \cup {<<NoHost, 0>>}]
  BY <1>0 DEF LineageInv
<1>13. PartsOK(parts', rows', varied') /\ HeldOK(open', rows', held', varied')
  BY <1>2, <1>9
<1> QED
  BY <1>9, <1>10, <1>11, <1>12, <1>13 DEF LineageInv, PartsOK, PartOK, HeldOK, Sure, SureOK, IsOf,
                                          ListOK, LineOK, Placements

LEMMA RetireKeeps ==
    ASSUME Lineage!LineageAssumption, LineageInv, NEW h \in Hosts, Lineage!RetireHost(h)
    PROVE  LineageInv'
<1>1. /\ UNCHANGED <<where, seen, parts, rows, varied>>
      /\ open' = {p \in open : p[2] # h} /\ gaps' = {g \in gaps : g[1] # h}
      /\ forged' = {f \in forged : f[1] # h}
      /\ held' = [d \in Devices |-> IF held[d] = h THEN NoHost ELSE held[d]]
  BY DEF Lineage!RetireHost
<1>2. PartsOK(parts, rows, varied)'
  BY <1>1 DEF LineageInv, PartsOK, PartOK, Sure, SureOK, IsOf
<1>3. HeldOK(open, rows, held, varied)'
  <2> SUFFICES ASSUME NEW d \in Devices, Sure(d, varied), NEW g \in Hosts
               PROVE  held'[d] = g <=> \E p \in open' : p[1] \in rows[d] /\ p[2] = g
    BY <1>1 DEF HeldOK, Sure
  <2>1. held[d] = g <=> \E p \in open : p[1] \in rows[d] /\ p[2] = g
    BY DEF LineageInv, HeldOK
  <2>2. held'[d] = g <=> held[d] = g /\ g # h
    BY <1>1 DEF Lineage!LineageAssumption
  <2> QED
    BY <1>1, <2>1, <2>2
<1>4. \A g \in Hosts, k \in Lineage!Kinds : ListOK(seen[g][k], k, varied)'
  BY <1>1 DEF LineageInv, ListOK, LineOK
<1>5. held' \in [Devices -> Hosts \cup {NoHost}]
  BY <1>1 DEF LineageInv
<1> QED
  BY <1>1, <1>2, <1>3, <1>4, <1>5 DEF LineageInv, Placements

LEMMA NextLineageInv ==
    ASSUME Lineage!LineageAssumption, LineageInv, [Lineage!Next]_Lineage!vars
    PROVE  LineageInv'
<1>1. ASSUME NEW d \in Devices, NEW h \in Hosts, NEW s \in Lineage!Slots, Lineage!Move(d, h, s)
      PROVE  LineageInv'
  BY <1>1, MoveKeeps
<1>2. ASSUME NEW d \in Devices, Lineage!Move(d, NoHost, 0) PROVE LineageInv'
  <2>1. PICK s : s = 0
    OBVIOUS
  <2>2. PICK g : g = NoHost
    OBVIOUS
  <2>3. g \in Hosts \cup {NoHost}
    BY <2>2
  <2>5. (g = NoHost /\ s = 0) \/ (g \in Hosts /\ s \in Lineage!Slots)
    BY <2>1, <2>2
  <2>4. Lineage!Move(d, g, s)
    BY <1>2, <2>1, <2>2
  <2> QED
    BY <2>3, <2>4, <2>5, MoveKeeps
<1>3. ASSUME NEW h \in Hosts, NEW kinds \in SUBSET {KindOf[d] : d \in Devices}, NEW fields,
             Lineage!Pass(h, kinds, fields)
      PROVE  LineageInv'
  BY <1>3, PassKeeps
<1>4. ASSUME NEW h \in Hosts, Lineage!RetireHost(h) PROVE LineageInv'
  BY <1>4, RetireKeeps
<1>5. ASSUME NEW i \in DOMAIN parts, NEW j \in DOMAIN parts, Lineage!MergeParts(i, j)
      PROVE  LineageInv'
  <2>1. UNCHANGED <<where, seen, gaps, forged, held, varied>>
    BY <1>5 DEF Lineage!MergeParts
  <2>2. /\ PartsOK(parts', rows', varied) /\ open' \subseteq Placements(parts')
        /\ HeldOK(open', rows', held, varied)
    BY <1>5, MergeKeeps
  <2>3. PartsOK(parts, rows, varied)' /\ HeldOK(open, rows, held, varied)'
    BY <2>1, <2>2 DEF PartsOK, PartOK, HeldOK, Sure, SureOK, IsOf
  <2>4. \A g \in Hosts, k \in Lineage!Kinds : ListOK(seen[g][k], k, varied)'
    BY <2>1 DEF LineageInv, ListOK, LineOK
  <2> QED
    BY <2>1, <2>2, <2>3, <2>4 DEF LineageInv, Placements
<1>6. CASE UNCHANGED Lineage!vars
  <2>1. UNCHANGED <<where, seen, parts, open, gaps, forged, held, rows, varied>>
    BY <1>6 DEF Lineage!vars
  <2>2. PartsOK(parts, rows, varied)' /\ HeldOK(open, rows, held, varied)'
    BY <2>1 DEF LineageInv, PartsOK, PartOK, HeldOK, Sure, SureOK, IsOf
  <2>3. \A g \in Hosts, k \in Lineage!Kinds : ListOK(seen[g][k], k, varied)'
    BY <2>1 DEF LineageInv, ListOK, LineOK
  <2> QED
    BY <2>1, <2>2, <2>3 DEF LineageInv, Placements
<1> QED
  BY <1>1, <1>2, <1>3, <1>4, <1>5, <1>6 DEF Lineage!Next

(* Every part that is open, or that a device was taken for, is a row; and  *)
(* what is noted of a line is of a slot and a kind, or of a device.        *)
THEOREM LineageTypes ==
    ASSUME Lineage!LineageAssumption
    PROVE  Lineage!Spec => []Lineage!TypeOK
<1>1. LineageInv => Lineage!TypeOK
  BY DEF LineageInv, PartsOK, Placements, Lineage!TypeOK
<1>2. LineageInv /\ [Lineage!Next]_Lineage!vars => LineageInv'
  BY NextLineageInv
<1>3. Lineage!Init => LineageInv
  BY StartsInOrder
<1> QED
  BY <1>1, <1>2, <1>3, PTL DEF Lineage!Spec

(* THE INVENTORY FOLLOWS THE REPORTS, for any hosts, devices and WWNs,     *)
(* however many of the devices show the same one, and however many passes, *)
(* moves, retirements and merges in any order: a device that was read in   *)
(* full or not at all, with all that show its WWN, is one part, no other   *)
(* device's, and is open on the host of the last list that held it.        *)
THEOREM InventoryFollows ==
    ASSUME Lineage!LineageAssumption
    PROVE  Lineage!Spec => []Lineage!LineageFollowsReports
<1>1. LineageInv => Lineage!LineageFollowsReports
  <2> SUFFICES ASSUME LineageInv, NEW d \in Devices, Lineage!Known(d)
               PROVE  /\ Lineage!Cardinality(rows[d]) <= 1
                      /\ \A e \in Devices \ {d} : rows[d] \cap rows[e] = {}
                      /\ {p[2] : p \in {q \in open : q[1] \in rows[d]}} = {held[d]} \ {NoHost}
    BY DEF Lineage!LineageFollowsReports
  <2>1. Sure(d, varied) /\ PartsOK(parts, rows, varied) /\ SureOK(d, parts, rows)
    BY DEF Lineage!Known, Sure, LineageInv, PartsOK
  <2>2. Lineage!Cardinality(rows[d]) <= 1
    <3>1. CASE rows[d] = {}
      <4>1. Cardinality(rows[d]) = 0
        BY <3>1, FS_EmptySet
      <4>2. Lineage!Cardinality(rows[d]) = Cardinality(rows[d])
        BY SameCardinality
      <4> QED
        BY <4>1, <4>2
    <3>2. CASE rows[d] # {}
      <4>0. PICK i : i \in rows[d]
        BY <3>2
      <4>1. rows[d] = {i}
        BY <2>1, <4>0 DEF SureOK
      <4>2. Cardinality({i}) = 1
        BY FS_Singleton
      <4>3. Lineage!Cardinality(rows[d]) = Cardinality(rows[d])
        BY SameCardinality
      <4> QED
        BY <4>1, <4>2, <4>3
    <3> QED
      BY <3>1, <3>2
  <2>3. ASSUME NEW e \in Devices \ {d}, NEW i \in rows[d], i \in rows[e] PROVE FALSE
    <3>1. parts[i].serial = d
      BY <2>1 DEF SureOK
    <3>2. WwnOf[d] = WwnOf[e]
      BY <2>1, <2>3, OneClass
    <3>3. Sure(e, varied)
      BY <2>1, <3>2 DEF Sure
    <3>4. parts[i].serial = e
      BY <2>1, <2>3, <3>3 DEF PartsOK, SureOK
    <3> QED
      BY <3>1, <3>4
  <2>4. \A h \in Hosts : held[d] = h <=> \E p \in open : p[1] \in rows[d] /\ p[2] = h
    BY <2>1 DEF LineageInv, HeldOK
  <2>5. held[d] \in Hosts \cup {NoHost} /\ NoHost \notin Hosts /\ \A p \in open : p[2] \in Hosts
    BY DEF LineageInv, Placements, Lineage!LineageAssumption
  <2>6. {p[2] : p \in {q \in open : q[1] \in rows[d]}} = {held[d]} \ {NoHost}
    BY <2>4, <2>5
  <2> QED
    BY <2>2, <2>3, <2>6
<1>2. LineageInv /\ [Lineage!Next]_Lineage!vars => LineageInv'
  BY NextLineageInv
<1>3. Lineage!Init => LineageInv
  BY StartsInOrder
<1> QED
  BY <1>1, <1>2, <1>3, PTL DEF Lineage!Spec
-----------------------------------------------------------------------------
(***************************************************************************)
(* The discovery passes.  What a pass does to the finding followed is a    *)
(* fold over its reports; two lemmas say what becomes of a row by it from  *)
(* what the reports are as a whole (RowIsResolved, RowIsJudged), and one   *)
(* for each pass says what its reports are (PassOK).                       *)
(***************************************************************************)

Pointed(r) == key \in r.issues
Eyed(r)    == key[1] \in r.looked /\ key[2] \in r.at

Lined(rs) == Len(rs) \in Nat /\ DOMAIN rs = 1 .. Len(rs)

Blamed(rs)  == \E i \in DOMAIN rs : Pointed(rs[i])
Covered(rs) == \E i \in DOMAIN rs : Eyed(rs[i])

(* No report of a pass clears what another one reports.                    *)
Agreed(rs) == \A i, j \in DOMAIN rs : Pointed(rs[i]) /\ Eyed(rs[j]) => Pointed(rs[j])

IsReconciling(f, n, before, rs) ==
    f = [k \in 0 .. n |-> IF k = 0 THEN before ELSE Discovery!Reconciled(f[k - 1], rs[k])]

LEMMA ReconcilingUnfolds ==
    ASSUME NEW before, NEW rs
    PROVE  Discovery!Reconciling(before, rs) = (CHOOSE f : IsReconciling(f, Len(rs), before, rs))[Len(rs)]
  BY DEF Discovery!Reconciling, IsReconciling

LEMMA ReconcilingExists ==
    ASSUME NEW before, NEW rs, NEW n \in Nat
    PROVE  \E f : IsReconciling(f, n, before, rs)
<1> DEFINE Has(k) == \E f : IsReconciling(f, k, before, rs)
           S == {k \in Nat : ~ Has(k)}
<1> SUFFICES ASSUME S # {} PROVE FALSE
  OBVIOUS
<1>1. PICK k \in S : \A m \in S : k <= m
  BY LeastWithout
<1>2. k # 0
  <2> DEFINE f == [j \in 0 .. 0 |-> before]
  <2>1. IsReconciling(f, 0, before, rs)
    BY DEF IsReconciling
  <2> QED
    BY <2>1
<1>3. k - 1 \in Nat /\ k - 1 \notin S
  BY <1>1, <1>2
<1>4. PICK f : IsReconciling(f, k - 1, before, rs)
  BY <1>3
<1> DEFINE g == [j \in 0 .. k |-> IF j < k THEN f[j] ELSE Discovery!Reconciled(f[k - 1], rs[k])]
<1>5. f = [j \in 0 .. k - 1 |-> IF j = 0 THEN before ELSE Discovery!Reconciled(f[j - 1], rs[j])]
  BY <1>4 DEF IsReconciling
<1>6. ASSUME NEW j \in 0 .. k
      PROVE  g[j] = IF j = 0 THEN before ELSE Discovery!Reconciled(g[j - 1], rs[j])
  <2>1. CASE j = k
    BY <1>2, <2>1
  <2>2. CASE j < k
    <3>1. f[j] = IF j = 0 THEN before ELSE Discovery!Reconciled(f[j - 1], rs[j])
      BY <1>5, <2>2
    <3>2. j # 0 => g[j - 1] = f[j - 1]
      BY <2>2
    <3> QED
      BY <2>2, <3>1, <3>2
  <2> QED
    BY <2>1, <2>2
<1>7. IsReconciling(g, k, before, rs)
  BY <1>6 DEF IsReconciling
<1> QED
  BY <1>7

(* The rows between the reports.                                           *)
LEMMA RowsBetween ==
    ASSUME NEW before, NEW rs, Lined(rs)
    PROVE  \E f : /\ f[0] = before /\ f[Len(rs)] = Discovery!Reconciling(before, rs)
                  /\ \A k \in 1 .. Len(rs) : f[k] = Discovery!Reconciled(f[k - 1], rs[k])
<1>1. Len(rs) \in Nat
  BY DEF Lined
<1>2. PICK f : f = CHOOSE g : IsReconciling(g, Len(rs), before, rs)
  OBVIOUS
<1>3. IsReconciling(f, Len(rs), before, rs)
  BY <1>1, <1>2, ReconcilingExists
<1>4. f[Len(rs)] = Discovery!Reconciling(before, rs)
  BY <1>2, ReconcilingUnfolds
<1>5. \A k \in 0 .. Len(rs) : f[k] = IF k = 0 THEN before ELSE Discovery!Reconciled(f[k - 1], rs[k])
  BY <1>3 DEF IsReconciling
<1>6. f[0] = before
  BY <1>1, <1>5
<1>7. \A k \in 1 .. Len(rs) : f[k] = Discovery!Reconciled(f[k - 1], rs[k])
  BY <1>1, <1>5
<1> QED
  BY <1>4, <1>6, <1>7

(* A row is what a report makes of it.                                     *)
LEMMA OneReport ==
    ASSUME NEW before \in Discovery!Statuses, NEW r
    PROVE  /\ Discovery!Reconciled(before, r) \in Discovery!Statuses
           /\ Pointed(r) => /\ Discovery!Reconciled(before, r) \in {"open", "acknowledged", "suppressed"}
                            /\ before \in {"open", "acknowledged"} =>
                                  Discovery!Reconciled(before, r) \in {"open", "acknowledged"}
           /\ ~Pointed(r) /\ ~Eyed(r) => Discovery!Reconciled(before, r) = before
           /\ ~Pointed(r) /\ Eyed(r) => Discovery!Reconciled(before, r) \in {"none", "resolved", "suppressed"}
           /\ ~Pointed(r) /\ before \in {"none", "resolved", "suppressed"} => Discovery!Reconciled(before, r) = before
  BY DEF Discovery!Reconciled, Discovery!Statuses, Pointed, Eyed

LEMMA RowIsResolved ==
    ASSUME NEW before \in Discovery!Statuses, NEW rs, Lined(rs)
    PROVE  /\ Discovery!Reconciling(before, rs) \in Discovery!Statuses
           /\ before \in {"open", "acknowledged"} /\ Discovery!Reconciling(before, rs) = "resolved" =>
                 \E i \in DOMAIN rs : Eyed(rs[i]) /\ ~Pointed(rs[i])
<1>0. Len(rs) \in Nat /\ DOMAIN rs = 1 .. Len(rs)
  BY DEF Lined
<1>1. PICK f : /\ f[0] = before /\ f[Len(rs)] = Discovery!Reconciling(before, rs)
               /\ \A k \in 1 .. Len(rs) : f[k] = Discovery!Reconciled(f[k - 1], rs[k])
  BY RowsBetween
<1> DEFINE Cleared == \E i \in DOMAIN rs : Eyed(rs[i]) /\ ~Pointed(rs[i])
           OK(k) == /\ f[k] \in Discovery!Statuses
                    /\ before \in {"open", "acknowledged"} /\ ~Cleared => f[k] \in {"open", "acknowledged"}
           S == {k \in 0 .. Len(rs) : ~ OK(k)}
<1>2. S = {}
  <2> SUFFICES ASSUME S # {} PROVE FALSE
    OBVIOUS
  <2>0. S \subseteq Nat
    BY <1>0
  <2>1. PICK k \in S : \A m \in S : k <= m
    <3> HIDE DEF S
    <3> QED
      BY <2>0, LeastWithout
  <2>2. CASE k = 0
    BY <1>1, <2>1, <2>2
  <2>3. CASE k # 0
    <3>1. k \in 1 .. Len(rs) /\ k - 1 \in 0 .. Len(rs) /\ k - 1 \notin S
      BY <1>0, <2>1, <2>3
    <3>2. OK(k - 1)
      BY <3>1
    <3>3. f[k] = Discovery!Reconciled(f[k - 1], rs[k])
      BY <1>1, <3>1
    <3>4. OK(k)
      BY <1>0, <3>1, <3>2, <3>3, OneReport
    <3> QED
      BY <2>1, <3>4
  <2> QED
    BY <2>2, <2>3
<1>3. OK(Len(rs))
  BY <1>0, <1>2
<1> QED
  BY <1>1, <1>3

LEMMA RowIsJudged ==
    ASSUME NEW before \in Discovery!Statuses, NEW rs, Lined(rs), Agreed(rs)
    PROVE  /\ Blamed(rs) => Discovery!Reconciling(before, rs) \in {"open", "acknowledged", "suppressed"}
           /\ ~Blamed(rs) /\ Covered(rs) =>
                 Discovery!Reconciling(before, rs) \in {"none", "resolved", "suppressed"}
<1>0. Len(rs) \in Nat /\ DOMAIN rs = 1 .. Len(rs)
  BY DEF Lined
<1>1. PICK f : /\ f[0] = before /\ f[Len(rs)] = Discovery!Reconciling(before, rs)
               /\ \A k \in 1 .. Len(rs) : f[k] = Discovery!Reconciled(f[k - 1], rs[k])
  BY RowsBetween
<1> DEFINE Opened(k) == (\E i \in 1 .. k : Pointed(rs[i])) => f[k] \in {"open", "acknowledged", "suppressed"}
           Closed(k) == ~Blamed(rs) /\ (\E i \in 1 .. k : Eyed(rs[i]))
                           => f[k] \in {"none", "resolved", "suppressed"}
           OK(k) == f[k] \in Discovery!Statuses /\ Opened(k) /\ Closed(k)
           S == {k \in 0 .. Len(rs) : ~ OK(k)}
<1>2. S = {}
  <2> SUFFICES ASSUME S # {} PROVE FALSE
    OBVIOUS
  <2>0. S \subseteq Nat
    BY <1>0
  <2>1. PICK k \in S : \A m \in S : k <= m
    <3> HIDE DEF S
    <3> QED
      BY <2>0, LeastWithout
  <2>2. CASE k = 0
    BY <1>1, <2>1, <2>2
  <2>3. CASE k # 0
    <3>1. k \in 1 .. Len(rs) /\ k - 1 \in 0 .. Len(rs) /\ k - 1 \notin S
      BY <1>0, <2>1, <2>3
    <3>2. OK(k - 1)
      BY <3>1
    <3>3. f[k] = Discovery!Reconciled(f[k - 1], rs[k])
      BY <1>1, <3>1
    <3>4. f[k] \in Discovery!Statuses
      BY <3>2, <3>3, OneReport
    <3>5. Opened(k)
      <4> SUFFICES ASSUME NEW i \in 1 .. k, Pointed(rs[i])
                   PROVE  f[k] \in {"open", "acknowledged", "suppressed"}
        OBVIOUS
      <4>1. CASE Pointed(rs[k])
        BY <3>2, <3>3, <4>1, OneReport
      <4>2. CASE ~Pointed(rs[k])
        <5>1. i \in 1 .. k - 1 /\ i \in DOMAIN rs /\ k \in DOMAIN rs
          BY <1>0, <3>1, <4>2
        <5>2. ~Eyed(rs[k])
          BY <4>2, <5>1 DEF Agreed
        <5>3. f[k] = f[k - 1]
          BY <3>2, <3>3, <4>2, <5>2, OneReport
        <5> QED
          BY <3>2, <5>1, <5>3
      <4> QED
        BY <4>1, <4>2
    <3>6. Closed(k)
      <4> SUFFICES ASSUME ~Blamed(rs), NEW i \in 1 .. k, Eyed(rs[i])
                   PROVE  f[k] \in {"none", "resolved", "suppressed"}
        OBVIOUS
      <4>0. ~Pointed(rs[k])
        BY <1>0, <3>1 DEF Blamed
      <4>1. CASE i = k
        BY <3>2, <3>3, <4>0, <4>1, OneReport
      <4>2. CASE i # k
        <5>1. i \in 1 .. k - 1
          BY <3>1, <4>2
        <5>2. f[k - 1] \in {"none", "resolved", "suppressed"}
          BY <3>2, <5>1
        <5> QED
          BY <3>2, <3>3, <4>0, <5>2, OneReport
      <4> QED
        BY <4>1, <4>2
    <3> QED
      BY <2>1, <3>4, <3>5, <3>6
  <2> QED
    BY <2>2, <2>3
<1>3. OK(Len(rs))
  BY <1>0, <1>2
<1>4. Blamed(rs) => f[Len(rs)] \in {"open", "acknowledged", "suppressed"}
  BY <1>0, <1>3 DEF Blamed
<1>5. ~Blamed(rs) /\ Covered(rs) => f[Len(rs)] \in {"none", "resolved", "suppressed"}
  BY <1>0, <1>3 DEF Covered
<1> QED
  BY <1>1, <1>4, <1>5
-----------------------------------------------------------------------------
(* What the passes are about, and where that comes from.                   *)
LEMMA CatalogOf ==
    /\ Discovery!CategoriesOf("versions")
          = {"pve-updates", "pve-mixed", "ceph-mixed", "ceph-eol", "os-eol", "k8s-skew", "k8s-eol", "hass-updates"}
    /\ Discovery!CategoriesOf("backups")
          = {"backup-uncovered", "backup-stale", "backup-verify", "backup-orphans", "backup-capacity"}
    /\ Discovery!CategoriesOf("storage")
          = {"storage-snapshot-stale", "storage-detached-disk", "storage-template-clutter",
             "storage-headroom", "storage-released-pv"}
    /\ Discovery!CategoriesOf("suggestions") = {"capability-idle-gpu", "building-block-missing"}
    /\ Discovery!CategoriesOf("capacity") = {"filesystem-full", "filesystem-headroom", "memory-headroom"}
    /\ Discovery!CategoriesOf("anomalies") = {"cpu-above-baseline", "network-above-baseline"}
    /\ Discovery!CategoriesOf("rightsizing") = {"mem-shrink", "mem-grow", "idle"}
    /\ Discovery!CategoriesOf("printwarden")
          = {"printwarden-unreachable", "printer-offline", "printer-klippy", "printer-failing"}
    /\ Discovery!CategoriesOf("jetkvm") = {"jetkvm-unreachable", "host-unreachable"}
    /\ Discovery!CategoriesOf("disks") = {"disk-failing", "disk-hot"}
    /\ Discovery!CategoriesOf("raid") = {"raid-inactive", "raid-rebuilding", "raid-degraded"}
    /\ Discovery!CategoriesOf("bottlenecks")
          = {"memory-pressure", "cluster-link-asymmetry", "storage-single-uplink"}
    /\ \A pass \in {"argocd", "workloads", "networks", "exports"} : Discovery!CategoriesOf(pass) = {pass}
  BY DEF Discovery!CategoriesOf

LEMMA SourcesOfCategory ==
    /\ \A c \in {"pve-updates", "pve-mixed"} : Discovery!SourcesOf(c) = {"status", "nodes"}
    /\ \A c \in {"ceph-mixed", "ceph-eol"} : Discovery!SourcesOf(c) = {"ceph"}
    /\ Discovery!SourcesOf("hass-updates") = {"hass"}
    /\ \A c \in {"os-eol", "k8s-skew", "k8s-eol"} : Discovery!SourcesOf(c) = {}
    /\ \A c \in Discovery!CategoriesOf("backups") : Discovery!SourcesOf(c) = {"lists", "content"}
    /\ Discovery!SourcesOf("storage-released-pv") = {"k8s"}
    /\ \A c \in {"storage-snapshot-stale", "storage-detached-disk", "storage-template-clutter",
                 "storage-headroom"} : Discovery!SourcesOf(c) = {"proxmox"}
    /\ Discovery!SourcesOf("printwarden-unreachable") = {}
    /\ \A c \in {"printer-offline", "printer-klippy", "printer-failing"} : Discovery!SourcesOf(c) = {"warden"}
    /\ \A pass \in {"suggestions", "capacity", "anomalies", "rightsizing", "jetkvm", "disks", "raid", "bottlenecks"} :
          \A c \in Discovery!CategoriesOf(pass) : Discovery!SourcesOf(c) = {}
    /\ \A c \in {"argocd", "workloads", "networks", "exports"} : Discovery!SourcesOf(c) = {"list"}
<1>1. /\ \A c \in {"pve-updates", "pve-mixed"} : Discovery!SourcesOf(c) = {"status", "nodes"}
      /\ \A c \in {"ceph-mixed", "ceph-eol"} : Discovery!SourcesOf(c) = {"ceph"}
      /\ Discovery!SourcesOf("hass-updates") = {"hass"}
  BY CatalogOf DEF Discovery!SourcesOf
<1>2. /\ \A c \in {"os-eol", "k8s-skew", "k8s-eol"} : Discovery!SourcesOf(c) = {}
      /\ \A c \in Discovery!CategoriesOf("backups") : Discovery!SourcesOf(c) = {"lists", "content"}
      /\ Discovery!SourcesOf("storage-released-pv") = {"k8s"}
  BY CatalogOf DEF Discovery!SourcesOf
<1>3. \A c \in {"storage-snapshot-stale", "storage-detached-disk", "storage-template-clutter",
                 "storage-headroom"} : Discovery!SourcesOf(c) = {"proxmox"}
  BY CatalogOf DEF Discovery!SourcesOf
<1>4. /\ Discovery!SourcesOf("printwarden-unreachable") = {}
      /\ \A c \in {"printer-offline", "printer-klippy", "printer-failing"} : Discovery!SourcesOf(c) = {"warden"}
  BY CatalogOf DEF Discovery!SourcesOf
<1>5. \A c \in {"capability-idle-gpu", "building-block-missing", "filesystem-full", "filesystem-headroom",
                "memory-headroom", "cpu-above-baseline", "network-above-baseline", "mem-shrink", "mem-grow",
                "idle"} : Discovery!SourcesOf(c) = {}
  BY CatalogOf DEF Discovery!SourcesOf
<1>6. \A c \in {"jetkvm-unreachable", "host-unreachable", "disk-failing", "disk-hot", "raid-inactive",
                "raid-rebuilding", "raid-degraded", "memory-pressure", "cluster-link-asymmetry",
                "storage-single-uplink"} : Discovery!SourcesOf(c) = {}
  BY CatalogOf DEF Discovery!SourcesOf
<1>7. \A c \in {"argocd", "workloads", "networks", "exports"} : Discovery!SourcesOf(c) = {"list"}
  BY CatalogOf DEF Discovery!SourcesOf
<1>8. \A pass \in {"suggestions", "capacity", "anomalies", "rightsizing", "jetkvm", "disks", "raid", "bottlenecks"} :
          \A c \in Discovery!CategoriesOf(pass) : Discovery!SourcesOf(c) = {}
  BY <1>5, <1>6, CatalogOf
<1> QED
  BY <1>1, <1>2, <1>3, <1>4, <1>7, <1>8

LEMMA ScopedCategories ==
    Discovery!Scoped = {"printwarden-unreachable", "printer-offline", "printer-klippy", "printer-failing",
                        "disk-failing", "disk-hot", "raid-inactive", "raid-rebuilding", "raid-degraded",
                        "argocd", "workloads", "exports", "host-unreachable"}
<1>1. UNION {Discovery!CategoriesOf(p) : p \in {"printwarden", "disks", "raid", "argocd", "workloads", "exports"}}
      = Discovery!CategoriesOf("printwarden") \cup Discovery!CategoriesOf("disks")
          \cup Discovery!CategoriesOf("raid") \cup {"argocd", "workloads", "exports"}
  BY CatalogOf
<1>2. Discovery!Scoped = (Discovery!CategoriesOf("printwarden") \cup Discovery!CategoriesOf("disks")
          \cup Discovery!CategoriesOf("raid") \cup {"argocd", "workloads", "exports"}) \cup {"host-unreachable"}
  BY <1>1 DEF Discovery!Scoped
<1> QED
  BY <1>2, CatalogOf

(* A finding's key is a category and a target.                             *)
LEMMA KeyShape ==
    ASSUME key \in Discovery!Keys
    PROVE  /\ key = <<key[1], key[2]>> /\ key[2] \in Discovery!TargetsOf(key[1])
           /\ \E p \in Discovery!Passes : key[1] \in Discovery!CategoriesOf(p)
<1> DEFINE KeysOf(p) == UNION {{c} \X Discovery!TargetsOf(c) : c \in Discovery!CategoriesOf(p)}
<1>1. key \in UNION {KeysOf(p) : p \in Discovery!Passes}
  BY DEF Discovery!Keys
<1>2. PICK p \in Discovery!Passes : key \in KeysOf(p)
  <2> HIDE DEF KeysOf
  <2> QED
    BY <1>1
<1>3. PICK c \in Discovery!CategoriesOf(p) : key \in {c} \X Discovery!TargetsOf(c)
  BY <1>2
<1> QED
  BY <1>2, <1>3

LEMMA KeyFound ==
    ASSUME key \in Discovery!Keys, NEW c, NEW S
    PROVE  key \in Discovery!Found(c, S) <=> key[1] = c /\ key[2] \in S
  BY KeyShape DEF Discovery!Found
-----------------------------------------------------------------------------
(* Whoever looks at the finding asked its sources.                         *)
Informed(rs, pass, up) ==
    \A i \in DOMAIN rs : Eyed(rs[i]) => /\ key[1] \in Discovery!CategoriesOf(pass)
                                        /\ Discovery!SourcesOf(key[1]) \subseteq up

(* Who looks at a finding of a scoped category and does not report it      *)
(* would not if everything were shown.                                     *)
Heals(rs, whole) ==
    \A i \in DOMAIN rs :
       key[1] \in Discovery!Scoped /\ Eyed(rs[i]) /\ ~Pointed(rs[i]) => ~Blamed(whole)

Whole(pass, facts) ==
    Discovery!Reports(pass, facts, Discovery!Sources(pass), Discovery!Sight(pass))

PartialOK(pass, facts) ==
    \A up \in SUBSET Discovery!Asked(pass), shown \in SUBSET Discovery!Sight(pass) :
       /\ Lined(Discovery!Reports(pass, facts, up, shown))
       /\ Informed(Discovery!Reports(pass, facts, up, shown), pass, up)
       /\ key[1] \in Discovery!CategoriesOf(pass) =>
             Heals(Discovery!Reports(pass, facts, up, shown), Whole(pass, facts))

FullOK(pass, facts) ==
    key[1] \in Discovery!CategoriesOf(pass) /\ Discovery!Of("namesake", facts) = {} =>
       /\ Agreed(Discovery!Reports(pass, facts, Discovery!Asked(pass), Discovery!Sight(pass)))
       /\ Blamed(Discovery!Reports(pass, facts, Discovery!Asked(pass), Discovery!Sight(pass)))
             <=> Blamed(Whole(pass, facts))

PassOK(pass, facts) == PartialOK(pass, facts) /\ FullOK(pass, facts)

LEMMA NoReport == Lined(<<>>) /\ DOMAIN <<>> = {} /\ Agreed(<<>>) /\ ~Blamed(<<>>)
  BY DEF Lined, Agreed, Blamed

LEMMA SingleReport ==
    ASSUME NEW r
    PROVE  /\ Lined(<<r>>) /\ DOMAIN <<r>> = {1} /\ <<r>>[1] = r /\ Agreed(<<r>>)
           /\ Blamed(<<r>>) <=> Pointed(r)
  BY DEF Lined, Agreed, Blamed

LEMMA ReportFields ==
    ASSUME NEW issues, NEW looked, NEW at
    PROVE  /\ Pointed(Discovery!Report(issues, looked, at)) <=> key \in issues
           /\ Eyed(Discovery!Report(issues, looked, at)) <=> key[1] \in looked /\ key[2] \in at
           /\ Discovery!Report(issues, looked, at).looked = looked
  BY DEF Discovery!Report, Pointed, Eyed

-----------------------------------------------------------------------------
(* A pass that is one report, of categories that need no source.           *)
LEMMA SourcelessOK ==
    ASSUME NEW pass, NEW facts,
           \A up, shown : \E r : /\ Discovery!Reports(pass, facts, up, shown) = <<r>>
                                 /\ r.looked \subseteq Discovery!CategoriesOf(pass),
           \A up, other, shown :
              Discovery!Reports(pass, facts, up, shown) = Discovery!Reports(pass, facts, other, shown),
           \A c \in Discovery!CategoriesOf(pass) : Discovery!SourcesOf(c) = {} /\ c \notin Discovery!Scoped
    PROVE  PassOK(pass, facts)
<1>1. ASSUME NEW up, NEW shown
      PROVE  /\ Lined(Discovery!Reports(pass, facts, up, shown))
             /\ Informed(Discovery!Reports(pass, facts, up, shown), pass, up)
             /\ Agreed(Discovery!Reports(pass, facts, up, shown))
  <2>1. PICK r : /\ Discovery!Reports(pass, facts, up, shown) = <<r>>
                 /\ r.looked \subseteq Discovery!CategoriesOf(pass)
    OBVIOUS
  <2>2. Informed(<<r>>, pass, up)
    BY <2>1 DEF Informed, Eyed
  <2> QED
    BY <2>1, <2>2, SingleReport
<1>2. PartialOK(pass, facts)
  BY <1>1 DEF PartialOK, Heals
<1>3. FullOK(pass, facts)
  BY <1>1 DEF FullOK, Whole
<1> QED
  BY <1>2, <1>3 DEF PassOK

LEMMA SuggestionsOK ==
    ASSUME NEW facts
    PROVE  PassOK("suggestions", facts)
<1>1. ASSUME NEW up, NEW shown
      PROVE  Discovery!Reports("suggestions", facts, up, shown) = Discovery!Suggestions(facts, shown)
  BY DEF Discovery!Reports
<1>2. ASSUME NEW shown
      PROVE  \E r : /\ Discovery!Suggestions(facts, shown) = <<r>>
                    /\ r.looked \subseteq Discovery!CategoriesOf("suggestions")
  <2> DEFINE r == Discovery!Report(Discovery!IdleGpuIssues(facts, shown) \cup Discovery!BuildingBlockIssues(facts), Discovery!CategoriesOf("suggestions"), Discovery!Everywhere)
  <2>1. Discovery!Suggestions(facts, shown) = <<r>>
    BY DEF Discovery!Suggestions
  <2>2. r.looked \subseteq Discovery!CategoriesOf("suggestions")
    BY ReportFields, CatalogOf
  <2> HIDE DEF r
  <2> QED
    BY <2>1, <2>2
<1>3. \A c \in Discovery!CategoriesOf("suggestions") : Discovery!SourcesOf(c) = {} /\ c \notin Discovery!Scoped
  BY CatalogOf, SourcesOfCategory, ScopedCategories
<1> QED
  BY <1>1, <1>2, <1>3, SourcelessOK

LEMMA CapacityOK ==
    ASSUME NEW facts
    PROVE  PassOK("capacity", facts)
<1>1. ASSUME NEW up, NEW shown
      PROVE  Discovery!Reports("capacity", facts, up, shown) = Discovery!Capacity(facts, shown)
  BY DEF Discovery!Reports
<1>2. ASSUME NEW shown
      PROVE  \E r : /\ Discovery!Capacity(facts, shown) = <<r>>
                    /\ r.looked \subseteq Discovery!CategoriesOf("capacity")
  <2> DEFINE r == Discovery!Report(Discovery!FilesystemIssues(facts, shown) \cup Discovery!NodeIssues(facts, shown), Discovery!Only(shown # {}, Discovery!CategoriesOf("capacity")), Discovery!Everywhere)
  <2>1. Discovery!Capacity(facts, shown) = <<r>>
    BY DEF Discovery!Capacity
  <2>2. r.looked \subseteq Discovery!CategoriesOf("capacity")
    BY ReportFields, CatalogOf DEF Discovery!Only
  <2> HIDE DEF r
  <2> QED
    BY <2>1, <2>2
<1>3. \A c \in Discovery!CategoriesOf("capacity") : Discovery!SourcesOf(c) = {} /\ c \notin Discovery!Scoped
  BY CatalogOf, SourcesOfCategory, ScopedCategories
<1> QED
  BY <1>1, <1>2, <1>3, SourcelessOK

LEMMA AnomaliesOK ==
    ASSUME NEW facts
    PROVE  PassOK("anomalies", facts)
<1>1. ASSUME NEW up, NEW shown
      PROVE  Discovery!Reports("anomalies", facts, up, shown) = Discovery!Anomalies(facts, shown)
  BY DEF Discovery!Reports
<1>2. ASSUME NEW shown
      PROVE  \E r : /\ Discovery!Anomalies(facts, shown) = <<r>>
                    /\ r.looked \subseteq Discovery!CategoriesOf("anomalies")
  <2> DEFINE r == Discovery!Report(Discovery!SubjectIssues(facts, shown), {Discovery!Category(s[2]) : s \in shown}, {s[1] : s \in shown})
  <2>1. Discovery!Anomalies(facts, shown) = <<r>>
    BY DEF Discovery!Anomalies
  <2>2. r.looked \subseteq Discovery!CategoriesOf("anomalies")
    BY ReportFields, CatalogOf DEF Discovery!Category
  <2> HIDE DEF r
  <2> QED
    BY <2>1, <2>2
<1>3. \A c \in Discovery!CategoriesOf("anomalies") : Discovery!SourcesOf(c) = {} /\ c \notin Discovery!Scoped
  BY CatalogOf, SourcesOfCategory, ScopedCategories
<1> QED
  BY <1>1, <1>2, <1>3, SourcelessOK

LEMMA RightsizingOK ==
    ASSUME NEW facts
    PROVE  PassOK("rightsizing", facts)
<1>1. ASSUME NEW up, NEW shown
      PROVE  Discovery!Reports("rightsizing", facts, up, shown) = Discovery!Rightsizing(facts, shown)
  BY DEF Discovery!Reports
<1>2. ASSUME NEW shown
      PROVE  \E r : /\ Discovery!Rightsizing(facts, shown) = <<r>>
                    /\ r.looked \subseteq Discovery!CategoriesOf("rightsizing")
  <2> DEFINE r == Discovery!Report(Discovery!GuestRules(facts, shown), Discovery!CategoriesOf("rightsizing"), shown \cup Discovery!Of("resized", facts))
  <2>1. Discovery!Rightsizing(facts, shown) = <<r>>
    BY DEF Discovery!Rightsizing
  <2>2. r.looked \subseteq Discovery!CategoriesOf("rightsizing")
    BY ReportFields, CatalogOf
  <2> HIDE DEF r
  <2> QED
    BY <2>1, <2>2
<1>3. \A c \in Discovery!CategoriesOf("rightsizing") : Discovery!SourcesOf(c) = {} /\ c \notin Discovery!Scoped
  BY CatalogOf, SourcesOfCategory, ScopedCategories
<1> QED
  BY <1>1, <1>2, <1>3, SourcelessOK

LEMMA BottlenecksOK ==
    ASSUME NEW facts
    PROVE  PassOK("bottlenecks", facts)
<1>1. ASSUME NEW up, NEW shown
      PROVE  Discovery!Reports("bottlenecks", facts, up, shown) = Discovery!Bottlenecks(facts, shown)
  BY DEF Discovery!Reports
<1>2. ASSUME NEW shown
      PROVE  \E r : /\ Discovery!Bottlenecks(facts, shown) = <<r>>
                    /\ r.looked \subseteq Discovery!CategoriesOf("bottlenecks")
  <2> DEFINE r == Discovery!Report(Discovery!LinkAsymmetry(facts, shown) \cup Discovery!MemoryPressure(facts, shown) \cup Discovery!SingleUplink(facts, shown), Discovery!CategoriesOf("bottlenecks"), Discovery!Everywhere)
  <2>1. Discovery!Bottlenecks(facts, shown) = <<r>>
    BY DEF Discovery!Bottlenecks
  <2>2. r.looked \subseteq Discovery!CategoriesOf("bottlenecks")
    BY ReportFields, CatalogOf
  <2> HIDE DEF r
  <2> QED
    BY <2>1, <2>2
<1>3. \A c \in Discovery!CategoriesOf("bottlenecks") : Discovery!SourcesOf(c) = {} /\ c \notin Discovery!Scoped
  BY CatalogOf, SourcesOfCategory, ScopedCategories
<1> QED
  BY <1>1, <1>2, <1>3, SourcelessOK
-----------------------------------------------------------------------------
LEMMA SourcesOfPass ==
    /\ Discovery!Sources("versions") = {"status", "nodes", "ceph", "hass"}
    /\ Discovery!Sources("backups") = {"lists", "content"}
    /\ Discovery!Sources("storage") = {"proxmox", "k8s"}
    /\ Discovery!Sources("printwarden") = {"warden"}
    /\ Discovery!Sources("jetkvm") = {"kvm"}
    /\ \A pass \in {"argocd", "workloads", "networks", "exports"} : Discovery!Sources(pass) = {"list"}
    /\ \A pass \in {"disks", "raid"} : Discovery!Sources(pass) = {}
<1> DEFINE Needed(pass) == UNION {Discovery!SourcesOf(c) : c \in Discovery!CategoriesOf(pass)}
<1>1. \A pass : Discovery!Sources(pass) = Needed(pass) \cup (IF pass = "jetkvm" THEN {"kvm"} ELSE {})
  BY DEF Discovery!Sources
<1>2. ASSUME NEW pass, NEW s PROVE s \in Needed(pass) <=> \E c \in Discovery!CategoriesOf(pass) : s \in Discovery!SourcesOf(c)
  OBVIOUS
<1> HIDE DEF Needed
<1>3. Needed("versions") = {"status", "nodes", "ceph", "hass"}
  <2>1. ASSUME NEW s PROVE s \in Needed("versions") => s \in {"status", "nodes", "ceph", "hass"}
    BY <1>2, CatalogOf, SourcesOfCategory
  <2>2. /\ "pve-updates" \in Discovery!CategoriesOf("versions") /\ "ceph-eol" \in Discovery!CategoriesOf("versions")
        /\ "hass-updates" \in Discovery!CategoriesOf("versions")
    BY CatalogOf
  <2>3. {"status", "nodes", "ceph", "hass"} \subseteq Needed("versions")
    BY <1>2, <2>2, SourcesOfCategory
  <2> QED
    BY <2>1, <2>3
<1>4. Needed("backups") = {"lists", "content"}
  <2>1. "backup-stale" \in Discovery!CategoriesOf("backups")
    BY CatalogOf
  <2> QED
    BY <1>2, <2>1, SourcesOfCategory
<1>5. Needed("storage") = {"proxmox", "k8s"}
  <2>1. ASSUME NEW s PROVE s \in Needed("storage") => s \in {"proxmox", "k8s"}
    BY <1>2, CatalogOf, SourcesOfCategory
  <2>2. "storage-headroom" \in Discovery!CategoriesOf("storage") /\ "storage-released-pv" \in Discovery!CategoriesOf("storage")
    BY CatalogOf
  <2>3. {"proxmox", "k8s"} \subseteq Needed("storage")
    BY <1>2, <2>2, SourcesOfCategory
  <2> QED
    BY <2>1, <2>3
<1>6. Needed("printwarden") = {"warden"}
  <2>1. ASSUME NEW s PROVE s \in Needed("printwarden") => s \in {"warden"}
    BY <1>2, CatalogOf, SourcesOfCategory
  <2>2. "printer-failing" \in Discovery!CategoriesOf("printwarden")
    BY CatalogOf
  <2> QED
    BY <1>2, <2>1, <2>2, SourcesOfCategory
<1>7. \A pass \in {"jetkvm", "disks", "raid"} : Needed(pass) = {}
  BY <1>2, SourcesOfCategory
<1>8. \A pass \in {"argocd", "workloads", "networks", "exports"} : Needed(pass) = {"list"}
  BY <1>2, CatalogOf, SourcesOfCategory
<1> QED
  BY <1>1, <1>3, <1>4, <1>5, <1>6, <1>7, <1>8

(* Most passes have no source but those of the finding.                    *)
LEMMA AskedIsAll ==
    ASSUME NEW pass \in {"backups", "printwarden", "jetkvm", "disks", "raid",
                         "argocd", "workloads", "networks", "exports"},
           key[1] \in Discovery!CategoriesOf(pass)
    PROVE  Discovery!Asked(pass) = Discovery!Sources(pass)
<1>1. CASE pass \in {"printwarden", "jetkvm", "disks", "raid"}
  BY <1>1, SourcesOfPass DEF Discovery!Asked
<1>2. CASE pass = "backups"
  BY <1>2, SourcesOfPass, SourcesOfCategory DEF Discovery!Asked
<1>3. CASE pass \in {"argocd", "workloads", "networks", "exports"}
  BY <1>3, SourcesOfPass, SourcesOfCategory, CatalogOf DEF Discovery!Asked
<1> QED
  BY <1>1, <1>2, <1>3

LEMMA FullWhenAllAsked ==
    ASSUME NEW pass \in {"backups", "printwarden", "jetkvm", "disks", "raid",
                         "argocd", "workloads", "networks", "exports"},
           NEW facts,
           key[1] \in Discovery!CategoriesOf(pass) /\ Discovery!Of("namesake", facts) = {} =>
              Agreed(Whole(pass, facts))
    PROVE  FullOK(pass, facts)
  BY AskedIsAll DEF FullOK, Whole

(* A source's list, as far as it was shown.                                *)
LEMMA ListedOK ==
    ASSUME key \in Discovery!Keys, NEW pass \in {"argocd", "workloads", "exports"}, NEW facts, NEW W,
           \A up, shown : Discovery!Reports(pass, facts, up, shown) = Discovery!Listed(pass, W, up, shown)
    PROVE  PassOK(pass, facts)
<1> DEFINE r(shown) == Discovery!Report(Discovery!Found(pass, shown \cap W), {pass}, shown)
<1>1. \A up, shown : Discovery!Listed(pass, W, up, shown) = IF "list" \notin up THEN <<>> ELSE <<r(shown)>>
  BY DEF Discovery!Listed
<1>2. \A shown : /\ Pointed(r(shown)) <=> key[1] = pass /\ key[2] \in shown \cap W
                 /\ Eyed(r(shown)) <=> key[1] = pass /\ key[2] \in shown
  BY ReportFields, KeyFound
<1> HIDE DEF r
<1>3. "list" \in Discovery!Sources(pass) /\ Discovery!SourcesOf(pass) = {"list"}
  BY SourcesOfPass, SourcesOfCategory
<1>4. Whole(pass, facts) = <<r(Discovery!Sight(pass))>>
  BY <1>1, <1>3 DEF Whole
<1>5. pass \in Discovery!CategoriesOf(pass)
  BY CatalogOf
<1>6. ASSUME NEW up \in SUBSET Discovery!Asked(pass), NEW shown \in SUBSET Discovery!Sight(pass), "list" \in up
      PROVE  /\ Lined(<<r(shown)>>) /\ Informed(<<r(shown)>>, pass, up)
             /\ Heals(<<r(shown)>>, Whole(pass, facts))
  <2>1. Informed(<<r(shown)>>, pass, up)
    BY <1>2, <1>3, <1>5, <1>6 DEF Informed
  <2>2. Heals(<<r(shown)>>, Whole(pass, facts))
    BY <1>2, <1>4, SingleReport DEF Heals
  <2> QED
    BY <2>1, <2>2, SingleReport
<1>7. ASSUME NEW up PROVE Lined(<<>>) /\ Informed(<<>>, pass, up) /\ Heals(<<>>, Whole(pass, facts))
  BY NoReport DEF Informed, Heals
<1>8. PartialOK(pass, facts)
  BY <1>1, <1>6, <1>7 DEF PartialOK
<1>9. FullOK(pass, facts)
  BY <1>4, SingleReport, FullWhenAllAsked
<1> QED
  BY <1>8, <1>9 DEF PassOK

LEMMA ListsOK ==
    ASSUME key \in Discovery!Keys, NEW facts
    PROVE  PassOK("argocd", facts) /\ PassOK("workloads", facts) /\ PassOK("exports", facts)
<1>1. \A up, shown : Discovery!Reports("argocd", facts, up, shown)
                     = Discovery!Listed("argocd", Discovery!Wrong(facts), up, shown)
  BY DEF Discovery!Reports, Discovery!Drift
<1>2. \A up, shown : Discovery!Reports("workloads", facts, up, shown)
                     = Discovery!Listed("workloads", Discovery!Wrong(facts), up, shown)
  BY DEF Discovery!Reports, Discovery!Workloads
<1>3. \A up, shown : Discovery!Reports("exports", facts, up, shown)
                     = Discovery!Listed("exports", Discovery!StrayExports(facts), up, shown)
  BY DEF Discovery!Reports, Discovery!Exports
<1> QED
  BY <1>1, <1>2, <1>3, ListedOK

LEMMA BackupsOK ==
    ASSUME NEW facts
    PROVE  PassOK("backups", facts)
<1>1. ASSUME NEW up, NEW shown
      PROVE  \E r : /\ Discovery!Reports("backups", facts, up, shown)
                       = IF {"lists", "content"} \subseteq up THEN <<r>> ELSE <<>>
                    /\ r.looked = Discovery!CategoriesOf("backups")
  <2> DEFINE r == Discovery!Report(Discovery!BackupIssues(facts, shown) \cup Discovery!OrphanIssues(facts, shown)
                                     \cup Discovery!FullStorageIssues(facts, shown),
                                   Discovery!CategoriesOf("backups"), Discovery!Everywhere)
  <2>1. Discovery!Reports("backups", facts, up, shown) = IF {"lists", "content"} \subseteq up THEN <<r>> ELSE <<>>
    BY DEF Discovery!Reports, Discovery!Backups
  <2>2. r.looked = Discovery!CategoriesOf("backups")
    BY ReportFields
  <2> HIDE DEF r
  <2> QED
    BY <2>1, <2>2
<1>2. \A c \in Discovery!CategoriesOf("backups") : Discovery!SourcesOf(c) = {"lists", "content"} /\ c \notin Discovery!Scoped
  BY CatalogOf, SourcesOfCategory, ScopedCategories
<1>3. ASSUME NEW up, NEW shown
      PROVE  /\ Lined(Discovery!Reports("backups", facts, up, shown))
             /\ Informed(Discovery!Reports("backups", facts, up, shown), "backups", up)
             /\ Agreed(Discovery!Reports("backups", facts, up, shown))
  <2>1. PICK r : /\ Discovery!Reports("backups", facts, up, shown)
                    = IF {"lists", "content"} \subseteq up THEN <<r>> ELSE <<>>
                 /\ r.looked = Discovery!CategoriesOf("backups")
    BY <1>1
  <2>2. {"lists", "content"} \subseteq up => Informed(<<r>>, "backups", up)
    BY <1>2, <2>1 DEF Informed, Eyed
  <2>3. Informed(<<>>, "backups", up)
    BY NoReport DEF Informed
  <2> QED
    BY <2>1, <2>2, <2>3, SingleReport, NoReport
<1>4. PartialOK("backups", facts)
  BY <1>2, <1>3 DEF PartialOK, Heals
<1>5. FullOK("backups", facts)
  BY <1>3, FullWhenAllAsked DEF Whole
<1> QED
  BY <1>4, <1>5 DEF PassOK
-----------------------------------------------------------------------------
LEMMA StorageOK ==
    ASSUME key \in Discovery!Keys, NEW facts
    PROVE  PassOK("storage", facts)
<1> DEFINE P(up) == "proxmox" \in up
           K(up) == "k8s" \in up
           Issues(up, shown) ==
              Discovery!Only(P(up), Discovery!SnapshotIssues(facts) \cup Discovery!DetachedDiskIssues(facts)
                                      \cup Discovery!ClutterIssues(facts, shown)
                                      \cup Discovery!HeadroomIssues(facts, shown))
                \cup Discovery!Only(K(up), Discovery!ReleasedVolumeIssues(facts))
           Looked(up, shown) ==
              Discovery!Only(P(up), {"storage-snapshot-stale", "storage-detached-disk", "storage-template-clutter"})
                \cup Discovery!Only(P(up) /\ shown # {}, {"storage-headroom"})
                \cup Discovery!Only(K(up), {"storage-released-pv"})
           r(up, shown) == Discovery!Report(Issues(up, shown), Looked(up, shown), Discovery!Everywhere)
<1>1. ASSUME NEW up, NEW shown
      PROVE  Discovery!Reports("storage", facts, up, shown) = <<r(up, shown)>>
  BY DEF Discovery!Reports, Discovery!Storage
<1>2. ASSUME NEW up, NEW shown
      PROVE  /\ Pointed(r(up, shown)) <=> key \in Issues(up, shown)
             /\ Eyed(r(up, shown)) => key[1] \in Looked(up, shown)
  <2> HIDE DEF Issues, Looked
  <2> QED
    BY ReportFields
<1>3. ASSUME NEW up, NEW shown, key[1] \in Looked(up, shown)
      PROVE  key[1] \in Discovery!CategoriesOf("storage") /\ Discovery!SourcesOf(key[1]) \subseteq up
  BY <1>3, CatalogOf, SourcesOfCategory DEF Discovery!Only
<1>4. ASSUME NEW up, NEW shown
      PROVE  key \in Issues(up, shown) <=>
                \/ /\ P(up)
                   /\ \/ key \in Discovery!SnapshotIssues(facts) \/ key \in Discovery!DetachedDiskIssues(facts)
                      \/ key \in Discovery!ClutterIssues(facts, shown) \/ key \in Discovery!HeadroomIssues(facts, shown)
                \/ K(up) /\ key \in Discovery!ReleasedVolumeIssues(facts)
  BY DEF Discovery!Only
<1>5. ASSUME NEW shown
      PROVE  /\ key \in Discovery!SnapshotIssues(facts) => key[1] = "storage-snapshot-stale"
             /\ key \in Discovery!DetachedDiskIssues(facts) => key[1] = "storage-detached-disk"
             /\ key \in Discovery!ClutterIssues(facts, shown) => key[1] = "storage-template-clutter"
             /\ key \in Discovery!HeadroomIssues(facts, shown) => key[1] = "storage-headroom"
             /\ key \in Discovery!ReleasedVolumeIssues(facts) => key[1] = "storage-released-pv"
  BY KeyFound DEF Discovery!SnapshotIssues, Discovery!DetachedDiskIssues, Discovery!ClutterIssues,
                  Discovery!HeadroomIssues, Discovery!ReleasedVolumeIssues
<1>6. ASSUME NEW up, NEW other, NEW shown, key[1] \in Discovery!CategoriesOf("storage"),
             Discovery!SourcesOf(key[1]) \subseteq up, Discovery!SourcesOf(key[1]) \subseteq other
      PROVE  key \in Issues(up, shown) <=> key \in Issues(other, shown)
  <2>1. CASE key[1] = "storage-released-pv"
    <3>1. K(up) /\ K(other)
      BY <1>6, <2>1, SourcesOfCategory
    <3> HIDE DEF Issues
    <3> QED
      BY <1>4, <1>5, <2>1, <3>1
  <2>2. CASE key[1] # "storage-released-pv"
    <3>1. P(up) /\ P(other)
      BY <1>6, <2>2, SourcesOfCategory, CatalogOf
    <3> HIDE DEF Issues
    <3> QED
      BY <1>4, <1>5, <2>2, <3>1
  <2> QED
    BY <2>1, <2>2
<1> HIDE DEF r, Issues, Looked
<1>7. \A up, shown : Informed(<<r(up, shown)>>, "storage", up)
  BY <1>2, <1>3, SingleReport DEF Informed
<1>8. key[1] \in Discovery!CategoriesOf("storage") => key[1] \notin Discovery!Scoped
  BY CatalogOf, ScopedCategories
<1>9. PartialOK("storage", facts)
  BY <1>1, <1>7, <1>8, SingleReport DEF PartialOK, Heals
<1>10. FullOK("storage", facts)
  <2> SUFFICES ASSUME key[1] \in Discovery!CategoriesOf("storage")
               PROVE  Pointed(r(Discovery!Asked("storage"), Discovery!Sight("storage")))
                         <=> Pointed(r(Discovery!Sources("storage"), Discovery!Sight("storage")))
    BY <1>1, SingleReport DEF FullOK, Whole
  <2>1. Discovery!SourcesOf(key[1]) \subseteq Discovery!Sources("storage")
    BY CatalogOf, SourcesOfCategory, SourcesOfPass
  <2>2. Discovery!SourcesOf(key[1]) \subseteq Discovery!Asked("storage")
    BY <2>1 DEF Discovery!Asked
  <2> QED
    BY <1>2, <1>6, <2>1, <2>2
<1> QED
  BY <1>9, <1>10 DEF PassOK

LEMMA VersionsOK ==
    ASSUME key \in Discovery!Keys, NEW facts
    PROVE  PassOK("versions", facts)
<1> DEFINE Name(up) == IF "status" \in up THEN "lab" ELSE "proxmox"
           Ceph(up) == Discovery!CephDaemons(facts, up)
           Kubelets(shown) == shown \cap Discovery!Of("has", facts)
           Issues(up, shown) ==
              Discovery!Only({"status", "nodes"} \subseteq up, Discovery!ProxmoxIssues(facts, shown))
                \cup Discovery!CephIssues(facts, Ceph(up), Name(up)) \cup Discovery!OsEolIssues(facts, shown)
                \cup Discovery!K8sIssues(facts, Kubelets(shown)) \cup Discovery!K8sEolIssues(facts, Kubelets(shown))
                \cup Discovery!Only("hass" \in up, Discovery!HassIssues(facts))
           Looked(up, shown) == Discovery!VersionsLooked(up, Ceph(up), Kubelets(shown))
           r(up, shown) == Discovery!Report(Issues(up, shown), Looked(up, shown), Discovery!Everywhere)
<1>1. ASSUME NEW up, NEW shown
      PROVE  Discovery!Reports("versions", facts, up, shown) = <<r(up, shown)>>
  BY DEF Discovery!Reports, Discovery!Versions
<1>2. ASSUME NEW up, NEW shown
      PROVE  /\ Pointed(r(up, shown)) <=> key \in Issues(up, shown)
             /\ Eyed(r(up, shown)) => key[1] \in Looked(up, shown)
  <2> HIDE DEF Issues, Looked
  <2> QED
    BY ReportFields
<1>3. ASSUME NEW up, NEW shown, key[1] \in Looked(up, shown)
      PROVE  key[1] \in Discovery!CategoriesOf("versions") /\ Discovery!SourcesOf(key[1]) \subseteq up
  <2>1. Ceph(up) # {} => "ceph" \in up
    BY DEF Discovery!CephDaemons
  <2>2. \/ key[1] \in {"os-eol", "k8s-skew", "k8s-eol"}
        \/ key[1] \in {"pve-updates", "pve-mixed"} /\ {"status", "nodes"} \subseteq up
        \/ key[1] \in {"ceph-mixed", "ceph-eol"} /\ "ceph" \in up
        \/ key[1] = "hass-updates" /\ "hass" \in up
    BY <1>3, <2>1 DEF Discovery!VersionsLooked, Discovery!Only
  <2> QED
    BY <2>2, CatalogOf, SourcesOfCategory
<1>4. ASSUME NEW up, NEW shown
      PROVE  key \in Issues(up, shown) <=>
                \/ {"status", "nodes"} \subseteq up /\ key \in Discovery!ProxmoxIssues(facts, shown)
                \/ key \in Discovery!CephIssues(facts, Ceph(up), Name(up))
                \/ key \in Discovery!OsEolIssues(facts, shown)
                \/ key \in Discovery!K8sIssues(facts, Kubelets(shown))
                \/ key \in Discovery!K8sEolIssues(facts, Kubelets(shown))
                \/ "hass" \in up /\ key \in Discovery!HassIssues(facts)
  BY DEF Discovery!Only
<1>5. ASSUME NEW shown, NEW ceph, NEW name, NEW kubelets
      PROVE  /\ key \in Discovery!ProxmoxIssues(facts, shown) => key[1] \in {"pve-updates", "pve-mixed"}
             /\ key \in Discovery!CephIssues(facts, ceph, name) => key[1] \in {"ceph-mixed", "ceph-eol"}
             /\ key \in Discovery!HassIssues(facts) => key[1] = "hass-updates"
  BY KeyFound DEF Discovery!ProxmoxIssues, Discovery!CephIssues, Discovery!HassIssues, Discovery!Only
<1>6. ASSUME NEW up, NEW other, NEW shown, key[1] \in Discovery!CategoriesOf("versions"),
             "status" \in up, "status" \in other,
             Discovery!SourcesOf(key[1]) \subseteq up, Discovery!SourcesOf(key[1]) \subseteq other
      PROVE  key \in Issues(up, shown) <=> key \in Issues(other, shown)
  <2>1. Name(up) = Name(other)
    BY <1>6
  <2>2. CASE key[1] \in {"pve-updates", "pve-mixed"}
    <3>1. {"status", "nodes"} \subseteq up /\ {"status", "nodes"} \subseteq other
      BY <1>6, <2>2, SourcesOfCategory
    <3> HIDE DEF Issues, Name, Ceph, Kubelets
    <3> QED
      BY <1>4, <1>5, <2>2, <3>1
  <2>3. CASE key[1] \in {"ceph-mixed", "ceph-eol"}
    <3>1. Ceph(up) = Ceph(other)
      BY <1>6, <2>3, SourcesOfCategory DEF Discovery!CephDaemons
    <3> HIDE DEF Issues, Name, Ceph, Kubelets
    <3> QED
      BY <1>4, <1>5, <2>1, <2>3, <3>1
  <2>4. CASE key[1] = "hass-updates"
    <3>1. "hass" \in up /\ "hass" \in other
      BY <1>6, <2>4, SourcesOfCategory
    <3> HIDE DEF Issues, Name, Ceph, Kubelets
    <3> QED
      BY <1>4, <1>5, <2>4, <3>1
  <2>5. CASE key[1] \notin {"pve-updates", "pve-mixed", "ceph-mixed", "ceph-eol", "hass-updates"}
    <3> HIDE DEF Issues, Name, Ceph, Kubelets
    <3> QED
      BY <1>4, <1>5, <2>5
  <2> QED
    BY <2>2, <2>3, <2>4, <2>5
<1> HIDE DEF r, Issues, Looked
<1>7. \A up, shown : Informed(<<r(up, shown)>>, "versions", up)
  BY <1>2, <1>3, SingleReport DEF Informed
<1>8. key[1] \in Discovery!CategoriesOf("versions") => key[1] \notin Discovery!Scoped
  BY CatalogOf, ScopedCategories
<1>9. PartialOK("versions", facts)
  BY <1>1, <1>7, <1>8, SingleReport DEF PartialOK, Heals
<1>10. FullOK("versions", facts)
  <2> SUFFICES ASSUME key[1] \in Discovery!CategoriesOf("versions")
               PROVE  Pointed(r(Discovery!Asked("versions"), Discovery!Sight("versions")))
                         <=> Pointed(r(Discovery!Sources("versions"), Discovery!Sight("versions")))
    BY <1>1, SingleReport DEF FullOK, Whole
  <2>1. Discovery!SourcesOf(key[1]) \subseteq Discovery!Sources("versions")
    BY CatalogOf, SourcesOfCategory, SourcesOfPass
  <2>2. Discovery!SourcesOf(key[1]) \subseteq Discovery!Asked("versions")
    BY <2>1 DEF Discovery!Asked
  <2>3. "status" \in Discovery!Asked("versions") /\ "status" \in Discovery!Sources("versions")
    BY SourcesOfPass DEF Discovery!Asked
  <2> QED
    BY <1>2, <1>6, <2>1, <2>2, <2>3
<1> QED
  BY <1>9, <1>10 DEF PassOK
-----------------------------------------------------------------------------
LEMMA InstanceCounts ==
    ASSUME NEW S
    PROVE  Discovery!Cardinality(S) = Cardinality(S)
  BY DEF Discovery!Cardinality, Discovery!IsFiniteSet, Cardinality, IsFiniteSet

LEMMA FunctionIsLined ==
    ASSUME NEW n \in Nat, NEW T, NEW s \in [1 .. n -> T]
    PROVE  Lined(s) /\ Len(s) = n
<1>1. s \in Seq(T) /\ Len(s) = n
  BY LenProperties
<1> QED
  BY <1>1 DEF Lined

(* A finite set is written down as a sequence of its elements.             *)
LEMMA SequenceOfSet ==
    ASSUME NEW S, IsFiniteSet(S)
    PROVE  /\ Lined(Discovery!SetToSeq(S)) /\ Discovery!SetToSeq(S) \in Seq(S)
           /\ \A i \in DOMAIN Discovery!SetToSeq(S) : Discovery!SetToSeq(S)[i] \in S
<1> PICK n : n = Cardinality(S)
  OBVIOUS
<1>1. n \in Nat /\ ExistsBijection(1 .. n, S)
  BY FS_CardinalityType
<1>2. PICK g : g \in [1 .. n -> S] /\ \A i, j \in 1 .. n : g[i] = g[j] => i = j
  BY <1>1 DEF ExistsBijection, Bijection, Injection, IsInjective
<1> DEFINE Once(f) == Discovery!IsInjective(f)
<1>3. Once(g)
  BY <1>2 DEF Discovery!IsInjective
<1> PICK s : s = CHOOSE f \in [1 .. n -> S] : Discovery!IsInjective(f)
  OBVIOUS
<1>4. Discovery!SetToSeq(S) = s
  BY InstanceCounts DEF Discovery!SetToSeq
<1>5. s \in [1 .. n -> S]
  BY <1>2, <1>3
<1>6. s \in Seq(S)
  BY <1>1, <1>5, LenProperties
<1> QED
  BY <1>1, <1>4, <1>5, <1>6, FunctionIsLined

EachOf(T, f) == Discovery!SetToSeq({f[h] : h \in T})

LEMMA EachInSequence ==
    ASSUME NEW T, IsFiniteSet(T), NEW f
    PROVE  Lined(EachOf(T, f)) /\ EachOf(T, f) \in Seq({f[h] : h \in T})
<1> DEFINE S == {f[h] : h \in T}
           g == [h \in T |-> f[h]]
<1>1. g \in Surjection(T, S)
  BY DEF Surjection
<1>2. IsFiniteSet(S)
  <2> HIDE DEF S, g
  <2> QED
    BY <1>1, FS_Surjection
<1>3. EachOf(T, f) = Discovery!SetToSeq(S)
  BY DEF EachOf
<1> HIDE DEF S
<1>4. Lined(EachOf(T, f)) /\ EachOf(T, f) \in Seq(S)
  BY <1>2, <1>3, SequenceOfSet
<1> QED
  BY <1>4 DEF S

LEMMA SequenceOfEach ==
    ASSUME NEW T, IsFiniteSet(T), NEW f
    PROVE  /\ Lined(EachOf(T, f))
           /\ \A i \in DOMAIN EachOf(T, f) : \E h \in T : EachOf(T, f)[i] = f[h]
<1> PICK S : S = {f[h] : h \in T}
  OBVIOUS
<1>1. \A x \in S : \E h \in T : x = f[h]
  OBVIOUS
<1> PICK s : s = EachOf(T, f)
  OBVIOUS
<1>2. Lined(s) /\ s \in Seq(S)
  BY EachInSequence
<1>3. \A i \in DOMAIN s : s[i] \in S
  BY <1>2, LenProperties, ElementOfSeq
<1> QED
  BY <1>1, <1>2, <1>3

LEMMA ThingsFinite ==
    ASSUME Discovery!DiscoveryAssumption, NEW shown \in SUBSET Discovery!Things
    PROVE  IsFiniteSet(shown)
<1>1. Ranked \in Seq(Discovery!ToSet(Ranked))
  BY DEF Discovery!DiscoveryAssumption
<1>2. Len(Ranked) \in Nat /\ DOMAIN Ranked = 1 .. Len(Ranked)
  BY <1>1, LenProperties
<1>3. Discovery!Things = {Ranked[i] : i \in 1 .. Len(Ranked)}
  BY <1>2 DEF Discovery!Things, Discovery!ToSet
<1> DEFINE g == [i \in 1 .. Len(Ranked) |-> Ranked[i]]
<1>4. g \in Surjection(1 .. Len(Ranked), Discovery!Things)
  BY <1>3 DEF Surjection
<1>5. IsFiniteSet(1 .. Len(Ranked))
  BY <1>2, FS_Interval
<1> HIDE DEF g
<1>6. IsFiniteSet(Discovery!Things)
  BY <1>4, <1>5, FS_Surjection
<1> QED
  BY <1>6, FS_Subset

(* A pass that reports of each host by itself.                             *)
LEMMA EachOK ==
    ASSUME Discovery!DiscoveryAssumption, NEW pass \in {"disks", "raid"}, NEW facts, NEW f,
           \A h \in Discovery!Things : /\ Eyed(f[h]) => key[1] \in Discovery!CategoriesOf(pass) /\ key[2] = h
                                       /\ Pointed(f[h]) => key[2] = h,
           \A up : \A shown \in SUBSET Discovery!Things :
              Discovery!Reports(pass, facts, up, shown) = EachOf(shown, f)
    PROVE  PassOK(pass, facts)
<1>1. Discovery!Sight(pass) = Discovery!Things
  BY DEF Discovery!Sight
<1>2. \A c \in Discovery!CategoriesOf(pass) : Discovery!SourcesOf(c) = {}
  BY SourcesOfCategory
<1>3. ASSUME NEW up, NEW shown \in SUBSET Discovery!Things
      PROVE  /\ Lined(Discovery!Reports(pass, facts, up, shown))
             /\ \A i \in DOMAIN Discovery!Reports(pass, facts, up, shown) :
                   \E h \in Discovery!Things : Discovery!Reports(pass, facts, up, shown)[i] = f[h]
  <2>1. IsFiniteSet(shown)
    BY ThingsFinite
  <2>2. Lined(EachOf(shown, f)) /\ \A i \in DOMAIN EachOf(shown, f) : \E h \in shown : EachOf(shown, f)[i] = f[h]
    BY <2>1, SequenceOfEach
  <2>3. Discovery!Reports(pass, facts, up, shown) = EachOf(shown, f)
    OBVIOUS
  <2> QED
    BY <2>2, <2>3
<1>4. ASSUME NEW up, NEW shown \in SUBSET Discovery!Things
      PROVE  /\ Informed(Discovery!Reports(pass, facts, up, shown), pass, up)
             /\ Heals(Discovery!Reports(pass, facts, up, shown), Whole(pass, facts))
             /\ Agreed(Discovery!Reports(pass, facts, up, shown))
  <2>1. Informed(Discovery!Reports(pass, facts, up, shown), pass, up)
    BY <1>2, <1>3 DEF Informed
  <2>2. \A i \in DOMAIN Whole(pass, facts) : \E h \in Discovery!Things : Whole(pass, facts)[i] = f[h]
    BY <1>1, <1>3 DEF Whole
  <2>3. Heals(Discovery!Reports(pass, facts, up, shown), Whole(pass, facts))
    BY <1>3, <2>2 DEF Heals, Blamed
  <2>4. Agreed(Discovery!Reports(pass, facts, up, shown))
    BY <1>3 DEF Agreed
  <2> QED
    BY <2>1, <2>3, <2>4
<1>5. PartialOK(pass, facts)
  BY <1>1, <1>3, <1>4 DEF PartialOK
<1>6. FullOK(pass, facts)
  BY <1>1, <1>4, FullWhenAllAsked DEF Whole
<1> QED
  BY <1>5, <1>6 DEF PassOK

LEMMA DisksOK ==
    ASSUME Discovery!DiscoveryAssumption, key \in Discovery!Keys, NEW facts
    PROVE  PassOK("disks", facts)
<1> DEFINE f == [h \in Discovery!Things |->
                    Discovery!Report(Discovery!DiskIssues(facts, h), Discovery!CategoriesOf("disks"), {h})]
<1>1. ASSUME NEW up, NEW shown \in SUBSET Discovery!Things
      PROVE  Discovery!Reports("disks", facts, up, shown) = EachOf(shown, f)
  <2>1. {f[h] : h \in shown}
        = {Discovery!Report(Discovery!DiskIssues(facts, h), Discovery!CategoriesOf("disks"), {h}) : h \in shown}
    OBVIOUS
  <2> HIDE DEF f
  <2> QED
    BY <2>1 DEF Discovery!Reports, Discovery!Disks, EachOf
<1>2. \A h : key \in Discovery!DiskIssues(facts, h) => key[2] = h
  BY KeyFound DEF Discovery!DiskIssues, Discovery!Only
<1>3. ASSUME NEW h \in Discovery!Things
      PROVE  /\ Eyed(f[h]) => key[1] \in Discovery!CategoriesOf("disks") /\ key[2] = h
             /\ Pointed(f[h]) => key[2] = h
  BY <1>2, ReportFields
<1> HIDE DEF f
<1> QED
  BY <1>1, <1>3, EachOK

LEMMA RaidOK ==
    ASSUME Discovery!DiscoveryAssumption, key \in Discovery!Keys, NEW facts
    PROVE  PassOK("raid", facts)
<1> DEFINE f == [h \in Discovery!Things |->
                    Discovery!Report(Discovery!RaidIssues(facts, h), Discovery!CategoriesOf("raid"), {h})]
<1>1. ASSUME NEW up, NEW shown \in SUBSET Discovery!Things
      PROVE  Discovery!Reports("raid", facts, up, shown) = EachOf(shown, f)
  <2>1. {f[h] : h \in shown}
        = {Discovery!Report(Discovery!RaidIssues(facts, h), Discovery!CategoriesOf("raid"), {h}) : h \in shown}
    OBVIOUS
  <2> HIDE DEF f
  <2> QED
    BY <2>1 DEF Discovery!Reports, Discovery!Raid, EachOf
<1>2. \A h : key \in Discovery!RaidIssues(facts, h) => key[2] = h
  BY DEF Discovery!RaidIssues, Discovery!Only
<1>3. ASSUME NEW h \in Discovery!Things
      PROVE  /\ Eyed(f[h]) => key[1] \in Discovery!CategoriesOf("raid") /\ key[2] = h
             /\ Pointed(f[h]) => key[2] = h
  BY <1>2, ReportFields
<1> HIDE DEF f
<1> QED
  BY <1>1, <1>3, EachOK
-----------------------------------------------------------------------------
LEMMA NetworksOK ==
    ASSUME Discovery!DiscoveryAssumption, key \in Discovery!Keys, NEW facts
    PROVE  PassOK("networks", facts)
<1> DEFINE Named(t) == Discovery!Name(t, facts)
           Considered(up, shown) == IF "list" \in up THEN Discovery!SetToSeq(shown) ELSE <<>>
           r(t) == Discovery!Report(Discovery!Only(t \in Discovery!Wrong(facts), {<<"networks", Named(t)>>}),
                                    {"networks"}, {Named(t)})
<1>1. ASSUME NEW up, NEW shown
      PROVE  Discovery!Reports("networks", facts, up, shown)
             = [i \in DOMAIN Considered(up, shown) |-> r(Considered(up, shown)[i])]
  BY DEF Discovery!Reports, Discovery!Networks
<1>2. \A t : /\ Eyed(r(t)) <=> key[1] = "networks" /\ key[2] = Named(t)
             /\ Pointed(r(t)) <=> t \in Discovery!Wrong(facts) /\ key[1] = "networks" /\ key[2] = Named(t)
  <2> SUFFICES ASSUME NEW t
               PROVE  /\ Eyed(r(t)) <=> key[1] = "networks" /\ key[2] = Named(t)
                      /\ Pointed(r(t)) <=> t \in Discovery!Wrong(facts) /\ key[1] = "networks" /\ key[2] = Named(t)
    OBVIOUS
  <2> HIDE DEF Named
  <2> QED
    BY ReportFields, KeyShape DEF Discovery!Only
<1>3. ASSUME NEW up, NEW shown \in SUBSET Discovery!Things
      PROVE  Lined(Considered(up, shown))
  BY ThingsFinite, SequenceOfSet, NoReport
<1>4. \A up, shown : "list" \notin up => DOMAIN Considered(up, shown) = {}
  OBVIOUS
<1> HIDE DEF r, Considered
<1>5. ASSUME NEW up, NEW shown \in SUBSET Discovery!Things
      PROVE  /\ Lined(Discovery!Reports("networks", facts, up, shown))
             /\ Informed(Discovery!Reports("networks", facts, up, shown), "networks", up)
  <2> PICK js : js = Considered(up, shown)
    OBVIOUS
  <2> PICK rs : rs = [i \in DOMAIN js |-> r(js[i])]
    OBVIOUS
  <2>1. Lined(js)
    BY <1>3
  <2>2. rs \in [1 .. Len(js) -> {r(js[i]) : i \in DOMAIN js}] /\ Len(js) \in Nat
    BY <2>1 DEF Lined
  <2>3. Lined(rs)
    BY <2>2, FunctionIsLined
  <2>4. Informed(rs, "networks", up)
    <3> SUFFICES ASSUME NEW i \in DOMAIN js, Eyed(r(js[i]))
                 PROVE  /\ key[1] \in Discovery!CategoriesOf("networks")
                        /\ Discovery!SourcesOf(key[1]) \subseteq up
      BY DEF Informed
    <3>1. key[1] = "networks" /\ "list" \in up
      BY <1>2, <1>4
    <3> QED
      BY <3>1, CatalogOf, SourcesOfCategory
  <2> QED
    BY <1>1, <2>3, <2>4
<1>6. Discovery!Sight("networks") = Discovery!Things
  BY DEF Discovery!Sight
<1>7. key[1] \in Discovery!CategoriesOf("networks") => key[1] \notin Discovery!Scoped
  BY CatalogOf, ScopedCategories
<1>8. PartialOK("networks", facts)
  BY <1>5, <1>6, <1>7 DEF PartialOK, Heals
<1>9. ASSUME Discovery!Of("namesake", facts) = {}
      PROVE  Agreed(Whole("networks", facts))
  <2>1. \A t : Named(t) = t
    BY <1>9 DEF Discovery!Name
  <2> PICK js : js = Considered(Discovery!Sources("networks"), Discovery!Sight("networks"))
    OBVIOUS
  <2>2. Whole("networks", facts) = [i \in DOMAIN js |-> r(js[i])]
    BY <1>1 DEF Whole
  <2> HIDE DEF Named
  <2>3. \A i, j \in DOMAIN js : Pointed(r(js[i])) /\ Eyed(r(js[j])) => Pointed(r(js[j]))
    BY <1>2, <2>1
  <2> QED
    BY <2>2, <2>3 DEF Agreed
<1>10. FullOK("networks", facts)
  BY <1>9, FullWhenAllAsked
<1> QED
  BY <1>8, <1>10 DEF PassOK

LEMMA JetKVMOK ==
    ASSUME Discovery!DiscoveryAssumption, key \in Discovery!Keys, NEW facts
    PROVE  PassOK("jetkvm", facts)
<1> DEFINE own(up) == Discovery!Report(Discovery!Only("kvm" \notin up, {<<"jetkvm-unreachable", "jetkvm">>}),
                                       {"jetkvm-unreachable"}, Discovery!Everywhere)
           A == Discovery!AttachedHost(facts)
           f == [h \in A |-> Discovery!Report(Discovery!Found("host-unreachable", {h} \cap Discovery!Wrong(facts)),
                                              {"host-unreachable"}, {h})]
<1>1. \A up, shown : Discovery!Reports("jetkvm", facts, up, shown) = <<own(up)>> \o EachOf(A, f)
  <2>1. {f[h] : h \in A}
        = {Discovery!Report(Discovery!Found("host-unreachable", {h} \cap Discovery!Wrong(facts)),
                            {"host-unreachable"}, {h}) : h \in A}
    OBVIOUS
  <2> HIDE DEF f
  <2> QED
    BY <2>1 DEF Discovery!Reports, Discovery!JetKVM, EachOf
<1>2. \A up : /\ Eyed(own(up)) => key[1] = "jetkvm-unreachable"
              /\ Pointed(own(up)) => key[1] = "jetkvm-unreachable"
  BY ReportFields DEF Discovery!Only
<1>3. \A h \in A : /\ Eyed(f[h]) <=> key[1] = "host-unreachable" /\ key[2] = h
                   /\ Pointed(f[h]) <=> key[1] = "host-unreachable" /\ key[2] = h /\ h \in Discovery!Wrong(facts)
  BY ReportFields, KeyFound
<1>4. IsFiniteSet(A)
  <2>1. A \in SUBSET Discovery!Things
    BY DEF Discovery!AttachedHost, Discovery!Of
  <2> QED
    BY <2>1, ThingsFinite
<1> HIDE DEF own, A, f
<1>5. ASSUME NEW up, NEW shown
      PROVE  /\ Lined(Discovery!Reports("jetkvm", facts, up, shown))
             /\ \A i \in DOMAIN Discovery!Reports("jetkvm", facts, up, shown) :
                   \/ Discovery!Reports("jetkvm", facts, up, shown)[i] = own(up)
                   \/ \E h \in A : Discovery!Reports("jetkvm", facts, up, shown)[i] = f[h]
  <2> PICK s : s = EachOf(A, f)
    OBVIOUS
  <2> PICK T : T = {f[h] : h \in A} \cup {own(up)}
    OBVIOUS
  <2>1. s \in Seq({f[h] : h \in A})
    BY <1>4, EachInSequence
  <2>2. s \in Seq(T) /\ <<own(up)>> \in Seq(T)
    BY <2>1, SeqMonotonic
  <2> PICK rs : rs = <<own(up)>> \o s
    OBVIOUS
  <2>3. rs \in Seq(T)
    BY <2>2, ConcatProperties
  <2>4. Lined(rs) /\ \A i \in DOMAIN rs : rs[i] \in T
    BY <2>3, LenProperties, ElementOfSeq DEF Lined
  <2> QED
    BY <1>1, <2>4
<1>6. ASSUME NEW up, NEW shown
      PROVE  /\ Informed(Discovery!Reports("jetkvm", facts, up, shown), "jetkvm", up)
             /\ Heals(Discovery!Reports("jetkvm", facts, up, shown), Whole("jetkvm", facts))
             /\ Agreed(Discovery!Reports("jetkvm", facts, up, shown))
  <2> PICK rs : rs = Discovery!Reports("jetkvm", facts, up, shown)
    OBVIOUS
  <2>1. \A i \in DOMAIN rs : rs[i] = own(up) \/ \E h \in A : rs[i] = f[h]
    BY <1>5
  <2>2. \A i \in DOMAIN rs : Eyed(rs[i]) => key[1] \in {"jetkvm-unreachable", "host-unreachable"}
    BY <1>2, <1>3, <2>1
  <2>3. Informed(rs, "jetkvm", up)
    BY <2>2, CatalogOf, SourcesOfCategory DEF Informed
  <2>4. Agreed(rs)
    BY <1>2, <1>3, <2>1 DEF Agreed
  <2> PICK ws, all : ws = Whole("jetkvm", facts) /\ all = Discovery!Sources("jetkvm")
    OBVIOUS
  <2>5. \A i \in DOMAIN ws : ws[i] = own(all) \/ \E h \in A : ws[i] = f[h]
    BY <1>5 DEF Whole
  <2>6. key[1] \in Discovery!Scoped => key[1] # "jetkvm-unreachable"
    BY ScopedCategories
  <2>7. Heals(rs, ws)
    BY <1>2, <1>3, <2>1, <2>5, <2>6 DEF Heals, Blamed
  <2> QED
    BY <2>3, <2>4, <2>7
<1>7. PartialOK("jetkvm", facts)
  BY <1>5, <1>6 DEF PartialOK
<1>8. FullOK("jetkvm", facts)
  BY <1>6, FullWhenAllAsked DEF Whole
<1> QED
  BY <1>7, <1>8 DEF PassOK
-----------------------------------------------------------------------------
LEMMA ThreeReports ==
    ASSUME NEW a, NEW b, NEW c
    PROVE  /\ Lined(<<a, b, c>>) /\ DOMAIN <<a, b, c>> = {1, 2, 3}
           /\ <<a, b, c>>[1] = a /\ <<a, b, c>>[2] = b /\ <<a, b, c>>[3] = c
  BY DEF Lined

LEMMA PrintwardenOK ==
    ASSUME Discovery!DiscoveryAssumption, key \in Discovery!Keys, NEW facts
    PROVE  PassOK("printwarden", facts)
<1> DEFINE L == Discovery!Of("listed", facts)
           W == Discovery!Wrong(facts)
           Mute == Discovery!Of("mute", facts)
           Gone == Discovery!RemovedPrinters(L)
           C(shown) == L \cap shown
           Issues(shown) == Discovery!PrinterIssues(facts, L, C(shown)) \cup Discovery!LedgerIssues(facts, L)
           P(shown, categories, at) ==
              Discovery!Report({i \in Issues(shown) : i[1] \in categories}, categories, at)
           none == Discovery!Report({<<"printwarden-unreachable", "print-warden">>},
                                    {"printwarden-unreachable"}, Discovery!Everywhere)
           r1(shown) == P(shown, {"printwarden-unreachable", "printer-offline"}, Discovery!Everywhere)
           r2(shown) == P(shown, {"printer-klippy"}, C(shown) \cup Gone)
           r3(shown) == P(shown, {"printer-failing"}, (L \ Mute) \cup Gone)
<1>1. \A up, shown : Discovery!Reports("printwarden", facts, up, shown)
                     = IF "warden" \notin up THEN <<none>> ELSE <<r1(shown), r2(shown), r3(shown)>>
  BY DEF Discovery!Reports, Discovery!Printwarden
<1>2. ASSUME NEW shown
      PROVE  key \in Issues(shown) <=>
                \/ key[1] = "printer-offline" /\ key[2] \in L \ C(shown)
                \/ key[1] = "printer-klippy" /\ key[2] \in C(shown) \cap W
                \/ key[1] = "printer-failing" /\ key[2] \in (L \cap W) \ Mute
  BY KeyFound DEF Discovery!PrinterIssues, Discovery!LedgerIssues
<1>3. ASSUME NEW shown, NEW categories, NEW at
      PROVE  /\ Pointed(P(shown, categories, at)) <=> key \in Issues(shown) /\ key[1] \in categories
             /\ Eyed(P(shown, categories, at)) <=> key[1] \in categories /\ key[2] \in at
  <2> HIDE DEF Issues
  <2> QED
    BY ReportFields
<1>4. ASSUME NEW shown
      PROVE  /\ Pointed(r1(shown)) <=> key[1] = "printer-offline" /\ key[2] \in L \ C(shown)
             /\ Eyed(r1(shown)) => key[1] \in {"printwarden-unreachable", "printer-offline"}
             /\ Pointed(r2(shown)) <=> key[1] = "printer-klippy" /\ key[2] \in C(shown) \cap W
             /\ Eyed(r2(shown)) <=> key[1] = "printer-klippy" /\ key[2] \in C(shown) \cup Gone
             /\ Pointed(r3(shown)) <=> key[1] = "printer-failing" /\ key[2] \in (L \cap W) \ Mute
             /\ Eyed(r3(shown)) <=> key[1] = "printer-failing" /\ key[2] \in (L \ Mute) \cup Gone
  <2> HIDE DEF Issues, P, C
  <2> QED
    BY <1>2, <1>3
<1>5. /\ Eyed(none) => key[1] = "printwarden-unreachable"
      /\ Eyed(none) => Pointed(none)
  <2>1. key[1] = "printwarden-unreachable" => key = <<"printwarden-unreachable", "print-warden">>
    BY KeyShape DEF Discovery!TargetsOf
  <2> QED
    BY <2>1, ReportFields
<1>6. C(Discovery!Things) = L
  BY DEF Discovery!Of
<1>7. Gone \cap L = {}
  BY DEF Discovery!RemovedPrinters
<1>8. Discovery!Sight("printwarden") = Discovery!Things /\ "warden" \in Discovery!Sources("printwarden")
  BY SourcesOfPass DEF Discovery!Sight
<1>9. \A shown : C(shown) \subseteq L
  OBVIOUS
<1> HIDE DEF r1, r2, r3, none, L, W, Mute, Gone, C
<1>10. Blamed(Whole("printwarden", facts)) =>
          \/ key[1] = "printer-klippy" /\ key[2] \in L \cap W
          \/ key[1] = "printer-failing" /\ key[2] \in (L \cap W) \ Mute
  <2> PICK a, b, c : /\ a = r1(Discovery!Things) /\ b = r2(Discovery!Things) /\ c = r3(Discovery!Things)
    OBVIOUS
  <2>1. Whole("printwarden", facts) = <<a, b, c>>
    BY <1>1, <1>8 DEF Whole
  <2>2. Blamed(<<a, b, c>>) => Pointed(a) \/ Pointed(b) \/ Pointed(c)
    BY ThreeReports DEF Blamed
  <2> QED
    BY <1>4, <1>6, <2>1, <2>2
<1>11. ASSUME NEW shown
       PROVE  LET rs == <<r1(shown), r2(shown), r3(shown)>> IN
              /\ Lined(rs) /\ Agreed(rs) /\ Heals(rs, Whole("printwarden", facts))
              /\ \A up : "warden" \in up => Informed(rs, "printwarden", up)
  <2> PICK a, b, c : a = r1(shown) /\ b = r2(shown) /\ c = r3(shown)
    OBVIOUS
  <2> PICK rs : rs = <<a, b, c>>
    OBVIOUS
  <2>1. \A i \in DOMAIN rs : rs[i] = a \/ rs[i] = b \/ rs[i] = c
    BY ThreeReports
  <2>2. Agreed(rs)
    BY <1>4, <2>1 DEF Agreed
  <2>3. Heals(rs, Whole("printwarden", facts))
    BY <1>4, <1>7, <1>9, <1>10, <2>1 DEF Heals
  <2>4. \A i \in DOMAIN rs : Eyed(rs[i]) =>
           key[1] \in {"printwarden-unreachable", "printer-offline", "printer-klippy", "printer-failing"}
    BY <1>4, <2>1
  <2>5. \A up : "warden" \in up => Informed(rs, "printwarden", up)
    BY <2>4, CatalogOf, SourcesOfCategory DEF Informed
  <2> QED
    BY <2>2, <2>3, <2>5, ThreeReports
<1>12. /\ Lined(<<none>>) /\ Heals(<<none>>, Whole("printwarden", facts))
       /\ \A up : Informed(<<none>>, "printwarden", up)
  <2>1. Heals(<<none>>, Whole("printwarden", facts))
    BY <1>5, SingleReport DEF Heals
  <2>2. \A up : Informed(<<none>>, "printwarden", up)
    BY <1>5, SingleReport, CatalogOf, SourcesOfCategory DEF Informed
  <2> QED
    BY <2>1, <2>2, SingleReport
<1>13. PartialOK("printwarden", facts)
  BY <1>1, <1>11, <1>12 DEF PartialOK
<1>14. FullOK("printwarden", facts)
  BY <1>1, <1>8, <1>11, FullWhenAllAsked DEF Whole
<1> QED
  BY <1>13, <1>14 DEF PassOK

LEMMA EveryPassOK ==
    ASSUME Discovery!DiscoveryAssumption, key \in Discovery!Keys, NEW facts, NEW pass \in Discovery!Passes
    PROVE  PassOK(pass, facts)
<1>1. pass \in {"versions", "backups", "storage", "suggestions", "capacity", "anomalies", "rightsizing",
                "printwarden", "jetkvm", "disks", "raid", "argocd", "workloads", "networks", "exports",
                "bottlenecks"}
  BY DEF Discovery!Passes
<1> QED
  BY <1>1, VersionsOK, BackupsOK, StorageOK, SuggestionsOK, CapacityOK, AnomaliesOK, RightsizingOK,
     PrintwardenOK, JetKVMOK, DisksOK, RaidOK, ListsOK, NetworksOK, BottlenecksOK
-----------------------------------------------------------------------------
(* A pass of the same kind that looks at a category is the one it is of.   *)
LEMMA OwnPass ==
    ASSUME key \in Discovery!Keys, NEW pass \in Discovery!Kinsfolk(key[1])
    PROVE  /\ pass \in Discovery!Passes
           /\ key[1] \in Discovery!CategoriesOf(pass) => pass = Discovery!Own(key[1])
<1> PICK own : own = Discovery!Own(key[1])
  OBVIOUS
<1>1. own \in Discovery!Passes /\ key[1] \in Discovery!CategoriesOf(own)
  BY KeyShape DEF Discovery!Own
<1>2. \/ pass = own
      \/ pass \in {"printwarden", "jetkvm"} /\ own \in {"printwarden", "jetkvm"}
      \/ pass \in {"disks", "raid"} /\ own \in {"disks", "raid"}
      \/ pass \in {"networks", "exports"} /\ own \in {"networks", "exports"}
  BY DEF Discovery!Kinsfolk
<1>3. pass \in Discovery!Passes
  BY <1>1, <1>2 DEF Discovery!Passes
<1>4. key[1] \in Discovery!CategoriesOf(pass) => pass = own
  BY <1>1, <1>2, CatalogOf
<1> QED
  BY <1>3, <1>4

DiscoveryInv == Discovery!TypeOK /\ Discovery!FullLookIsTrue

LEMMA RunJudges ==
    ASSUME Discovery!DiscoveryAssumption, DiscoveryInv,
           NEW pass \in Discovery!Kinsfolk(key[1]), Discovery!Run(pass)
    PROVE  DiscoveryInv' /\ Discovery!SilenceStep
<1>1. key \in Discovery!Keys /\ status \in Discovery!Statuses
  BY DEF DiscoveryInv, Discovery!TypeOK
<1>2. PICK facts \in Discovery!Facts(pass), up \in SUBSET Discovery!Asked(pass),
           shown \in SUBSET Discovery!Sight(pass) :
         LET reports == Discovery!Reports(pass, facts, up, shown) IN
         /\ status' = Discovery!Reconciling(status, reports)
         /\ last' = Discovery!Looked(pass, facts, up, shown, reports)
         /\ UNCHANGED key
  BY DEF Discovery!Run
<1> DEFINE rs == Discovery!Reports(pass, facts, up, shown)
           whole == Whole(pass, facts)
<1>3. PassOK(pass, facts)
  BY <1>1, OwnPass, EveryPassOK
<1>4. /\ Lined(rs) /\ Informed(rs, pass, up)
      /\ key[1] \in Discovery!CategoriesOf(pass) => Heals(rs, whole)
  BY <1>3 DEF PassOK, PartialOK
<1>5. key[1] \in Discovery!CategoriesOf(pass) => (Discovery!True(facts) <=> Blamed(whole))
  <2>1. Discovery!True(facts) <=> Blamed(Whole(Discovery!Own(key[1]), facts))
    BY DEF Discovery!True, Blamed, Pointed, Whole
  <2> QED
    BY <1>1, <2>1, OwnPass
<1>6. /\ last'.ran = TRUE /\ last'.answered = (Discovery!SourcesOf(key[1]) \subseteq up)
      /\ last'.wrong = Discovery!True(facts)
      /\ last'.full => /\ key[1] \in Discovery!CategoriesOf(pass) /\ up = Discovery!Asked(pass)
                       /\ shown = Discovery!Sight(pass) /\ Discovery!Of("namesake", facts) = {}
                       /\ Covered(rs)
      /\ DOMAIN last' = {"ran", "answered", "full", "wrong"}
  BY <1>2 DEF Discovery!Looked, Covered, Eyed
<1>7. status' = Discovery!Reconciling(status, rs) /\ key' = key
  BY <1>2
<1> HIDE DEF rs, whole
<1>8. status' \in Discovery!Statuses
  BY <1>1, <1>4, <1>7, RowIsResolved
<1>9. Discovery!TypeOK'
  <2>1. DOMAIN last' = DOMAIN Discovery!NoPass
    BY <1>6 DEF Discovery!NoPass
  <2>2. key' \in Discovery!Keys'
    BY <1>1, <1>7
  <2> QED
    BY <1>8, <2>1, <2>2 DEF Discovery!TypeOK
<1>10. Discovery!FullLookIsTrue'
  <2> SUFFICES ASSUME last'.full
               PROVE  status' \in {"suppressed"} \cup (IF last'.wrong THEN {"open", "acknowledged"}
                                                        ELSE {"none", "resolved"})
    BY DEF Discovery!FullLookIsTrue
  <2>1. Agreed(rs) /\ (Blamed(rs) <=> Blamed(whole)) /\ Covered(rs)
    BY <1>3, <1>6 DEF PassOK, FullOK, rs, whole
  <2>2. Blamed(rs) <=> last'.wrong
    BY <1>5, <1>6, <2>1
  <2>3. /\ Blamed(rs) => status' \in {"open", "acknowledged", "suppressed"}
        /\ ~Blamed(rs) => status' \in {"none", "resolved", "suppressed"}
    BY <1>1, <1>4, <1>7, <2>1, RowIsJudged
  <2> QED
    BY <2>2, <2>3
<1>11. Discovery!SilenceStep
  <2> SUFFICES ASSUME status \in {"open", "acknowledged"}, status' = "resolved"
               PROVE  last'.answered /\ (key[1] \in Discovery!Scoped => ~last'.wrong)
    BY DEF Discovery!SilenceStep
  <2>1. PICK i \in DOMAIN rs : Eyed(rs[i]) /\ ~Pointed(rs[i])
    BY <1>1, <1>4, <1>7, RowIsResolved
  <2>2. key[1] \in Discovery!CategoriesOf(pass) /\ Discovery!SourcesOf(key[1]) \subseteq up
    BY <1>4, <2>1 DEF Informed
  <2>3. key[1] \in Discovery!Scoped => ~Blamed(whole)
    BY <1>4, <2>1, <2>2 DEF Heals
  <2> QED
    BY <1>5, <1>6, <2>2, <2>3
<1> QED
  BY <1>9, <1>10, <1>11 DEF DiscoveryInv

LEMMA DiscoveryStep ==
    ASSUME Discovery!DiscoveryAssumption, DiscoveryInv, [Discovery!Next]_(Discovery!vars)
    PROVE  DiscoveryInv' /\ (Discovery!SilenceStep \/ UNCHANGED Discovery!vars)
<1>1. CASE \E pass \in Discovery!Kinsfolk(key[1]) : Discovery!Run(pass)
  BY <1>1, RunJudges
<1>2. ASSUME NEW to \in {"acknowledged", "resolved", "suppressed"}, Discovery!Triage(to)
      PROVE  DiscoveryInv' /\ Discovery!SilenceStep
  <2>1. /\ status' = to /\ key' = key /\ last' = Discovery!NoPass
        /\ last'.ran = FALSE /\ last'.full = FALSE
    BY <1>2 DEF Discovery!Triage, Discovery!NoPass
  <2>2. Discovery!TypeOK'
    BY <2>1 DEF DiscoveryInv, Discovery!TypeOK, Discovery!Statuses, Discovery!NoPass
  <2> QED
    BY <2>1, <2>2 DEF DiscoveryInv, Discovery!FullLookIsTrue, Discovery!SilenceStep
<1>3. CASE UNCHANGED Discovery!vars
  BY <1>3 DEF Discovery!vars, DiscoveryInv, Discovery!TypeOK, Discovery!FullLookIsTrue
<1> QED
  BY <1>1, <1>2, <1>3 DEF Discovery!Next

LEMMA DiscoveryHolds ==
    ASSUME Discovery!DiscoveryAssumption
    PROVE  Discovery!Spec => []DiscoveryInv
<1>1. Discovery!Init => DiscoveryInv
  BY DEF Discovery!Init, DiscoveryInv, Discovery!TypeOK, Discovery!FullLookIsTrue, Discovery!Statuses,
         Discovery!NoPass
<1>2. DiscoveryInv /\ [Discovery!Next]_(Discovery!vars) => DiscoveryInv'
  BY DiscoveryStep
<1> QED
  BY <1>1, <1>2, PTL DEF Discovery!Spec

(* A pass that was shown everything leaves the finding open if what it is  *)
(* about is so, and closed if not, whatever was judged before.             *)
THEOREM FullLooksAreTrue ==
    ASSUME Discovery!DiscoveryAssumption
    PROVE  Discovery!Spec => [](Discovery!TypeOK /\ Discovery!FullLookIsTrue)
<1>1. DiscoveryInv => Discovery!TypeOK /\ Discovery!FullLookIsTrue
  BY DEF DiscoveryInv
<1> QED
  BY <1>1, DiscoveryHolds, PTL

(* A pass resolves a finding only if the sources of its category answered, *)
(* and where its reports name their targets only if what the finding is    *)
(* about is healed or gone.                                                *)
THEOREM SilenceIsNoAnswer ==
    ASSUME Discovery!DiscoveryAssumption
    PROVE  Discovery!Spec => Discovery!SilenceResolvesNothing
<1>1. DiscoveryInv /\ [Discovery!Next]_(Discovery!vars) => [Discovery!SilenceStep]_(Discovery!vars)
  BY DiscoveryStep
<1> QED
  BY <1>1, DiscoveryHolds, PTL DEF Discovery!Spec, Discovery!SilenceResolvesNothing
-----------------------------------------------------------------------------
(***************************************************************************)
(* How names resolve.  Every resolver owns a slice and no service: what    *)
(* keeps the two together is that a service is there just as long as an    *)
(* endpoint of it (RowsSound), whoever wrote it last.                      *)
(***************************************************************************)

Mentioned(s, rows_) == \E e \in rows_ : e.service = s

(* A device's endpoint is of its own service, so what another resolver     *)
(* removes is never the last of it.                                        *)
RowsSound(db) ==
    /\ db.services = [s \in Resolution!Services |-> db.services[s]]
    /\ \A s \in Resolution!Services : db.services[s] # "none" <=> Mentioned(s, db.endpoints)
    /\ \A e \in db.endpoints : e.resolver \in Resolution!Devices => e.service = e.resolver
    /\ \A d \in Resolution!Devices :
          Resolution!Slice(d, db.endpoints) # {} => db.services[d] = "known"

(* The inductive invariant.                                                *)
ResolutionInv ==
    /\ RowsSound(Resolution!Rows)
    /\ synced = [r \in Resolution!Sources |-> synced[r]]
    /\ \A r \in Resolution!Sources :
          synced[r] # Unsynced => Resolution!Slice(r, endpoints) = synced[r]

LEMMA DevicesAreServices == Resolution!Devices \subseteq Resolution!Services
  BY DEF Resolution!Services

(* What is wanted of a source is its own.                                  *)
LEMMA WantedIsOwn ==
    ASSUME NEW r
    PROVE  \A w \in Resolution!Wanted(r) : w.resolver = r
  BY DEF Resolution!Wanted

(* A service that nothing mentions goes, and takes no endpoint with it.    *)
LEMMA ReapedKeeps ==
    ASSUME NEW db, NEW left,
           db.services = [s \in Resolution!Services |-> db.services[s]],
           \A s \in Resolution!Services : Mentioned(s, db.endpoints) => db.services[s] # "none",
           \A s \in Resolution!Services \ left :
              db.services[s] # "none" => Mentioned(s, db.endpoints),
           \A e \in db.endpoints : e.resolver \in Resolution!Devices => e.service = e.resolver,
           \A d \in Resolution!Devices :
              Resolution!Slice(d, db.endpoints) # {} => db.services[d] = "known"
    PROVE  /\ Resolution!Reaped(db, left).endpoints = db.endpoints
           /\ RowsSound(Resolution!Reaped(db, left))
<1> DEFINE empty == {s \in left : ~ \E e \in db.endpoints : e.service = s}
           new   == [s \in Resolution!Services |-> IF s \in empty THEN "none" ELSE db.services[s]]
<1>1. /\ Resolution!Reaped(db, left).endpoints = {e \in db.endpoints : e.service \notin empty}
      /\ Resolution!Reaped(db, left).services = new
  BY DEF Resolution!Reaped
<1>2. {e \in db.endpoints : e.service \notin empty} = db.endpoints
  OBVIOUS
<1>3. new = [s \in Resolution!Services |-> new[s]]
  OBVIOUS
<1>4. \A s \in Resolution!Services : s \in empty <=> s \in left /\ ~ Mentioned(s, db.endpoints)
  BY DEF Mentioned
<1>5. \A s \in Resolution!Services : new[s] = IF s \in empty THEN "none" ELSE db.services[s]
  OBVIOUS
<1> HIDE DEF empty, new
<1>6. \A s \in Resolution!Services : new[s] # "none" <=> Mentioned(s, db.endpoints)
  BY <1>4, <1>5
<1>7. \A d \in Resolution!Devices : Resolution!Slice(d, db.endpoints) # {} => new[d] = "known"
  <2> SUFFICES ASSUME NEW d \in Resolution!Devices, Resolution!Slice(d, db.endpoints) # {}
               PROVE  new[d] = "known"
    OBVIOUS
  <2>1. Mentioned(d, db.endpoints)
    BY DEF Resolution!Slice, Mentioned
  <2> QED
    BY <1>4, <1>5, <2>1, DevicesAreServices
<1> QED
  BY <1>1, <1>2, <1>3, <1>6, <1>7 DEF RowsSound

(* A pass over a source replaces its slice, and nobody else's.             *)
LEMMA ReconciledKeeps ==
    ASSUME Resolution!ResolutionAssumption, NEW db, RowsSound(db), NEW r \in Resolution!Sources
    PROVE  /\ RowsSound(Resolution!Reconciled(db, r))
           /\ \A q : Resolution!Slice(q, Resolution!Reconciled(db, r).endpoints)
                       = IF q = r THEN Resolution!Wanted(r) ELSE Resolution!Slice(q, db.endpoints)
<1> DEFINE wanted == Resolution!Wanted(r)
           old    == Resolution!Slice(r, db.endpoints)
           named  == {e.service : e \in wanted}
           left   == {e.service : e \in {o \in old :
                         ~ \E w \in wanted : w.host = o.host /\ w.service = o.service}}
           new    == [s \in Resolution!Services |->
                        IF s \in named /\ db.services[s] = "none" THEN "bare" ELSE db.services[s]]
           mid    == [endpoints |-> (db.endpoints \ old) \cup wanted, services |-> new]
<1>1. Resolution!Reconciled(db, r) = Resolution!Reaped(mid, left)
  BY Zenon DEF Resolution!Reconciled
<1>2. \A w \in wanted : w.resolver = r
  BY WantedIsOwn
<1>3. old = {e \in db.endpoints : e.resolver = r}
  BY DEF Resolution!Slice
<1>4. \A s : Mentioned(s, wanted) <=> s \in named
  BY DEF Mentioned
<1>5. \A s \in Resolution!Services :
         new[s] = IF s \in named /\ db.services[s] = "none" THEN "bare" ELSE db.services[s]
  OBVIOUS
<1>6. \A s : Mentioned(s, old) /\ s \notin left => Mentioned(s, wanted)
  BY DEF Mentioned
<1>7. new = [s \in Resolution!Services |-> new[s]]
  OBVIOUS
<1>8. mid.endpoints = (db.endpoints \ old) \cup wanted /\ mid.services = new
  OBVIOUS
<1>9. \A s : Mentioned(s, mid.endpoints) <=> Mentioned(s, db.endpoints \ old) \/ s \in named
  BY <1>4, <1>8 DEF Mentioned
<1> HIDE DEF wanted, old, named, left, new, mid
<1>10. \A s : Mentioned(s, db.endpoints) <=> Mentioned(s, db.endpoints \ old) \/ Mentioned(s, old)
  BY <1>3 DEF Mentioned
<1>11. r \notin Resolution!Devices
  BY DEF Resolution!ResolutionAssumption
<1>12. \A s \in Resolution!Services : db.services[s] # "none" <=> Mentioned(s, db.endpoints)
  BY DEF RowsSound
<1>13. \A s \in Resolution!Services : Mentioned(s, mid.endpoints) => new[s] # "none"
  BY <1>5, <1>9, <1>10, <1>12
<1>14. \A s \in Resolution!Services \ left : new[s] # "none" => Mentioned(s, mid.endpoints)
  BY <1>4, <1>5, <1>6, <1>9, <1>10, <1>12
<1>15. \A e \in mid.endpoints : e.resolver \in Resolution!Devices => e.service = e.resolver
  BY <1>2, <1>8, <1>11 DEF RowsSound
<1>16. \A q : Resolution!Slice(q, mid.endpoints)
                = IF q = r THEN wanted ELSE Resolution!Slice(q, db.endpoints)
  BY <1>2, <1>3, <1>8 DEF Resolution!Slice
<1>17. \A d \in Resolution!Devices : Resolution!Slice(d, mid.endpoints) # {} => new[d] = "known"
  <2> SUFFICES ASSUME NEW d \in Resolution!Devices, Resolution!Slice(d, mid.endpoints) # {}
               PROVE  new[d] = "known"
    OBVIOUS
  <2>1. db.services[d] = "known"
    BY <1>11, <1>16 DEF RowsSound
  <2> QED
    BY <1>5, <2>1, DevicesAreServices
<1>18. Resolution!Reaped(mid, left).endpoints = mid.endpoints /\ RowsSound(Resolution!Reaped(mid, left))
  BY <1>7, <1>8, <1>13, <1>14, <1>15, <1>17, ReapedKeeps
<1> QED
  BY <1>1, <1>16, <1>18 DEF wanted

IsSyncing(f, n, list, up) ==
    f = [i \in 0 .. n |->
           IF i = 0 THEN Resolution!Rows
           ELSE IF list[i] \in up THEN Resolution!Reconciled(f[i - 1], list[i]) ELSE f[i - 1]]

LEMMA SyncingUnfolds ==
    ASSUME NEW list, NEW up
    PROVE  Resolution!ReconciledAll(list, up)
             = (CHOOSE f : IsSyncing(f, Len(list), list, up))[Len(list)]
  BY DEF Resolution!ReconciledAll, IsSyncing

LEMMA SyncingExists ==
    ASSUME NEW list, NEW up, NEW n \in Nat
    PROVE  \E f : IsSyncing(f, n, list, up)
<1> DEFINE After(db, i) == IF list[i] \in up THEN Resolution!Reconciled(db, list[i]) ELSE db
           Has(k) == \E f : IsSyncing(f, k, list, up)
           S == {k \in Nat : ~ Has(k)}
<1> SUFFICES ASSUME S # {} PROVE FALSE
  OBVIOUS
<1>1. PICK k \in S : \A m \in S : k <= m
  BY LeastWithout
<1>2. k # 0
  <2> DEFINE f == [j \in 0 .. 0 |-> Resolution!Rows]
  <2>1. IsSyncing(f, 0, list, up)
    BY DEF IsSyncing
  <2> QED
    BY <2>1
<1>3. k - 1 \in Nat /\ k - 1 \notin S
  BY <1>1, <1>2
<1>4. PICK f : IsSyncing(f, k - 1, list, up)
  BY <1>3
<1>5. f = [j \in 0 .. k - 1 |-> IF j = 0 THEN Resolution!Rows ELSE After(f[j - 1], j)]
  BY <1>4 DEF IsSyncing
<1> DEFINE g == [j \in 0 .. k |-> IF j < k THEN f[j] ELSE After(f[k - 1], k)]
<1> HIDE DEF After
<1>6. ASSUME NEW j \in 0 .. k
      PROVE  g[j] = IF j = 0 THEN Resolution!Rows ELSE After(g[j - 1], j)
  <2>1. CASE j = k
    BY <1>2, <2>1
  <2>2. CASE j < k
    <3>1. f[j] = IF j = 0 THEN Resolution!Rows ELSE After(f[j - 1], j)
      BY <1>5, <2>2
    <3>2. j # 0 => g[j - 1] = f[j - 1]
      BY <2>2
    <3> QED
      BY <2>2, <3>1, <3>2
  <2> QED
    BY <2>1, <2>2
<1>7. g = [j \in 0 .. k |-> IF j = 0 THEN Resolution!Rows ELSE After(g[j - 1], j)]
  BY <1>6
<1>8. IsSyncing(g, k, list, up)
  BY <1>7 DEF IsSyncing, After
<1> QED
  BY <1>8

(* A pass over several sources is one over each.                           *)
LEMMA AllReconciled ==
    ASSUME Resolution!ResolutionAssumption, RowsSound(Resolution!Rows),
           NEW up, NEW list, Len(list) \in Nat, DOMAIN list = 1 .. Len(list),
           \A i \in DOMAIN list : list[i] \in Resolution!Sources
    PROVE  LET db == Resolution!ReconciledAll(list, up)
           IN  /\ RowsSound(db)
               /\ \A q : Resolution!Slice(q, db.endpoints)
                           = IF q \in Resolution!ToSet(list) \cap up THEN Resolution!Wanted(q)
                             ELSE Resolution!Slice(q, endpoints)
<1>1. PICK f : f = CHOOSE g : IsSyncing(g, Len(list), list, up)
  OBVIOUS
<1>2. IsSyncing(f, Len(list), list, up)
  BY <1>1, SyncingExists
<1>3. /\ f[0] = Resolution!Rows
      /\ \A i \in 1 .. Len(list) :
            f[i] = IF list[i] \in up THEN Resolution!Reconciled(f[i - 1], list[i]) ELSE f[i - 1]
  BY <1>2 DEF IsSyncing
<1> DEFINE Done(k) == {q \in up : \E i \in 1 .. k : list[i] = q}
           Ok(k)   == /\ RowsSound(f[k])
                      /\ \A q : Resolution!Slice(q, f[k].endpoints)
                                  = IF q \in Done(k) THEN Resolution!Wanted(q)
                                    ELSE Resolution!Slice(q, endpoints)
           S       == {k \in Nat : k <= Len(list) /\ ~ Ok(k)}
<1>4. S = {}
  <2> SUFFICES ASSUME S # {} PROVE FALSE
    OBVIOUS
  <2>1. PICK k \in S : \A m \in S : k <= m
    BY LeastWithout
  <2>2. Ok(0)
    <3>1. f[0].endpoints = endpoints /\ Done(0) = {}
      BY <1>3 DEF Resolution!Rows
    <3> QED
      BY <1>3, <3>1
  <2>3. k \in 1 .. Len(list) /\ k - 1 \in 0 .. Len(list) /\ k - 1 \notin S
    BY <2>1, <2>2
  <2>4. Ok(k - 1)
    BY <2>3
  <2>5. Done(k) = IF list[k] \in up THEN Done(k - 1) \cup {list[k]} ELSE Done(k - 1)
    <3>1. \A i \in 1 .. k : i = k \/ i \in 1 .. k - 1
      BY <2>3
    <3>2. k \in 1 .. k /\ \A i \in 1 .. k - 1 : i \in 1 .. k
      BY <2>3
    <3> QED
      BY <3>1, <3>2
  <2> HIDE DEF Done
  <2>6. CASE list[k] \notin up
    BY <1>3, <2>1, <2>3, <2>4, <2>5, <2>6
  <2>7. CASE list[k] \in up
    <3>1. f[k] = Resolution!Reconciled(f[k - 1], list[k]) /\ list[k] \in Resolution!Sources
      BY <1>3, <2>3, <2>7
    <3>2. /\ RowsSound(f[k])
          /\ \A q : Resolution!Slice(q, f[k].endpoints)
                      = IF q = list[k] THEN Resolution!Wanted(q)
                        ELSE Resolution!Slice(q, f[k - 1].endpoints)
      BY <2>4, <3>1, ReconciledKeeps
    <3>3. Ok(k)
      BY <2>4, <2>5, <2>7, <3>2
    <3> QED
      BY <2>1, <3>3
  <2> QED
    BY <2>6, <2>7
<1>5. Ok(Len(list))
  BY <1>4
<1>6. Done(Len(list)) = Resolution!ToSet(list) \cap up
  BY DEF Resolution!ToSet
<1>7. f[Len(list)] = Resolution!ReconciledAll(list, up)
  BY <1>1, SyncingUnfolds
<1> QED
  BY <1>5, <1>6, <1>7

(* Whoever syncs, imports or retires, the invariant is kept.               *)
LEMMA SyncKeeps ==
    ASSUME Resolution!ResolutionAssumption, ResolutionInv, NEW up, NEW list,
           Len(list) \in Nat, DOMAIN list = 1 .. Len(list),
           \A i \in DOMAIN list : list[i] \in Resolution!Sources, Resolution!Sync(list, up)
    PROVE  ResolutionInv'
<1>1. PICK db : db = Resolution!ReconciledAll(list, up)
  OBVIOUS
<1>2. PICK rs : rs = Resolution!ToSet(list) \cap up
  OBVIOUS
<1>3. /\ endpoints' = db.endpoints /\ services' = db.services
      /\ synced' = [r \in Resolution!Sources |-> IF r \in rs THEN Resolution!Wanted(r) ELSE synced[r]]
  BY <1>1, <1>2 DEF Resolution!Sync, Resolution!Commit
<1>4. /\ RowsSound(db)
      /\ \A q : Resolution!Slice(q, db.endpoints)
                  = IF q \in rs THEN Resolution!Wanted(q) ELSE Resolution!Slice(q, endpoints)
  BY <1>1, <1>2, AllReconciled DEF ResolutionInv
<1>5. RowsSound(Resolution!Rows)'
  BY <1>3, <1>4 DEF RowsSound, Resolution!Rows, Mentioned, Resolution!Slice
<1>6. synced' = [r \in Resolution!Sources |-> synced'[r]]
  BY <1>3
<1>7. ASSUME NEW r \in Resolution!Sources, synced'[r] # Unsynced
      PROVE  Resolution!Slice(r, endpoints') = synced'[r]
  BY <1>3, <1>4, <1>7 DEF ResolutionInv
<1> QED
  BY <1>5, <1>6, <1>7 DEF ResolutionInv, Resolution!Slice, Resolution!Sources, Resolution!ToSet

LEMMA ImportKeeps ==
    ASSUME Resolution!ResolutionAssumption, ResolutionInv, NEW d \in Resolution!Devices,
           Resolution!Import(d)
    PROVE  ResolutionInv'
<1>1. PICK own : /\ own.service = d /\ own.resolver = d
                 /\ endpoints' = (endpoints \ Resolution!Slice(d, endpoints)) \cup {own}
                 /\ services' = [services EXCEPT ![d] = "known"]
                 /\ synced' = [r \in Resolution!Sources |-> synced[r]]
  <2>1. PICK h : h \in Urls /\
           LET own == [service |-> d, resolver |-> d, host |-> h, ip |-> NoAddress]
           IN  Resolution!Commit([endpoints |-> (endpoints \ Resolution!Slice(d, endpoints)) \cup {own},
                                  services  |-> [services EXCEPT ![d] = "known"]], {})
    BY Zenon DEF Resolution!Import
  <2>2. PICK own : own = [service |-> d, resolver |-> d, host |-> h, ip |-> NoAddress]
    OBVIOUS
  <2>3. Resolution!Commit([endpoints |-> (endpoints \ Resolution!Slice(d, endpoints)) \cup {own},
                           services  |-> [services EXCEPT ![d] = "known"]], {})
    BY <2>1, <2>2
  <2>4. synced' = [r \in Resolution!Sources |-> synced[r]]
    BY <2>3 DEF Resolution!Commit
  <2> QED
    BY <2>2, <2>3, <2>4 DEF Resolution!Commit
<1>2. services = [s \in Resolution!Services |-> services[s]] /\ d \in Resolution!Services
  BY DevicesAreServices DEF ResolutionInv, RowsSound, Resolution!Rows
<1>3. /\ services'[d] = "known" /\ \A s \in Resolution!Services \ {d} : services'[s] = services[s]
      /\ services' = [s \in Resolution!Services |-> services'[s]]
  BY <1>1, <1>2
<1>4. /\ \A s \in Resolution!Services : services[s] # "none" <=> Mentioned(s, endpoints)
      /\ \A e \in endpoints : e.resolver \in Resolution!Devices => e.service = e.resolver
      /\ \A c \in Resolution!Devices : Resolution!Slice(c, endpoints) # {} => services[c] = "known"
  BY DEF ResolutionInv, RowsSound, Resolution!Rows
<1>5. Mentioned(d, endpoints') /\ \A s : s # d => (Mentioned(s, endpoints') <=> Mentioned(s, endpoints))
  BY <1>1, <1>4 DEF Mentioned, Resolution!Slice
<1>6. \A s \in Resolution!Services : services'[s] # "none" <=> Mentioned(s, endpoints')
  BY <1>3, <1>4, <1>5
<1>7. \A q : q # d => Resolution!Slice(q, endpoints') = Resolution!Slice(q, endpoints)
  BY <1>1 DEF Resolution!Slice
<1>8. \A e \in endpoints' : e.resolver \in Resolution!Devices => e.service = e.resolver
  BY <1>1, <1>4
<1>9. \A c \in Resolution!Devices : Resolution!Slice(c, endpoints') # {} => services'[c] = "known"
  BY <1>3, <1>4, <1>7, DevicesAreServices
<1>10. RowsSound(Resolution!Rows)'
  BY <1>3, <1>6, <1>8, <1>9 DEF RowsSound, Resolution!Rows, Mentioned, Resolution!Slice
<1>11. ASSUME NEW r \in Resolution!Sources, synced'[r] # Unsynced
       PROVE  Resolution!Slice(r, endpoints') = synced'[r]
  BY <1>1, <1>7, <1>11 DEF ResolutionInv, Resolution!ResolutionAssumption
<1>12. synced' = [r \in Resolution!Sources |-> synced'[r]]
  BY <1>1
<1> QED
  BY <1>10, <1>11, <1>12 DEF ResolutionInv, Resolution!Slice

LEMMA ResolverRetires ==
    ASSUME Resolution!ResolutionAssumption, ResolutionInv, Resolution!Retire
    PROVE  ResolutionInv'
<1>1. PICK r \in Resolution!Resolvers :
        LET slice == Resolution!Slice(r, endpoints)
            db    == Resolution!Reaped([endpoints |-> endpoints \ slice, services |-> services],
                                       {e.service : e \in slice})
        IN  /\ endpoints' = db.endpoints /\ services' = db.services
            /\ synced' = [q \in Resolution!Sources |-> IF q = r THEN Unsynced ELSE synced[q]]
  BY DEF Resolution!Retire
<1> DEFINE slice == Resolution!Slice(r, endpoints)
           left  == {e.service : e \in slice}
           mid   == [endpoints |-> endpoints \ slice, services |-> services]
           db    == Resolution!Reaped(mid, left)
<1>2. /\ endpoints' = db.endpoints /\ services' = db.services
      /\ synced' = [q \in Resolution!Sources |-> IF q = r THEN Unsynced ELSE synced[q]]
  BY <1>1
<1>3. mid.endpoints = endpoints \ slice /\ mid.services = services
  OBVIOUS
<1>4. /\ services = [s \in Resolution!Services |-> services[s]]
      /\ \A s \in Resolution!Services : services[s] # "none" <=> Mentioned(s, endpoints)
      /\ \A e \in endpoints : e.resolver \in Resolution!Devices => e.service = e.resolver
      /\ \A c \in Resolution!Devices : Resolution!Slice(c, endpoints) # {} => services[c] = "known"
  BY DEF ResolutionInv, RowsSound, Resolution!Rows
<1>5. \A s : Mentioned(s, endpoints \ slice) => Mentioned(s, endpoints)
  BY DEF Mentioned
<1>6. \A s : s \notin left /\ Mentioned(s, endpoints) => Mentioned(s, endpoints \ slice)
  BY DEF Mentioned
<1>7. \A q : Resolution!Slice(q, endpoints \ slice)
               = IF q = r THEN {} ELSE Resolution!Slice(q, endpoints)
  BY DEF Resolution!Slice
<1> HIDE DEF slice, left, mid
<1>8. db.endpoints = mid.endpoints /\ RowsSound(db)
  BY <1>3, <1>4, <1>5, <1>6, <1>7, ReapedKeeps
<1> HIDE DEF db
<1>9. RowsSound(Resolution!Rows)'
  BY <1>2, <1>8 DEF RowsSound, Resolution!Rows, Mentioned, Resolution!Slice
<1>10. ASSUME NEW q \in Resolution!Sources, synced'[q] # Unsynced
       PROVE  Resolution!Slice(q, endpoints') = synced'[q]
  BY <1>2, <1>3, <1>7, <1>8, <1>10 DEF ResolutionInv
<1>11. synced' = [q \in Resolution!Sources |-> synced'[q]]
  BY <1>2
<1> QED
  BY <1>9, <1>10, <1>11 DEF ResolutionInv, Resolution!Slice

LEMMA ResolutionStep ==
    ASSUME Resolution!ResolutionAssumption, ResolutionInv, [Resolution!Next]_(Resolution!vars)
    PROVE  ResolutionInv'
<1>1. ASSUME NEW up, Resolution!Sync(Controllers, up) PROVE ResolutionInv'
  <2>1. Controllers \in Seq(Resolution!Sources)
    BY DEF Resolution!ResolutionAssumption
  <2>2. /\ Len(Controllers) \in Nat /\ DOMAIN Controllers = 1 .. Len(Controllers)
        /\ \A i \in DOMAIN Controllers : Controllers[i] \in Resolution!Sources
    BY <2>1
  <2> QED
    BY <1>1, <2>2, SyncKeeps
<1>2. ASSUME NEW r \in {Router, Public}, Resolution!Sync(<<r>>, {r}) PROVE ResolutionInv'
  <2>1. r \in Resolution!Sources
    BY DEF Resolution!Sources
  <2>2. /\ Len(<<r>>) \in Nat /\ DOMAIN <<r>> = 1 .. Len(<<r>>)
        /\ \A i \in DOMAIN <<r>> : <<r>>[i] \in Resolution!Sources
    BY <2>1
  <2> QED
    BY <1>2, <2>2, SyncKeeps
<1>3. ASSUME UNCHANGED <<endpoints, services, synced>> PROVE ResolutionInv'
  BY <1>3 DEF ResolutionInv, RowsSound, Resolution!Rows, Mentioned, Resolution!Slice
<1>4. CASE Resolution!Change
  BY <1>3, <1>4 DEF Resolution!Change
<1>5. CASE Resolution!Retire
  BY <1>5, ResolverRetires
<1>6. CASE Resolution!ImportHass \/ Resolution!ImportKvm
  BY <1>6, ImportKeeps DEF Resolution!ImportHass, Resolution!ImportKvm, Resolution!Devices
<1>7. CASE Resolution!CliUnifi \/ Resolution!McpUnifi
  BY <1>1, <1>7 DEF Resolution!CliUnifi, Resolution!McpUnifi
<1>8. CASE \/ Resolution!CliMikrotik \/ Resolution!McpMikrotik
           \/ Resolution!CliCloudflare \/ Resolution!McpCloudflare
  BY <1>2, <1>8 DEF Resolution!CliMikrotik, Resolution!McpMikrotik,
                    Resolution!CliCloudflare, Resolution!McpCloudflare
<1>9. CASE UNCHANGED Resolution!vars
  BY <1>3, <1>9 DEF Resolution!vars
<1> QED
  BY <1>4, <1>5, <1>6, <1>7, <1>8, <1>9 DEF Resolution!Next

(* What a source's last pass left is there until its next one or until it  *)
(* is retired, a service is there just as long as an endpoint of it, and   *)
(* what a device said of itself stays while its own endpoint does.         *)
THEOREM SlicesAreFollowed ==
    ASSUME Resolution!ResolutionAssumption
    PROVE  Resolution!Spec => []Resolution!SlicesFollowSources
<1>1. Resolution!Init => ResolutionInv
  BY DEF Resolution!Init, ResolutionInv, RowsSound, Resolution!Rows, Mentioned, Resolution!Slice
<1>2. ResolutionInv /\ [Resolution!Next]_(Resolution!vars) => ResolutionInv'
  BY ResolutionStep
<1>3. ResolutionInv => Resolution!SlicesFollowSources
  BY DEF ResolutionInv, RowsSound, Resolution!Rows, Mentioned, Resolution!SlicesFollowSources
<1> QED
  BY <1>1, <1>2, <1>3, PTL DEF Resolution!Spec
=============================================================================
