------------------------------ MODULE Probing ------------------------------
(***************************************************************************)
(* The probe schedule: engine/schedule.py over engine/runner.py, and the   *)
(* findings it keeps on probes that go on failing.                         *)
(*                                                                         *)
(* A pass runs what is due, target by target, over one connection each; a  *)
(* target that cannot be reached records nothing.  Then it judges every    *)
(* probe by its newest runs.  The operator may probe a target between      *)
(* passes.  Each pass is one transaction.                                  *)
(***************************************************************************)
EXTENDS Integers, Sequences, FiniteSets, SequencesExt

CONSTANTS Targets, Probes,
          FailingAfter, \* PROBE_FAILING_AFTER
          Interval,     \* Interval[p]: how long a probe of it stays fresh
          MaxClock,     \* bound: ticks
          MaxByHand     \* bound: operator's runs and triages

ProbingAssumption ==
    /\ FailingAfter \in Nat \ {0} /\ Interval \in [Probes -> Nat \ {0}]
    /\ MaxClock \in Nat \ {0} /\ MaxByHand \in Nat

VARIABLES clock,
          history,  \* history[x]: success of the newest runs of a pair, newest first
          ran,      \* ran[x]: when a pair was run last, or Never
          failing,  \* failing[x]: the PROBE_FAILING finding of a pair
          byHand,   \* runs and triages by the operator
          settled,  \* history: pairs nobody touched since the last pass
          streak,   \* history: failures of a pair since it last succeeded
          worst     \* history: the longest such streak, both up to FailingAfter

vars == <<clock, history, ran, failing, byHand, settled, streak, worst>>

Pairs == Targets \X Probes
Never == 0

Init ==
    /\ clock = 1
    /\ history = [x \in Pairs |-> <<>>]
    /\ ran = [x \in Pairs |-> Never]
    /\ failing = [x \in Pairs |-> "none"]
    /\ byHand = 0
    /\ settled = {}
    /\ streak = [x \in Pairs |-> 0]
    /\ worst = streak
-----------------------------------------------------------------------------
Tick ==
    /\ clock < MaxClock
    /\ clock' = clock + 1
    /\ UNCHANGED <<history, ran, failing, byHand, settled, streak, worst>>

(* due_now(): a run counts for the cadence whether it failed or not.       *)
Due(x) == ran[x] = Never \/ ran[x] + Interval[x[2]] <= clock

(* Only the newest FailingAfter runs are ever looked at.                   *)
Recorded(runs, success) ==
    LET all == <<success>> \o runs IN SubSeq(all, 1, IF Len(all) < FailingAfter THEN Len(all) ELSE FailingAfter)

(* Mutant: one failure is enough.                                          *)
FailsOnce(runs) == runs # <<>> /\ ~runs[1]

Fails(runs) == Len(runs) = FailingAfter /\ \A i \in DOMAIN runs : ~runs[i]

(* reconcile_probe_failures(): a mixed or a short history is not judged.   *)
Judged(runs) == runs # <<>> /\ (Fails(runs) \/ runs[1])

(* What it hands to reconcile_category_findings(): the failing pairs, and, *)
(* apart, the probes and the targets it judged anything of.                *)
Seen(runs) ==
    LET xs == {x \in Pairs : Judged(runs[x])} IN {x[1] : x \in xs} \X {x[2] : x \in xs}

Kept(runs) ==
    [x \in Pairs |->
        IF Fails(runs[x])
        THEN IF failing[x] \in {"none", "resolved"} THEN "open" ELSE failing[x]
        ELSE IF x \in Seen(runs) /\ failing[x] \in {"open", "acknowledged"} THEN "resolved"
        ELSE failing[x]]

Ran(xs, good) ==
    /\ history' = [x \in Pairs |-> IF x \in xs THEN Recorded(history[x], x \in good) ELSE history[x]]
    /\ ran' = [x \in Pairs |-> IF x \in xs THEN clock ELSE ran[x]]
    /\ streak' = [x \in Pairs |-> IF x \notin xs THEN streak[x] ELSE IF x \in good THEN 0
                                 ELSE IF streak[x] < FailingAfter THEN streak[x] + 1 ELSE streak[x]]
    /\ worst' = [x \in Pairs |-> IF streak'[x] > worst[x] THEN streak'[x] ELSE worst[x]]

(* run_due(): due probes of the targets in reach, then the findings.       *)
RunDue(reached, good) ==
    LET xs == {x \in Pairs : x[1] \in reached /\ Due(x)} IN
    /\ good \subseteq xs
    /\ Ran(xs, good)
    /\ failing' = Kept(history')
    /\ settled' = {x \in Pairs : history'[x] # <<>>}
    /\ UNCHANGED <<clock, byHand>>

(* `helper discover host`: any of the probes, and no judgement.            *)
ProbeByHand(target, xs, good) ==
    /\ xs # {} /\ \A x \in xs : x[1] = target
    /\ byHand < MaxByHand /\ byHand' = byHand + 1
    /\ Ran(xs, good)
    /\ settled' = settled \ xs
    /\ UNCHANGED <<clock, failing>>

(* `helper findings ack | resolve`                                         *)
Triage(x, status) ==
    /\ failing[x] \in {"open", "acknowledged"} /\ failing[x] # status
    /\ byHand < MaxByHand /\ byHand' = byHand + 1
    /\ failing' = [failing EXCEPT ![x] = status]
    /\ settled' = settled \ {x}
    /\ UNCHANGED <<clock, history, ran, streak, worst>>

Next ==
    \/ Tick
    \/ \E reached \in SUBSET Targets : \E good \in SUBSET (reached \X Probes) : RunDue(reached, good)
    \/ \E t \in Targets : \E xs \in SUBSET ({t} \X Probes) : \E good \in SUBSET xs : ProbeByHand(t, xs, good)
    \/ \E x \in Pairs, s \in {"acknowledged", "resolved"} : Triage(x, s)

Spec == Init /\ [][Next]_vars
-----------------------------------------------------------------------------
TypeOK ==
    /\ clock \in 1 .. MaxClock
    /\ \A x \in Pairs : Len(history[x]) <= FailingAfter /\ ran[x] \in 0 .. clock
    /\ failing \in [Pairs -> {"none", "open", "acknowledged", "resolved"}]
    /\ byHand \in 0 .. MaxByHand /\ settled \subseteq Pairs /\ streak \in [Pairs -> 0 .. FailingAfter]
    /\ worst \in [Pairs -> 0 .. FailingAfter]

(* From a pass to the next run or triage, a pair that has failed           *)
(* FailingAfter times in a row has its finding, and one that was working   *)
(* the last time it was run, or never failed so often, has none open,      *)
(* whatever the other probes of its target and the other targets of its    *)
(* probe were doing.                                                       *)
FindingsFollowRuns ==
    \A x \in settled :
       /\ streak[x] = FailingAfter => failing[x] \in {"open", "acknowledged"}
       /\ streak[x] = 0 \/ worst[x] < FailingAfter => failing[x] \in {"none", "resolved"}
=============================================================================
