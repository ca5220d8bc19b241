----------------------------- MODULE Assertions -----------------------------
(***************************************************************************)
(* One configuration assertion, from the library that declares it to the   *)
(* findings it leaves: engine/assertions.py, assertion_library.py and the  *)
(* assertions' half of the schedule.                                       *)
(*                                                                         *)
(* The library is loaded again after edits and changes the row in place:   *)
(* its target, its test, whether it is enabled.  A run judges the newest   *)
(* observation and opens or resolves the finding of the target that the    *)
(* row names now; nothing else of it does.  An operator triages findings.  *)
(***************************************************************************)
EXTENDS Naturals, FiniteSets

CONSTANTS Hosts, Global,  \* what an assertion may be scoped to
          Library,        \* the entries the library may hold for it, one at a time
          Missing,        \* no row, no observation, no run
          MaxClock,       \* bounds: hours, library edits, readings, operator's commands
          MaxLoads, MaxReadings, MaxTriage

VARIABLES clock,
          row,       \* the ConfigurationAssertion
          reading,   \* per host, the newest observation of the asserted key
          run,       \* the newest AssertionRun
          finding,   \* per target, the status of the finding with the assertion's fingerprint
          used,      \* how much of the bounds is used
          verdict    \* history: per target, what the last run that could tell said,
                     \* or "settled" when an operator has resolved it since

vars == <<clock, row, reading, run, finding, used, verdict>>

Targets == Hosts \cup {Global}
Tests   == {"exists", "equals", "differs", "exceeds", "unknown", "ssh"}
Values  == {"wanted", "other", "strange"}   \* "strange" is of another type

DefaultEvery == 1
Cron == 0   \* a schedule that is a cron expression and no interval

(* "about" is the spec's own target, which goes before the scope's; "arch" *)
(* the hosts of the architectures it is for; "every" its schedule.         *)
Entries == [target : Targets, about : Hosts \cup {Missing}, test : Tests, arch : SUBSET Hosts,
            enabled : BOOLEAN, every : {Missing, Cron, 1, 2}]

AssertionsAssumption ==
    /\ Global \notin Hosts /\ Library \subseteq Entries
    /\ {MaxClock, MaxLoads, MaxReadings, MaxTriage} \subseteq Nat

Statuses == {"none", "open", "acknowledged", "suppressed", "resolved"}
Live     == {"open", "acknowledged"}
-----------------------------------------------------------------------------
(* An upsert by name: the row takes what the entry says, and keeps its     *)
(* identity, and so its runs.                                              *)
Load ==
    /\ used.loads < MaxLoads
    /\ \E entry \in Library \ {row} : row' = entry
    /\ used' = [used EXCEPT !.loads = @ + 1]
    /\ UNCHANGED <<clock, reading, run, finding, verdict>>

Observe ==
    /\ used.readings < MaxReadings
    /\ \E h \in Hosts, value \in Values :
          value # reading[h] /\ reading' = [reading EXCEPT ![h] = value]
    /\ used' = [used EXCEPT !.readings = @ + 1]
    /\ UNCHANGED <<clock, row, run, finding, verdict>>
-----------------------------------------------------------------------------
(* An assertion about a host of another architecture is not judged.        *)
ArchSkips == row.target \in Hosts /\ row.arch # {} /\ row.target \notin row.arch

(* A value that cannot be compared fails the test, but differs.            *)
Holds(value) ==
    CASE row.test = "equals"  -> value = "wanted"
      [] row.test = "differs" -> value # "wanted"
      [] row.test = "exceeds" -> value \in Values \ {"wanted", "strange"}

About == IF row.about # Missing THEN row.about ELSE row.target

Predicate ==
    IF About = Global THEN "error"
    ELSE IF reading[About] = Missing THEN (IF row.test = "exists" THEN "fail" ELSE "skip")
    ELSE IF row.test = "exists" THEN "pass"
    ELSE IF row.test = "unknown" THEN "error"
    ELSE IF Holds(reading[About]) THEN "pass" ELSE "fail"

(* The kinds that need an adapter are not wired yet.                       *)
Verify == IF ArchSkips \/ row.test = "ssh" THEN "skip" ELSE Predicate

Fingerprint == row.target

Failed   == [finding EXCEPT ![Fingerprint] = IF @ \in {"none", "resolved"} THEN "open" ELSE @]
Resolved == [finding EXCEPT ![Fingerprint] = IF @ \in Live THEN "resolved" ELSE @]

RunAssertion ==
    /\ run' = [at |-> clock, status |-> Verify]
    /\ finding' = CASE Verify = "fail" -> Failed [] Verify = "pass" -> Resolved [] OTHER -> finding
    /\ verdict' = IF Verify \in {"pass", "fail"} THEN [verdict EXCEPT ![Fingerprint] = Verify] ELSE verdict
    /\ UNCHANGED <<clock, row, reading, used>>

(* By hand, one by name or all of them; the enabled ones, or all.          *)
AssertRun == row # Missing /\ RunAssertion

Every == IF row.every = Missing THEN DefaultEvery ELSE row.every

(* The pass looks up every enabled row's interval before it runs the first *)
(* of them.  One it cannot read, a cron expression that the loader took,   *)
(* ends the pass, and with it go the probes it had run.                    *)
Readable == row # Missing /\ row.enabled => Every # Cron
Due      == row # Missing /\ row.enabled /\ (run # Missing => run.at + Every <= clock)

RunDue == Readable /\ Due /\ RunAssertion
-----------------------------------------------------------------------------
Triage ==
    /\ used.triage < MaxTriage
    /\ \E t \in Targets :
          /\ finding[t] # "none"
          /\ \E status \in {"acknowledged", "suppressed", "resolved"} :
                /\ finding' = [finding EXCEPT ![t] = status]
                /\ verdict' = IF status = "resolved" THEN [verdict EXCEPT ![t] = "settled"]
                              ELSE verdict
    /\ used' = [used EXCEPT !.triage = @ + 1]
    /\ UNCHANGED <<clock, row, reading, run>>

Tick == clock < MaxClock /\ clock' = clock + 1 /\ UNCHANGED <<row, reading, run, finding, used, verdict>>

Init ==
    /\ clock = 0 /\ row = Missing /\ reading = [h \in Hosts |-> Missing] /\ run = Missing
    /\ finding = [t \in Targets |-> "none"]
    /\ used = [loads |-> 0, readings |-> 0, triage |-> 0]
    /\ verdict = [t \in Targets |-> "none"]

Next == Load \/ Observe \/ AssertRun \/ RunDue \/ Triage \/ Tick

Spec == Init /\ [][Next]_vars
-----------------------------------------------------------------------------
TypeOK ==
    /\ clock \in 0..MaxClock /\ row \in Library \cup {Missing}
    /\ reading \in [Hosts -> Values \cup {Missing}]
    /\ run # Missing => run.at \in 0..clock /\ run.status \in {"pass", "fail", "error", "skip"}
    /\ finding \in [Targets -> Statuses]

(* However the library was edited in between, an open finding is one whose *)
(* last verdict was a failure; and a failure has its finding, until it     *)
(* passes or an operator resolves it.  A run that could not tell, or that  *)
(* was of another architecture's host, moved neither.                      *)
FindingsFollowVerdicts ==
    \A t \in Targets :
        /\ finding[t] = "open" => verdict[t] = "fail"
        /\ verdict[t] = "fail" => finding[t] \notin {"none", "resolved"}

(* A row that was retargeted or disabled leaves its finding behind, which  *)
(* no run resolves any more.  Does not hold.                               *)
LiveFindingsAreAsserted ==
    row # Missing => \A t \in Targets : finding[t] \in Live => t = row.target /\ row.enabled
=============================================================================
