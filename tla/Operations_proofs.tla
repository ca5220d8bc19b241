------------------------- MODULE Operations_proofs --------------------------
(***************************************************************************)
(* Operations beside the execution spine, a section each: the windows of   *)
(* the digest, the waits of a dispatch, the drafts of the playbooks, the   *)
(* two readers of a proposal's manifest, the undo of a receipt, and the    *)
(* cells.                                                                  *)
(***************************************************************************)
EXTENDS CellHistory, Digest, Dispatch, Findings, Manifest, Rollback, CellLadder_proofs, SequenceTheorems, TLAPS

(***************************************************************************)
(* The digest.  Between its steps one number says which events have been   *)
(* told of: the newest window's end.  What a sender has on its page is     *)
(* what is there from that end on, unless a second sender is at work; then *)
(* nothing that is stamped before the day is left unexcused.               *)
(***************************************************************************)

(* The rows, the clock and the senders: a sender at work has today's       *)
(* window.                                                                 *)
DigestShape ==
    /\ day \in 1 .. MaxDays /\ newest \in 0 .. day
    /\ event \in [Events -> [row : {"none", "flushed", "there"}, at : 0 .. day]]
    /\ sending \in [Senders -> [from : Int, to : Int, page : SUBSET Events, busy : BOOLEAN]]
    /\ pages \in [Events -> 0 .. 2] /\ excused \subseteq Events
    /\ \A s \in Senders : sending[s].busy => sending[s].to = day

(* What an event that nothing excuses is told of.                          *)
Told(e) ==
    /\ pages[e] = IF event[e].row = "there" /\ event[e].at < newest THEN 1 ELSE 0
    /\ \A s \in Senders : sending[s].busy =>
          (e \in sending[s].page <=> /\ event[e].row = "there"
                                    /\ newest <= event[e].at /\ event[e].at < day)
    /\ \A s, t \in Senders : s # t /\ sending[s].busy /\ sending[t].busy
                               => event[e].row = "none" \/ event[e].at = day

(* The inductive invariant.                                                *)
DigestInv == DigestShape /\ \A e \in Events \ excused : Told(e)

(* No sender has built anything at the start.                              *)
LEMMA InitDigestInv == DigestInit => DigestInv
<1>. SUFFICES ASSUME DigestInit PROVE DigestInv OBVIOUS
<1>1. DigestShape BY DigestAssumption DEF DigestInit, DigestShape, NotSending
<1>2. \A e \in Events : Told(e) BY DEF DigestInit, Told, NotSending
<1>. QED BY <1>1, <1>2 DEF DigestInv

(* The later of two window ends.                                           *)
LEMMA LaterEnd == ASSUME NEW a \in Nat, NEW b \in Nat, a <= b PROVE Max({a, b}) = b
BY DEF Max

(* A digest is built: of an event nobody excuses, exactly what is not on   *)
(* an earlier page.                                                        *)
LEMMA BuildKeeps ==
    ASSUME DigestInv, NEW s \in Senders, NEW days \in {0, 1}, NEW daemon \in BOOLEAN,
           Build(s, days, daemon)
    PROVE  DigestInv'
<1>. DEFINE from == WindowStart(days)
<1>1. /\ ~sending[s].busy
      /\ sending' = [sending EXCEPT ![s] = [from |-> from, to |-> day,
                                            page |-> Page(from), busy |-> TRUE]]
      /\ excused' = excused \cup Excused(s, days)
                      \cup {e \in Events : newest = 0 /\ event[e].row = "there"
                                           /\ event[e].at < from}
      /\ UNCHANGED <<day, event, newest, pages>>
  BY DEF Build
<1>2. DigestShape BY DEF DigestInv
<1>3. from \in Int BY <1>2, DigestAssumption DEF WindowStart, DigestShape
<1>4. DigestShape'
  <2>1. [from |-> from, to |-> day, page |-> Page(from), busy |-> TRUE]
          \in [from : Int, to : Int, page : SUBSET Events, busy : BOOLEAN]
    BY <1>2, <1>3 DEF Page, DigestShape
  <2>2. excused' \subseteq Events BY <1>1, <1>2 DEF Excused, DigestShape
  <2>. HIDE DEF from
  <2>. QED BY <1>1, <1>2, <2>1, <2>2 DEF DigestShape
<1>5. ASSUME NEW e \in Events \ excused' PROVE Told(e)'
  <2>1. Told(e) BY <1>1 DEF DigestInv
  <2>2. e \notin Excused(s, days) /\ ~(newest = 0 /\ event[e].row = "there" /\ event[e].at < from)
    BY <1>1
  <2>3. CASE days > 0 \/ \E t \in Senders \ {s} : sending[t].busy
    <3>1. event[e].row = "none" BY <2>2, <2>3 DEF Excused
    <3>2. e \notin Page(from) BY <3>1 DEF Page
    <3>. HIDE DEF from
    <3>. QED BY <1>1, <1>2, <2>1, <3>1, <3>2 DEF Told, DigestShape
  <2>4. CASE ~(days > 0 \/ \E t \in Senders \ {s} : sending[t].busy)
    <3>1. from = IF newest = 0 THEN day - DefaultDays ELSE newest
      BY <2>4 DEF WindowStart
    <3>2. e \in Page(from) <=> /\ event[e].row = "there"
                               /\ newest <= event[e].at /\ event[e].at < day
      BY <1>2, <2>2, <3>1, DigestAssumption DEF Page, DigestShape
    <3>. HIDE DEF from
    <3>. QED BY <1>1, <1>2, <2>1, <2>4, <3>2 DEF Told, DigestShape
  <2>. QED BY <2>3, <2>4
<1>. QED BY <1>4, <1>5 DEF DigestInv

(* A digest is delivered, or not: its window is recorded, and what was on  *)
(* its page has been told.                                                 *)
LEMMA DeliverKeeps ==
    ASSUME DigestInv, NEW s \in Senders, NEW d \in {"sent", "failed", "page"}, Deliver(s, d)
    PROVE  DigestInv'
<1>1. /\ sending[s].busy
      /\ sending' = [sending EXCEPT ![s] = NotSending]
      /\ pages' = [e \in Events |-> IF e \in sending[s].page /\ pages[e] < 2
                                    THEN pages[e] + 1 ELSE pages[e]]
      /\ UNCHANGED <<day, event, excused>>
  BY DEF Deliver
<1>2. DigestShape BY DEF DigestInv
<1>3. newest' = day
  <2>1. newest' = Max({newest, sending[s].to}) BY DEF Deliver, MovesWindow
  <2>. QED BY <2>1, <1>1, <1>2, LaterEnd DEF DigestShape
<1>4. DigestShape'
  BY <1>1, <1>2, <1>3 DEF DigestShape, NotSending
<1>5. ASSUME NEW e \in Events \ excused' PROVE Told(e)'
  <2>1. Told(e) BY <1>1 DEF DigestInv
  <2>2. event[e].at \in 0 .. day /\ newest \in 0 .. day /\ day \in Nat /\ pages[e] \in 0 .. 2
    BY <1>2 DEF DigestShape
  <2>3. ASSUME NEW t \in Senders, t # s, sending[t].busy
        PROVE  ~(event[e].row = "there" /\ event[e].at < day)
    BY <1>1, <2>1, <2>2, <2>3 DEF Told
  <2>4. /\ pages[e] = IF event[e].row = "there" /\ event[e].at < newest THEN 1 ELSE 0
        /\ e \in sending[s].page <=> /\ event[e].row = "there"
                                     /\ newest <= event[e].at /\ event[e].at < day
    BY <1>1, <2>1 DEF Told
  <2>5. pages'[e] = IF event[e].row = "there" /\ event[e].at < day THEN 1 ELSE 0
    BY <1>1, <2>2, <2>4
  <2>6. ASSUME NEW t \in Senders, sending'[t].busy
        PROVE  t # s /\ sending'[t] = sending[t]
    BY <1>1, <1>2, <2>6 DEF NotSending, DigestShape
  <2>7. \A t \in Senders : sending'[t].busy =>
           (e \in sending'[t].page <=> /\ event[e].row = "there"
                                      /\ day <= event[e].at /\ event[e].at < day)
    BY <2>1, <2>2, <2>3, <2>6 DEF Told
  <2>8. \A t, u \in Senders : t # u /\ sending'[t].busy /\ sending'[u].busy
                               => event[e].row = "none" \/ event[e].at = day
    BY <2>1, <2>6 DEF Told
  <2>. QED BY <1>1, <1>3, <2>5, <2>7, <2>8 DEF Told
<1>. QED BY <1>4, <1>5 DEF DigestInv

(* Every step keeps the invariant.                                         *)
LEMMA NextDigestInv == DigestInv /\ [DigestNext]_digestVars => DigestInv'
<1>. SUFFICES ASSUME DigestInv, [DigestNext]_digestVars PROVE DigestInv' OBVIOUS
<1>. USE DigestAssumption
<1>t. DigestShape BY DEF DigestInv
<1>1. CASE DayPasses
  <2>1. /\ day' = day + 1 /\ day < MaxDays
        /\ \A s \in Senders : ~sending[s].busy
        /\ UNCHANGED <<event, sending, newest, pages, excused>>
    BY <1>1 DEF DayPasses
  <2>2. DigestShape' BY <2>1, <1>t DEF DigestShape
  <2>3. \A e \in Events \ excused' : Told(e)' BY <2>1 DEF DigestInv, Told
  <2>. QED BY <2>2, <2>3 DEF DigestInv
<1>2. ASSUME NEW e \in Events, Stamp(e) PROVE DigestInv'
  <2>1. /\ event[e].row = "none" /\ event' = [event EXCEPT ![e] = [row |-> "flushed", at |-> day]]
        /\ UNCHANGED <<day, sending, newest, pages, excused>>
    BY <1>2 DEF Stamp
  <2>2. DigestShape' BY <2>1, <1>t DEF DigestShape
  <2>3. ASSUME NEW f \in Events \ excused' PROVE Told(f)'
    <3>1. Told(f) BY <2>1 DEF DigestInv
    <3>2. event'[f] = IF f = e THEN [row |-> "flushed", at |-> day] ELSE event[f]
      BY <2>1, <1>t DEF DigestShape
    <3>. QED BY <3>1, <3>2, <2>1, <1>t DEF Told, DigestShape
  <2>. QED BY <2>2, <2>3 DEF DigestInv
<1>3. ASSUME NEW e \in Events, Commit(e) PROVE DigestInv'
  <2>1. /\ event[e].row = "flushed" /\ event' = [event EXCEPT ![e].row = "there"]
        /\ excused' = IF \/ event[e].at < newest
                         \/ \E s \in Senders : sending[s].busy /\ event[e].at < sending[s].to
                      THEN excused \cup {e} ELSE excused
        /\ UNCHANGED <<day, sending, newest, pages>>
    BY <1>3 DEF Commit
  <2>2. DigestShape' BY <2>1, <1>t DEF DigestShape
  <2>3. ASSUME NEW f \in Events \ excused' PROVE Told(f)'
    <3>1. f \notin excused /\ Told(f) BY <2>1 DEF DigestInv
    <3>2. CASE f # e
      <4>1. event'[f] = event[f] BY <3>2, <2>1, <1>t DEF DigestShape
      <4>. QED BY <4>1, <3>1, <2>1 DEF Told
    <3>3. CASE f = e
      <4>1. event'[e].row = "there" /\ event'[e].at = event[e].at
        BY <2>1, <1>t DEF DigestShape
      <4>2. ~(event[e].at < newest)
            /\ \A s \in Senders : sending[s].busy => ~(event[e].at < day)
        BY <3>3, <3>1, <2>1, <1>t DEF DigestShape
      <4>. QED BY <4>1, <4>2, <3>3, <3>1, <2>1, <1>t DEF Told, DigestShape
    <3>. QED BY <3>2, <3>3
  <2>. QED BY <2>2, <2>3 DEF DigestInv
<1>4. ASSUME NEW s \in Senders, NEW days \in {0, 1}, NEW daemon \in BOOLEAN,
             Build(s, days, daemon)
      PROVE  DigestInv'
  BY <1>4, BuildKeeps
<1>5. ASSUME NEW s \in Senders, NEW d \in {"sent", "failed", "page"}, Deliver(s, d)
      PROVE  DigestInv'
  BY <1>5, DeliverKeeps
<1>6. ASSUME NEW s \in Senders, Drop(s) PROVE DigestInv'
  <2>1. /\ sending' = [sending EXCEPT ![s] = NotSending]
        /\ UNCHANGED <<day, event, newest, pages, excused>>
    BY <1>6 DEF Drop
  <2>2. DigestShape' BY <2>1, <1>t DEF DigestShape, NotSending
  <2>3. ASSUME NEW t \in Senders, sending'[t].busy PROVE sending'[t] = sending[t]
    BY <2>1, <2>3, <1>t DEF NotSending, DigestShape
  <2>4. ASSUME NEW e \in Events \ excused' PROVE Told(e)'
    <3>1. Told(e) BY <2>1 DEF DigestInv
    <3>. QED BY <3>1, <2>1, <2>3 DEF Told
  <2>. QED BY <2>2, <2>4 DEF DigestInv
<1>7. CASE UNCHANGED digestVars BY <1>7 DEF digestVars, DigestInv, DigestShape, Told
<1>. QED BY <1>1, <1>2, <1>3, <1>4, <1>5, <1>6, <1>7 DEF DigestNext

(* Every event is on exactly one page of the digests that are past it, for *)
(* every number of events and senders, unless a late commit, a window      *)
(* asked for or a second sender excuses it.                                *)
THEOREM DigestTiles == DigestSpec => []WindowsTile
<1>1. DigestInv => WindowsTile BY DEF DigestInv, Told, WindowsTile
<1>. QED BY <1>1, InitDigestInv, NextDigestInv, PTL DEF DigestSpec

(* The clock, the rows and the pages keep their types.                     *)
THEOREM DigestTypes == DigestSpec => []DigestTypeOK
<1>1. DigestInv => DigestTypeOK
  BY DigestAssumption DEF DigestInv, DigestShape, DigestTypeOK
<1>. QED BY <1>1, InitDigestInv, NextDigestInv, PTL DEF DigestSpec
-----------------------------------------------------------------------------
(***************************************************************************)
(* The dispatch.  A node that has not gone down is up, is seen up, and has *)
(* the release it had; what else there is to say depends on where the      *)
(* dispatch stands.                                                        *)
(***************************************************************************)

(* Types, and what does not depend on where the dispatch stands.           *)
DispatchShape ==
    /\ action \in Kind /\ target \in Target /\ seen \in BOOLEAN
    /\ pc \in {"preflight", "leaving", "returning", "verifying", "ended"}
    /\ waited \in Nat /\ touched \in BOOLEAN /\ left \in BOOLEAN
    /\ touched /\ action \in {"node-reboot", "node-update"} => ~target.guests

(* The inductive invariant.                                                *)
DispatchInv ==
    /\ DispatchShape
    /\ pc # "ended" => outcome = "none"
    /\ pc = "preflight" => ~touched /\ ~left /\ target.up /\ seen
    /\ pc \in {"leaving", "returning"} =>
          /\ Waits
          /\ ~left => target.up /\ seen
          /\ action = "talos-upgrade" /\ ~left => target.release # "new"
    /\ pc = "returning" /\ action = "node-reboot" => left \/ waited >= GoingDown
    /\ pc = "verifying" => action = "k8s-upgrade"
    /\ OutcomesTellTheTruth

(* It holds before the preflight, ...                                      *)
LEMMA InitDispatchInv == DispatchInit => DispatchInv
<1>. SUFFICES ASSUME DispatchInit PROVE DispatchInv OBVIOUS
<1>1. /\ action \in Kind /\ target \in Target /\ target.up /\ seen = TRUE
      /\ pc = "preflight" /\ waited = 0 /\ outcome = "none"
      /\ touched = FALSE /\ left = FALSE
  BY DEF DispatchInit, Relevant
<1>2. DispatchShape BY <1>1 DEF DispatchShape
<1>3. OutcomesTellTheTruth
  BY <1>1 DEF OutcomesTellTheTruth, SucceededMeansBack, RefusedUntouched
<1>. QED BY <1>1, <1>2, <1>3 DEF DispatchInv

(* ... and every step of the handler and of the node keeps it.             *)
LEMMA NextDispatchInv == DispatchInv /\ [DispatchNext]_dispatchVars => DispatchInv'
<1>. SUFFICES ASSUME DispatchInv, [DispatchNext]_dispatchVars PROVE DispatchInv' OBVIOUS
<1>. USE DispatchAssumption DEF DispatchInv, DispatchShape, OutcomesTellTheTruth,
                                SucceededMeansBack, RefusedUntouched
<1>1. CASE Refuse BY <1>1 DEF Refuse, End
<1>2. CASE PreflightFails BY <1>2 DEF PreflightFails, End
<1>3. CASE Write
  <2>1. /\ pc = "preflight" /\ Cleared /\ touched' = TRUE
        /\ UNCHANGED <<action, target, seen, waited, left>>
        /\ \/ pc' = "ended" /\ outcome' = "failed"
           \/ Waits /\ pc' = "leaving" /\ outcome' = outcome
           \/ ~Waits /\ action = "k8s-upgrade" /\ pc' = "verifying" /\ outcome' = outcome
           \/ ~Waits /\ action # "k8s-upgrade" /\ pc' = "ended" /\ outcome' = "succeeded"
    BY <1>3 DEF Write, End
  <2>2. action \in {"node-reboot", "node-update"} => ~target.guests
    BY <2>1 DEF Cleared, NodeDrained
  <2>3. action = "talos-upgrade" => target.release # "new" BY <2>1 DEF Cleared
  <2>. QED BY <2>1, <2>2, <2>3 DEF Waits
<1>4. CASE Verify
  <2>1. PICK release \in Release, healthy \in BOOLEAN :
           /\ target' = [target EXCEPT !.release = release, !.healthy = healthy]
           /\ pc' = "ended"
           /\ outcome' = IF release = "new" /\ healthy THEN "succeeded" ELSE "failed"
    BY <1>4 DEF Verify, End
  <2>2. pc = "verifying" /\ UNCHANGED <<action, seen, waited, touched, left>>
    BY <1>4 DEF Verify
  <2>3. target' \in Target /\ target'.release = release /\ target'.guests = target.guests
    BY <2>1 DEF Target
  <2>. QED BY <2>1, <2>2, <2>3
<1>5. CASE PollLeaving
  <2>1. /\ pc = "leaving"
        /\ UNCHANGED <<action, target, seen, outcome, touched, left>>
        /\ \/ Gone /\ pc' = "returning" /\ waited' = waited
           \/ waited' = waited + 1 /\ pc' = pc
    BY <1>5 DEF PollLeaving
  <2>2. Gone => left BY <2>1 DEF Gone, Waits
  <2>. QED BY <2>1, <2>2 DEF Waits
<1>6. CASE GiveUpLeaving BY <1>6 DEF GiveUpLeaving, Waits
<1>7. CASE PollReturning
  <2>1. /\ pc = "returning"
        /\ UNCHANGED <<action, target, seen, touched, left>>
        /\ \/ Back /\ pc' = "ended" /\ outcome' = "succeeded" /\ waited' = waited
           \/ waited' = waited + 1 /\ pc' = pc /\ outcome' = outcome
    BY <1>7 DEF PollReturning, End
  <2>2. CASE Back /\ pc' = "ended" /\ outcome' = "succeeded" /\ waited' = waited
    BY <2>1, <2>2 DEF Back, Waits
  <2>3. CASE waited' = waited + 1 /\ pc' = pc /\ outcome' = outcome
    BY <2>1, <2>3 DEF Waits
  <2>. QED BY <2>1, <2>2, <2>3
<1>8. CASE GiveUpReturning BY <1>8 DEF GiveUpReturning, End
<1>9. CASE NodeLeaves
  <2>1. /\ target' = [target EXCEPT !.up = FALSE, !.ready = FALSE,
                                    !.quorate = action # "node-reboot"]
        /\ left' = TRUE /\ pc \in {"leaving", "returning"}
        /\ UNCHANGED <<action, seen, pc, waited, outcome, touched>>
    BY <1>9 DEF NodeLeaves, Waiting
  <2>2. target' \in Target /\ target'.guests = target.guests BY <2>1 DEF Target
  <2>. QED BY <2>1, <2>2 DEF Waits
<1>10. CASE NodeBoots
  <2>1. PICK release \in Release : target' = [target EXCEPT !.up = TRUE, !.release = release]
    BY <1>10 DEF NodeBoots
  <2>2. /\ ~target.up /\ pc \in {"leaving", "returning"}
        /\ UNCHANGED <<action, seen, pc, waited, outcome, touched, left>>
    BY <1>10 DEF NodeBoots, Waiting
  <2>3. target' \in Target /\ target'.guests = target.guests BY <2>1 DEF Target
  <2>. QED BY <2>2, <2>3 DEF Waits
<1>11. CASE NodeSettles
  <2>1. /\ target' = [target EXCEPT !.ready = TRUE, !.quorate = TRUE]
        /\ left /\ pc \in {"leaving", "returning"}
        /\ UNCHANGED <<action, seen, pc, waited, outcome, touched, left>>
    BY <1>11 DEF NodeSettles, Waiting
  <2>2. target' \in Target /\ target'.guests = target.guests BY <2>1 DEF Target
  <2>. QED BY <2>1, <2>2 DEF Waits
<1>12. CASE ApiCatchesUp
  <2>1. /\ seen' = target.up /\ pc \in {"leaving", "returning"}
        /\ UNCHANGED <<action, target, pc, waited, outcome, touched, left>>
    BY <1>12 DEF ApiCatchesUp, Waiting
  <2>2. seen' \in BOOLEAN BY <2>1 DEF Target
  <2>. QED BY <2>1, <2>2 DEF Waits
<1>13. CASE UNCHANGED dispatchVars BY <1>13 DEF dispatchVars, Waits
<1>. QED BY <1>1, <1>2, <1>3, <1>4, <1>5, <1>6, <1>7, <1>8, <1>9, <1>10, <1>11, <1>12, <1>13
         DEF DispatchNext, DispatchStep

(* What a dispatch reports is so, however long the node takes and for      *)
(* every number of polls: "succeeded" is a node that is back, "refused" a  *)
(* target that was not touched, and no node that runs guests is.           *)
THEOREM OutcomesAreTrue == DispatchSpec => []OutcomesTellTheTruth
<1>1. DispatchInv => OutcomesTellTheTruth BY DEF DispatchInv
<1>. QED BY <1>1, InitDispatchInv, NextDispatchInv, PTL DEF DispatchSpec
-----------------------------------------------------------------------------
(***************************************************************************)
(* The findings and their playbooks.  A playbook pass carries what it has  *)
(* read over to its write.  Between the two anything may happen to the     *)
(* rows, but then the finding is raced; of the others, what the pass found *)
(* is still so: they are ready for a draft.                                *)
(***************************************************************************)

(* Types; no proposal is from the future, and a finding that is open has   *)
(* been open since it was first seen.                                      *)
FindingsShape ==
    /\ quarter \in 0 .. MaxQuarters
    /\ finding \in [Pairs -> Finding]
    /\ drafts \in [Pairs -> Seq(DraftRow)]
    /\ pass \in [Playbooks -> SUBSET (Pairs \X Actions)]
    /\ since \in [Pairs -> Nat] /\ raced \subseteq Pairs
    /\ \A f \in Pairs : \A i \in DOMAIN drafts[f] : drafts[f][i].proposed <= quarter
    /\ \A f \in Pairs : finding[f].status = "open" => since[f] = finding[f].first_seen

(* OneLiveProposal of one finding's rows.                                  *)
Spaced(f, rows) ==
    \A i, j \in DOMAIN rows : i < j =>
       /\ rows[i].outcome # "pending"
       /\ rows[i].outcome \in Decided => rows[j].proposed >= rows[i].decided + Cooldown
       /\ f[1] \in RedraftOnce /\ rows[i].outcome = "accepted"
            => rows[j].action # rows[i].action

(* The finding may have a draft now: it has been open for MinAge, nothing  *)
(* is pending, every cooldown is over, and a category that redrafts once   *)
(* has not done what it asks for.                                          *)
Ready(f) ==
    /\ finding[f].status = "open" /\ quarter >= since[f] + MinAge
    /\ \A i \in DOMAIN drafts[f] :
          /\ drafts[f][i].outcome # "pending"
          /\ drafts[f][i].outcome \in Decided => quarter >= drafts[f][i].decided + Cooldown
          /\ f[1] \in RedraftOnce /\ drafts[f][i].outcome = "accepted"
               => finding[f].action # drafts[f][i].action

(* The inductive invariant.                                                *)
FindingsInv ==
    /\ FindingsShape
    /\ \A f \in Pairs \ raced : Spaced(f, drafts[f])
    /\ \A p \in Playbooks : \A d \in pass[p] :
          d[1] \notin raced => d[2] = finding[d[1]].action /\ Ready(d[1])

(* Nothing is known at the start.                                          *)
LEMMA InitFindingsInv == FindingsInit => FindingsInv
<1>. SUFFICES ASSUME FindingsInit PROVE FindingsInv OBVIOUS
<1>. USE FindingsAssumption
<1>1. (CHOOSE a \in Actions : TRUE) \in Actions OBVIOUS
<1>2. [status |-> "none", first_seen |-> 0, action |-> CHOOSE a \in Actions : TRUE] \in Finding
  BY <1>1 DEF Finding
<1>3. finding \in [Pairs -> Finding] BY <1>2 DEF FindingsInit
<1>4. \A f \in Pairs : finding[f].status = "none" BY DEF FindingsInit
<1>5. drafts \in [Pairs -> Seq(DraftRow)] /\ \A f \in Pairs : drafts[f] = <<>>
  BY DEF FindingsInit
<1>6. /\ quarter = 0 /\ pass \in [Playbooks -> SUBSET (Pairs \X Actions)]
      /\ since \in [Pairs -> Nat] /\ raced = {} /\ \A p \in Playbooks : pass[p] = {}
  BY DEF FindingsInit
<1>7. FindingsShape BY <1>3, <1>4, <1>5, <1>6 DEF FindingsShape
<1>. QED BY <1>5, <1>6, <1>7 DEF FindingsInv, Spaced

(* _blocking_proposal() looks for the newest row that answers; when it     *)
(* finds none, no row of the finding stands in the way.                    *)
LEMMA DraftableIsReady ==
    ASSUME FindingsShape, NEW f \in Pairs, Spaced(f, drafts[f]), Draftable(f)
    PROVE  Ready(f)
<1>. USE FindingsAssumption
<1>1. drafts[f] \in Seq(DraftRow) /\ quarter \in Nat /\ finding[f] \in Finding /\ since[f] \in Nat
  BY DEF FindingsShape
<1>2. /\ finding[f].status = "open" /\ quarter - finding[f].first_seen >= MinAge
      /\ ~Live(f) /\ ~Cooling(f) /\ (f[1] \in RedraftOnce => ~AlreadyDone(f))
  BY DEF Draftable
<1>3. quarter >= since[f] + MinAge
  <2>1. since[f] = finding[f].first_seen BY <1>2 DEF FindingsShape
  <2>. QED BY <2>1, <1>1, <1>2
<1>4. ASSUME NEW i \in DOMAIN drafts[f] PROVE drafts[f][i].outcome # "pending"
  <2>. SUFFICES ASSUME drafts[f][i].outcome = "pending" PROVE FALSE OBVIOUS
  <2>1. ~ \E j \in DOMAIN drafts[f] : i < j BY DEF Spaced
  <2>2. \A j \in i + 1 .. Len(drafts[f]) : j \in DOMAIN drafts[f] /\ i < j BY <1>1
  <2>3. Live(f) BY <2>1, <2>2 DEF Live
  <2>. QED BY <2>3, <1>2
<1>5. ASSUME NEW i \in DOMAIN drafts[f], drafts[f][i].outcome \in Decided
      PROVE  quarter >= drafts[f][i].decided + Cooldown
  <2>1. /\ drafts[f][i] \in DraftRow /\ drafts[f][i].decided \in Nat
        /\ \A j \in DOMAIN drafts[f] : /\ drafts[f][j].proposed \in Nat
                                       /\ drafts[f][j].outcome \in {"accepted", "rejected", "expired"}
    <3>1. ASSUME NEW j \in DOMAIN drafts[f] PROVE drafts[f][j] \in DraftRow BY <1>1, <3>1
    <3>. QED BY <3>1, <1>4 DEF DraftRow
  <2>2. CASE \A j \in i + 1 .. Len(drafts[f]) : drafts[f][j].outcome = "expired"
    <3>1. ~(quarter - drafts[f][i].decided < Cooldown) BY <1>2, <1>5, <2>2 DEF Cooling
    <3>. QED BY <3>1, <2>1, <1>1
  <2>3. CASE ~ \A j \in i + 1 .. Len(drafts[f]) : drafts[f][j].outcome = "expired"
    <3>1. PICK j \in i + 1 .. Len(drafts[f]) : drafts[f][j].outcome # "expired" BY <2>3
    <3>2. j \in DOMAIN drafts[f] /\ i < j BY <1>1
    <3>3. drafts[f][j].proposed >= drafts[f][i].decided + Cooldown BY <1>5, <3>2 DEF Spaced
    <3>4. drafts[f][j].proposed <= quarter BY <3>2 DEF FindingsShape
    <3>. QED BY <3>2, <3>3, <3>4, <2>1, <1>1
  <2>. QED BY <2>2, <2>3
<1>6. ASSUME NEW i \in DOMAIN drafts[f], f[1] \in RedraftOnce, drafts[f][i].outcome = "accepted"
      PROVE  finding[f].action # drafts[f][i].action
  BY <1>2, <1>6 DEF AlreadyDone
<1>. QED BY <1>2, <1>3, <1>4, <1>5, <1>6 DEF Ready

(* A draft appended to the rows of a finding that is ready keeps them      *)
(* apart.                                                                  *)
LEMMA DraftKeepsApart ==
    ASSUME FindingsShape, NEW f \in Pairs, Spaced(f, drafts[f]), Ready(f)
    PROVE  Spaced(f, Append(drafts[f], NewDraft(finding[f].action)))
<1>. DEFINE rows == drafts[f]
            added == NewDraft(finding[f].action)
<1>1. rows \in Seq(DraftRow) /\ added.proposed = quarter /\ added.action = finding[f].action
  BY DEF FindingsShape, NewDraft
<1>2. added \in DraftRow BY DEF FindingsShape, NewDraft, DraftRow, Finding
<1>3. /\ DOMAIN Append(rows, added) = 1 .. Len(rows) + 1
      /\ Append(rows, added)[Len(rows) + 1] = added
      /\ \A i \in 1 .. Len(rows) : Append(rows, added)[i] = rows[i]
      /\ DOMAIN rows = 1 .. Len(rows) /\ Len(rows) \in Nat
  BY <1>1, <1>2
<1>4. \A i \in 1 .. Len(rows) :
         /\ rows[i].outcome # "pending"
         /\ rows[i].outcome \in Decided => added.proposed >= rows[i].decided + Cooldown
         /\ f[1] \in RedraftOnce /\ rows[i].outcome = "accepted" => added.action # rows[i].action
  BY <1>1, <1>3 DEF Ready
<1>5. Spaced(f, rows) OBVIOUS
<1>. HIDE DEF rows, added
<1>6. ASSUME NEW i \in DOMAIN Append(rows, added), NEW j \in DOMAIN Append(rows, added), i < j
      PROVE  LET r == Append(rows, added)
             IN  /\ r[i].outcome # "pending"
                 /\ r[i].outcome \in Decided => r[j].proposed >= r[i].decided + Cooldown
                 /\ f[1] \in RedraftOnce /\ r[i].outcome = "accepted" => r[j].action # r[i].action
  <2>1. i \in 1 .. Len(rows) /\ Append(rows, added)[i] = rows[i] BY <1>3, <1>6
  <2>2. CASE j = Len(rows) + 1 BY <2>1, <2>2, <1>3, <1>4
  <2>3. CASE j # Len(rows) + 1
    <3>1. j \in 1 .. Len(rows) /\ Append(rows, added)[j] = rows[j] BY <1>3, <2>3
    <3>. QED BY <2>1, <3>1, <1>3, <1>5, <1>6 DEF Spaced
  <2>. QED BY <2>2, <2>3
<1>7. Spaced(f, Append(rows, added)) BY <1>6 DEF Spaced
<1>. QED BY <1>7 DEF rows, added

(* What writing a set of drafts makes of the rows.                         *)
LEMMA Written ==
    ASSUME FindingsShape, NEW ds \in SUBSET (Pairs \X Actions),
           NEW rows \in [Pairs -> Seq(DraftRow)]
    PROVE  /\ WithDrafts(rows, ds) \in [Pairs -> Seq(DraftRow)]
           /\ \A f \in Pairs :
                 \/ WithDrafts(rows, ds)[f] = rows[f] /\ ~ \E d \in ds : d[1] = f
                 \/ \E d \in ds : /\ d[1] = f
                                 /\ WithDrafts(rows, ds)[f] = Append(rows[f], NewDraft(d[2]))
<1>1. \A a \in Actions : NewDraft(a) \in DraftRow
  BY FindingsAssumption DEF FindingsShape, NewDraft, DraftRow
<1>2. ASSUME NEW f \in Pairs
      PROVE  /\ WithDrafts(rows, ds)[f] \in Seq(DraftRow)
             /\ \/ WithDrafts(rows, ds)[f] = rows[f] /\ ~ \E d \in ds : d[1] = f
                \/ \E d \in ds : /\ d[1] = f
                                /\ WithDrafts(rows, ds)[f] = Append(rows[f], NewDraft(d[2]))
  <2>1. CASE \E d \in ds : d[1] = f
    <3>. DEFINE d == CHOOSE x \in ds : x[1] = f
    <3>1. d \in ds /\ d[1] = f BY <2>1
    <3>2. WithDrafts(rows, ds)[f] = Append(rows[f], NewDraft(d[2])) BY <2>1 DEF WithDrafts
    <3>. HIDE DEF d
    <3>3. d[2] \in Actions BY <3>1
    <3>. QED BY <3>1, <3>2, <3>3, <1>1
  <2>2. CASE ~ \E d \in ds : d[1] = f BY <2>2 DEF WithDrafts
  <2>. QED BY <2>1, <2>2
<1>3. WithDrafts(rows, ds) \in [Pairs -> Seq(DraftRow)]
  <2>1. WithDrafts(rows, ds) = [f \in Pairs |-> WithDrafts(rows, ds)[f]] BY DEF WithDrafts
  <2>. QED BY <2>1, <1>2
<1>. QED BY <1>2, <1>3

(* Every proposal that is written is of today.                             *)
LEMMA AppendedProposed ==
    ASSUME FindingsShape, NEW rows \in Seq(DraftRow), NEW a \in Actions,
           \A i \in DOMAIN rows : rows[i].proposed <= quarter
    PROVE  \A i \in DOMAIN Append(rows, NewDraft(a)) :
              Append(rows, NewDraft(a))[i].proposed <= quarter
<1>1. NewDraft(a) \in DraftRow /\ NewDraft(a).proposed = quarter /\ quarter \in Nat
  BY FindingsAssumption DEF FindingsShape, NewDraft, DraftRow
<1>. HIDE DEF NewDraft
<1>2. /\ DOMAIN Append(rows, NewDraft(a)) = 1 .. Len(rows) + 1
      /\ Append(rows, NewDraft(a))[Len(rows) + 1] = NewDraft(a)
      /\ \A i \in 1 .. Len(rows) : Append(rows, NewDraft(a))[i] = rows[i]
      /\ DOMAIN rows = 1 .. Len(rows) /\ Len(rows) \in Nat
  BY <1>1
<1>. QED BY <1>1, <1>2

(* What a pass found of a finding is still so while its rows stay.         *)
LEMMA StaysReady ==
    ASSUME NEW f \in Pairs, Ready(f), UNCHANGED <<quarter, finding[f], drafts[f], since[f]>>
    PROVE  Ready(f)'
BY DEF Ready

(* A pass that waits for the write lock keeps its findings busy.           *)
LEMMA BusyOf ==
    ASSUME NEW p \in Playbooks, NEW d \in pass[p]
    PROVE  d[1] \in Busy
BY DEF Busy

(* What a discovery pass makes of the rows.                                *)
LEMMA DiscoverKeeps ==
    ASSUME FindingsInv, Discover
    PROVE  FindingsInv'
<1>. USE FindingsAssumption
<1>1. PICK cats \in SUBSET Categories, targets \in SUBSET TargetRefs, a \in Actions :
         \E issues \in SUBSET (cats \X targets) : Reconcile(cats, targets, issues, a)
  BY DEF Discover
<1>2. PICK issues \in SUBSET (cats \X targets) : Reconcile(cats, targets, issues, a) BY <1>1
<1>3. /\ finding' = [f \in Pairs |->
            IF f \in issues THEN Reported(finding[f], a)
            ELSE IF /\ LookedAt(f, cats, targets)
                    /\ finding[f].status \in {"open", "acknowledged"}
                 THEN [finding[f] EXCEPT !.status = "resolved"]
                 ELSE finding[f]]
      /\ since' = [f \in Pairs |->
            IF finding'[f].status = "open" /\ finding[f].status # "open"
            THEN quarter ELSE since[f]]
      /\ raced' = raced \cup {f \in Busy : finding'[f] # finding[f]}
      /\ UNCHANGED <<quarter, drafts, pass>>
  BY <1>2 DEF Reconcile
<1>t. FindingsShape BY DEF FindingsInv
<1>4. ASSUME NEW f \in Pairs
      PROVE  /\ finding'[f] \in Finding
             /\ finding'[f].status = "open" => since'[f] = finding'[f].first_seen
  <2>1. /\ finding[f] \in Finding /\ quarter \in Nat /\ since'[f] =
           (IF finding'[f].status = "open" /\ finding[f].status # "open"
            THEN quarter ELSE since[f])
        /\ finding[f].status = "open" => since[f] = finding[f].first_seen
    BY <1>t, <1>3 DEF FindingsShape
  <2>2. CASE f \in issues
    <3>1. finding'[f] = Reported(finding[f], a) BY <1>3, <2>2
    <3>2. CASE finding[f].status \in {"none", "resolved"}
      <4>1. finding'[f] = [status |-> "open", first_seen |-> quarter, action |-> a]
        BY <3>1, <3>2 DEF Reported
      <4>. QED BY <4>1, <3>2, <2>1 DEF Finding
    <3>3. CASE finding[f].status \notin {"none", "resolved"}
      <4>1. finding'[f] = [finding[f] EXCEPT !.action = a] BY <3>1, <3>3 DEF Reported
      <4>. QED BY <4>1, <2>1 DEF Finding
    <3>. QED BY <3>2, <3>3
  <2>3. CASE f \notin issues
    <3>1. finding'[f] \in {[finding[f] EXCEPT !.status = "resolved"], finding[f]} BY <1>3, <2>3
    <3>. QED BY <3>1, <2>1 DEF Finding
  <2>. QED BY <2>2, <2>3
<1>5. FindingsShape'
  <2>1. finding' \in [Pairs -> Finding] BY <1>3, <1>4
  <2>2. since' \in [Pairs -> Nat] BY <1>3, <1>t DEF FindingsShape
  <2>3. raced' \subseteq Pairs BY <1>3, <1>t DEF FindingsShape, Busy
  <2>. QED BY <1>3, <1>4, <1>t, <2>1, <2>2, <2>3 DEF FindingsShape
<1>6. \A f \in Pairs \ raced' : Spaced(f, drafts'[f]) BY <1>3 DEF FindingsInv
<1>7. ASSUME NEW p \in Playbooks, NEW d \in pass'[p], d[1] \notin raced'
      PROVE  d[2] = finding'[d[1]].action /\ Ready(d[1])'
  <2>1. d \in pass[p] /\ d[1] \in Busy /\ d[1] \in Pairs /\ d[1] \notin raced
    BY <1>3, <1>7, <1>t, BusyOf DEF FindingsShape
  <2>2. finding'[d[1]] = finding[d[1]] BY <2>1, <1>3, <1>7
  <2>3. since'[d[1]] = since[d[1]] BY <2>1, <2>2, <1>3
  <2>4. d[2] = finding[d[1]].action /\ Ready(d[1]) BY <2>1 DEF FindingsInv
  <2>. QED BY <2>1, <2>2, <2>3, <2>4, <1>3, StaysReady
<1>. QED BY <1>5, <1>6, <1>7 DEF FindingsInv

(* The operator's verdict on a finding never opens it.                     *)
LEMMA TriageKeeps ==
    ASSUME FindingsInv, NEW f \in Pairs, NEW s \in {"acknowledged", "resolved", "suppressed"},
           TriageFinding(f, s)
    PROVE  FindingsInv'
<1>1. /\ finding' = [finding EXCEPT ![f].status = s] /\ raced' = raced \cup ({f} \cap Busy)
      /\ UNCHANGED <<quarter, drafts, pass, since>>
  BY DEF TriageFinding
<1>t. FindingsShape BY DEF FindingsInv
<1>2. /\ finding' \in [Pairs -> Finding] /\ finding'[f].status # "open"
      /\ \A g \in Pairs : g # f => finding'[g] = finding[g]
  BY <1>1, <1>t DEF FindingsShape, Finding
<1>3. FindingsShape' BY <1>1, <1>2, <1>t DEF FindingsShape
<1>4. \A g \in Pairs \ raced' : Spaced(g, drafts'[g]) BY <1>1 DEF FindingsInv
<1>5. ASSUME NEW p \in Playbooks, NEW d \in pass'[p], d[1] \notin raced'
      PROVE  d[2] = finding'[d[1]].action /\ Ready(d[1])'
  <2>1. d \in pass[p] /\ d[1] \in Busy /\ d[1] \in Pairs /\ d[1] \notin raced
    BY <1>1, <1>5, <1>t, BusyOf DEF FindingsShape
  <2>2. finding'[d[1]] = finding[d[1]] BY <2>1, <1>1, <1>2, <1>5
  <2>3. d[2] = finding[d[1]].action /\ Ready(d[1]) BY <2>1 DEF FindingsInv
  <2>. QED BY <2>1, <2>2, <2>3, <1>1, StaysReady
<1>. QED BY <1>3, <1>4, <1>5 DEF FindingsInv

(* A draft is executed or turned down: it was the last of its finding's.   *)
LEMMA DecideKeeps ==
    ASSUME FindingsInv, NEW f \in Pairs, NEW o \in Decided, DecideDraft(f, o)
    PROVE  FindingsInv'
<1>. USE FindingsAssumption
<1>1. PICK i \in DOMAIN drafts[f] :
         /\ drafts[f][i].outcome = "pending"
         /\ drafts' = [drafts EXCEPT ![f][i].outcome = o, ![f][i].decided = quarter]
         /\ raced' = raced \cup ({f} \cap Busy)
         /\ UNCHANGED <<quarter, finding, pass, since>>
  BY DEF DecideDraft
<1>t. FindingsShape BY DEF FindingsInv
<1>2. drafts[f] \in Seq(DraftRow) /\ quarter \in Nat BY <1>t DEF FindingsShape
<1>3. /\ drafts'[f] = [drafts[f] EXCEPT ![i] = [drafts[f][i] EXCEPT !.outcome = o,
                                                                   !.decided = quarter]]
      /\ \A g \in Pairs : g # f => drafts'[g] = drafts[g]
  BY <1>1, <1>t DEF FindingsShape
<1>4. /\ [drafts[f][i] EXCEPT !.outcome = o, !.decided = quarter] \in DraftRow
      /\ [drafts[f][i] EXCEPT !.outcome = o, !.decided = quarter].proposed = drafts[f][i].proposed
      /\ [drafts[f][i] EXCEPT !.outcome = o, !.decided = quarter].action = drafts[f][i].action
  <2>1. drafts[f][i] \in DraftRow BY <1>2
  <2>. QED BY <2>1, <1>2 DEF DraftRow, Decided
<1>5. /\ drafts'[f] \in Seq(DraftRow) /\ DOMAIN drafts'[f] = DOMAIN drafts[f]
      /\ \A j \in DOMAIN drafts[f] : /\ j # i => drafts'[f][j] = drafts[f][j]
                                     /\ drafts'[f][j].proposed = drafts[f][j].proposed
                                     /\ drafts'[f][j].action = drafts[f][j].action
  <2>1. drafts'[f] \in Seq(DraftRow) BY <1>2, <1>3, <1>4
  <2>. QED BY <1>2, <1>3, <1>4, <2>1
<1>6. FindingsShape'
  <2>1. drafts' \in [Pairs -> Seq(DraftRow)] BY <1>1, <1>3, <1>5, <1>t DEF FindingsShape
  <2>2. \A g \in Pairs : \A j \in DOMAIN drafts'[g] : drafts'[g][j].proposed <= quarter
    BY <1>3, <1>5, <1>t DEF FindingsShape
  <2>. QED BY <1>1, <1>t, <2>1, <2>2 DEF FindingsShape
<1>7. ASSUME NEW g \in Pairs \ raced' PROVE Spaced(g, drafts'[g])
  <2>1. Spaced(g, drafts[g]) BY <1>1 DEF FindingsInv
  <2>2. CASE g # f BY <2>1, <2>2, <1>3
  <2>3. CASE g = f
    <3>1. \A j \in DOMAIN drafts[f] : ~(i < j) BY <2>1, <2>3, <1>1 DEF Spaced
    <3>2. ASSUME NEW k \in DOMAIN drafts[f], NEW j \in DOMAIN drafts[f], k < j
          PROVE  drafts'[f][k] = drafts[f][k]
      BY <3>1, <3>2, <1>5
    <3>. QED BY <2>1, <2>3, <3>2, <1>5 DEF Spaced
  <2>. QED BY <2>2, <2>3
<1>8. ASSUME NEW p \in Playbooks, NEW d \in pass'[p], d[1] \notin raced'
      PROVE  d[2] = finding'[d[1]].action /\ Ready(d[1])'
  <2>1. d \in pass[p] /\ d[1] \in Busy /\ d[1] \in Pairs /\ d[1] \notin raced
    BY <1>1, <1>8, <1>t, BusyOf DEF FindingsShape
  <2>2. drafts'[d[1]] = drafts[d[1]] BY <2>1, <1>1, <1>3, <1>8
  <2>3. d[2] = finding[d[1]].action /\ Ready(d[1]) BY <2>1 DEF FindingsInv
  <2>. QED BY <2>1, <2>2, <2>3, <1>1, StaysReady
<1>. QED BY <1>6, <1>7, <1>8 DEF FindingsInv

(* Time passes while no pass has read anything.                            *)
LEMMA QuarterKeeps ==
    ASSUME FindingsInv, QuarterPasses
    PROVE  FindingsInv'
<1>. USE FindingsAssumption
<1>1. /\ quarter < MaxQuarters /\ Busy = {} /\ quarter' = quarter + 1
      /\ UNCHANGED <<finding, drafts, pass, since, raced>>
  BY DEF QuarterPasses
<1>t. FindingsShape BY DEF FindingsInv
<1>2. FindingsShape'
  <2>1. ASSUME NEW f \in Pairs, NEW i \in DOMAIN drafts[f]
        PROVE  drafts[f][i].proposed <= quarter + 1
    <3>1. drafts[f] \in Seq(DraftRow) /\ quarter \in Nat /\ drafts[f][i].proposed <= quarter
      BY <1>t DEF FindingsShape
    <3>2. drafts[f][i] \in DraftRow BY <3>1
    <3>. QED BY <3>1, <3>2 DEF DraftRow
  <2>. QED BY <1>1, <1>t, <2>1 DEF FindingsShape
<1>3. \A f \in Pairs \ raced' : Spaced(f, drafts'[f]) BY <1>1 DEF FindingsInv
<1>4. \A p \in Playbooks : pass'[p] = {} BY <1>1, BusyOf
<1>. QED BY <1>2, <1>3, <1>4 DEF FindingsInv

(* What is withdrawn leaves the rest of the rows as they were.             *)
LEMMA WithdrawnRows ==
    ASSUME FindingsShape, NEW f \in Pairs, NEW rows \in Seq(DraftRow)
    PROVE  /\ Withdrawn(rows) \in Seq(DraftRow) /\ DOMAIN Withdrawn(rows) = DOMAIN rows
           /\ Len(Withdrawn(rows)) = Len(rows)
           /\ \A i \in DOMAIN rows : Withdrawn(rows)[i].proposed = rows[i].proposed
           /\ Spaced(f, rows) => Spaced(f, Withdrawn(rows))
<1>1. ASSUME NEW i \in DOMAIN rows
      PROVE  /\ Withdrawn(rows)[i] \in DraftRow
             /\ Withdrawn(rows)[i].proposed = rows[i].proposed
             /\ Withdrawn(rows)[i].action = rows[i].action
             /\ Withdrawn(rows)[i].outcome =
                   IF rows[i].outcome = "pending" THEN "expired" ELSE rows[i].outcome
             /\ rows[i].outcome # "pending" => Withdrawn(rows)[i].decided = rows[i].decided
  <2>1. rows[i] \in DraftRow OBVIOUS
  <2>2. quarter \in Nat BY FindingsAssumption DEF FindingsShape
  <2>3. CASE rows[i].outcome = "pending"
    <3>1. Withdrawn(rows)[i] = [rows[i] EXCEPT !.outcome = "expired", !.decided = quarter]
      BY <2>3 DEF Withdrawn
    <3>. QED BY <3>1, <2>1, <2>2, <2>3 DEF DraftRow
  <2>4. CASE rows[i].outcome # "pending"
    <3>1. Withdrawn(rows)[i] = rows[i] BY <2>4 DEF Withdrawn
    <3>. QED BY <3>1, <2>1, <2>4
  <2>. QED BY <2>3, <2>4
<1>2. DOMAIN Withdrawn(rows) = 1 .. Len(rows) /\ DOMAIN rows = 1 .. Len(rows) /\ Len(rows) \in Nat
  BY DEF Withdrawn
<1>3. Withdrawn(rows) \in Seq(DraftRow) /\ Len(Withdrawn(rows)) = Len(rows)
  <2>1. Withdrawn(rows) = [i \in 1 .. Len(rows) |-> Withdrawn(rows)[i]] BY <1>2 DEF Withdrawn
  <2>2. \A i \in 1 .. Len(rows) : Withdrawn(rows)[i] \in DraftRow BY <1>1, <1>2
  <2>3. Withdrawn(rows) \in [1 .. Len(rows) -> DraftRow] BY <2>1, <2>2
  <2>4. Withdrawn(rows) \in Seq(DraftRow) BY <2>3, <1>2
  <2>. QED BY <2>4, <1>2
<1>4. Spaced(f, rows) => Spaced(f, Withdrawn(rows))
  <2>. SUFFICES ASSUME Spaced(f, rows) PROVE Spaced(f, Withdrawn(rows)) OBVIOUS
  <2>. QED BY <1>1, <1>2 DEF Spaced, Decided
<1>. QED BY <1>1, <1>2, <1>3, <1>4

(* A pass that withdraws something writes its drafts under the same lock.  *)
LEMMA RunPlaybooksKeeps ==
    ASSUME FindingsInv, NEW p \in Playbooks, RunPlaybooks(p)
    PROVE  /\ FindingsInv'
           /\ \A f \in Pairs \ raced' : Len(drafts'[f]) > Len(drafts[f]) => Ready(f)
<1>. DEFINE rows == [f \in Pairs |-> IF Stale(f) THEN Withdrawn(drafts[f]) ELSE drafts[f]]
            ds   == Drafts({f \in Pairs : Draftable(f)})
<1>1. /\ drafts' = WithDrafts(rows, ds)
      /\ raced' = raced \cup {f \in Busy : drafts'[f] # drafts[f]}
      /\ UNCHANGED <<quarter, finding, pass, since>>
  BY DEF RunPlaybooks
<1>t. FindingsShape BY DEF FindingsInv
<1>2. ASSUME NEW f \in Pairs
      PROVE  drafts[f] \in Seq(DraftRow) /\ finding[f].action \in Actions
  BY <1>t DEF FindingsShape, Finding
<1>3. ASSUME NEW f \in Pairs
      PROVE  /\ rows[f] \in Seq(DraftRow) /\ Len(rows[f]) = Len(drafts[f])
             /\ \A i \in DOMAIN rows[f] : rows[f][i].proposed <= quarter
             /\ Spaced(f, drafts[f]) => Spaced(f, rows[f])
             /\ Draftable(f) => rows[f] = drafts[f]
  <2>1. \A i \in DOMAIN drafts[f] : drafts[f][i].proposed <= quarter BY <1>t DEF FindingsShape
  <2>2. CASE Stale(f)
    <3>1. rows[f] = Withdrawn(drafts[f]) BY <2>2
    <3>2. ~Draftable(f) BY <2>2 DEF Stale, Draftable
    <3>. QED BY <3>1, <3>2, <2>1, <1>2, <1>t, WithdrawnRows
  <2>3. CASE ~Stale(f)
    <3>1. rows[f] = drafts[f] BY <2>3
    <3>. QED BY <3>1, <2>1, <1>2
  <2>. QED BY <2>2, <2>3
<1>4. rows \in [Pairs -> Seq(DraftRow)]
  <2>1. \A f \in Pairs : rows[f] \in Seq(DraftRow) BY <1>3
  <2>. QED BY <2>1
<1>5. /\ ds \in SUBSET (Pairs \X Actions)
      /\ \A d \in ds : Draftable(d[1]) /\ d[2] = finding[d[1]].action
  BY <1>2 DEF Drafts
<1>. HIDE DEF rows, ds
<1>6. ASSUME NEW f \in Pairs
      PROVE  \/ drafts'[f] = rows[f]
             \/ Draftable(f) /\ drafts'[f] = Append(drafts[f], NewDraft(finding[f].action))
  <2>1. \/ WithDrafts(rows, ds)[f] = rows[f]
        \/ \E d \in ds : /\ d[1] = f
                        /\ WithDrafts(rows, ds)[f] = Append(rows[f], NewDraft(d[2]))
    BY <1>4, <1>5, <1>t, Written
  <2>2. ASSUME NEW d \in ds, d[1] = f,
               WithDrafts(rows, ds)[f] = Append(rows[f], NewDraft(d[2]))
        PROVE  Draftable(f) /\ drafts'[f] = Append(drafts[f], NewDraft(finding[f].action))
    BY <2>2, <1>1, <1>3, <1>5
  <2>. QED BY <2>1, <2>2, <1>1
<1>7. FindingsShape'
  <2>1. drafts' \in [Pairs -> Seq(DraftRow)] BY <1>1, <1>4, <1>5, <1>t, Written
  <2>2. \A f \in Pairs : \A i \in DOMAIN drafts'[f] : drafts'[f][i].proposed <= quarter
    <3>. SUFFICES ASSUME NEW f \in Pairs
                  PROVE  \A i \in DOMAIN drafts'[f] : drafts'[f][i].proposed <= quarter
      OBVIOUS
    <3>1. CASE drafts'[f] = rows[f] BY <3>1, <1>3
    <3>2. CASE Draftable(f) /\ drafts'[f] = Append(drafts[f], NewDraft(finding[f].action))
      <4>1. \A i \in DOMAIN drafts[f] : drafts[f][i].proposed <= quarter
        BY <1>t DEF FindingsShape
      <4>. QED BY <3>2, <4>1, <1>2, <1>t, AppendedProposed
    <3>. QED BY <3>1, <3>2, <1>6
  <2>3. raced' \subseteq Pairs BY <1>1, <1>t DEF FindingsShape, Busy
  <2>. QED BY <1>1, <1>t, <2>1, <2>2, <2>3 DEF FindingsShape
<1>8. ASSUME NEW f \in Pairs \ raced'
      PROVE  Spaced(f, drafts'[f]) /\ (Len(drafts'[f]) > Len(drafts[f]) => Ready(f))
  <2>1. Spaced(f, drafts[f]) BY <1>1 DEF FindingsInv
  <2>2. CASE drafts'[f] = rows[f]
    <3>1. ~(Len(drafts'[f]) > Len(drafts[f])) BY <2>2, <1>2, <1>3
    <3>. QED BY <3>1, <2>1, <2>2, <1>3
  <2>3. CASE Draftable(f) /\ drafts'[f] = Append(drafts[f], NewDraft(finding[f].action))
    <3>1. Ready(f) BY <2>1, <2>3, <1>t, DraftableIsReady
    <3>. QED BY <3>1, <2>1, <2>3, <1>t, DraftKeepsApart
  <2>. QED BY <2>2, <2>3, <1>6
<1>9. ASSUME NEW q \in Playbooks, NEW d \in pass'[q], d[1] \notin raced'
      PROVE  d[2] = finding'[d[1]].action /\ Ready(d[1])'
  <2>1. d \in pass[q] /\ d[1] \in Busy /\ d[1] \in Pairs /\ d[1] \notin raced
    BY <1>1, <1>9, <1>t, BusyOf DEF FindingsShape
  <2>2. drafts'[d[1]] = drafts[d[1]] BY <2>1, <1>1, <1>9
  <2>3. d[2] = finding[d[1]].action /\ Ready(d[1]) BY <2>1 DEF FindingsInv
  <2>. QED BY <2>1, <2>2, <2>3, <1>1, StaysReady
<1>. QED BY <1>7, <1>8, <1>9 DEF FindingsInv

(* A pass that withdraws nothing takes along what is ready.                *)
LEMMA ReadKeeps ==
    ASSUME FindingsInv, NEW p \in Playbooks, ReadFindings(p)
    PROVE  FindingsInv'
<1>. DEFINE ds == Drafts({f \in Pairs : Draftable(f) /\ HasRoom(f)})
<1>1. /\ pass' = [pass EXCEPT ![p] = ds]
      /\ UNCHANGED <<quarter, finding, drafts, since, raced>>
  BY DEF ReadFindings
<1>t. FindingsShape BY DEF FindingsInv
<1>2. /\ ds \in SUBSET (Pairs \X Actions)
      /\ \A d \in ds : Draftable(d[1]) /\ d[2] = finding[d[1]].action
  <2>1. \A f \in Pairs : finding[f].action \in Actions BY <1>t DEF FindingsShape, Finding
  <2>. QED BY <2>1 DEF Drafts
<1>. HIDE DEF ds
<1>3. FindingsShape' BY <1>1, <1>2, <1>t DEF FindingsShape
<1>4. \A f \in Pairs \ raced' : Spaced(f, drafts'[f]) BY <1>1 DEF FindingsInv
<1>5. ASSUME NEW q \in Playbooks, NEW d \in pass'[q], d[1] \notin raced'
      PROVE  d[2] = finding'[d[1]].action /\ Ready(d[1])'
  <2>1. d[1] \in Pairs /\ d[1] \notin raced BY <1>1, <1>3, <1>5 DEF FindingsShape
  <2>2. d[2] = finding[d[1]].action /\ Ready(d[1])
    <3>1. CASE d \in pass[q] BY <2>1, <3>1 DEF FindingsInv
    <3>2. CASE d \in ds
      <4>1. Spaced(d[1], drafts[d[1]]) BY <2>1 DEF FindingsInv
      <4>. QED BY <4>1, <3>2, <2>1, <1>2, <1>t, DraftableIsReady
    <3>3. d \in pass[q] \/ d \in ds BY <1>1, <1>t DEF FindingsShape
    <3>. QED BY <3>1, <3>2, <3>3
  <2>. QED BY <2>1, <2>2, <1>1, StaysReady
<1>. QED BY <1>3, <1>4, <1>5 DEF FindingsInv

(* It writes them without another look at the first; what it read still    *)
(* holds of the findings that are not raced.                               *)
LEMMA WriteKeeps ==
    ASSUME FindingsInv, NEW p \in Playbooks, WriteDrafts(p)
    PROVE  /\ FindingsInv'
           /\ \A f \in Pairs \ raced' : Len(drafts'[f]) > Len(drafts[f]) => Ready(f)
<1>1. PICK now \in SUBSET pass[p] :
         /\ drafts' = WithDrafts(drafts, now)
         /\ pass' = [pass EXCEPT ![p] = {}]
         /\ raced' = raced \cup {d[1] : d \in now \cap UNION {pass[q] : q \in Playbooks \ {p}}}
         /\ UNCHANGED <<quarter, finding, since>>
  BY DEF WriteDrafts
<1>t. FindingsShape BY DEF FindingsInv
<1>2. /\ drafts \in [Pairs -> Seq(DraftRow)] /\ now \in SUBSET (Pairs \X Actions)
      /\ \A f \in Pairs : finding[f].action \in Actions
  BY <1>1, <1>t DEF FindingsShape, Finding
<1>3. ASSUME NEW f \in Pairs
      PROVE  \/ drafts'[f] = drafts[f] /\ ~ \E d \in now : d[1] = f
             \/ \E d \in now : d[1] = f /\ drafts'[f] = Append(drafts[f], NewDraft(d[2]))
  <2>1. \/ WithDrafts(drafts, now)[f] = drafts[f] /\ ~ \E d \in now : d[1] = f
        \/ \E d \in now : /\ d[1] = f
                         /\ WithDrafts(drafts, now)[f] = Append(drafts[f], NewDraft(d[2]))
    BY <1>2, <1>t, Written
  <2>. QED BY <2>1, <1>1
<1>4. FindingsShape'
  <2>1. drafts' \in [Pairs -> Seq(DraftRow)] BY <1>1, <1>2, <1>t, Written
  <2>2. \A f \in Pairs : \A i \in DOMAIN drafts'[f] : drafts'[f][i].proposed <= quarter
    <3>. SUFFICES ASSUME NEW f \in Pairs
                  PROVE  \A i \in DOMAIN drafts'[f] : drafts'[f][i].proposed <= quarter
      OBVIOUS
    <3>1. \A i \in DOMAIN drafts[f] : drafts[f][i].proposed <= quarter BY <1>t DEF FindingsShape
    <3>2. CASE drafts'[f] = drafts[f] BY <3>1, <3>2
    <3>3. ASSUME NEW d \in now, d[1] = f, drafts'[f] = Append(drafts[f], NewDraft(d[2]))
          PROVE  \A i \in DOMAIN drafts'[f] : drafts'[f][i].proposed <= quarter
      <4>1. d[2] \in Actions /\ drafts[f] \in Seq(DraftRow) BY <1>2
      <4>. QED BY <3>1, <3>3, <4>1, <1>t, AppendedProposed
    <3>. QED BY <3>2, <3>3, <1>3
  <2>3. pass' \in [Playbooks -> SUBSET (Pairs \X Actions)] BY <1>1, <1>t DEF FindingsShape
  <2>4. raced' \subseteq Pairs BY <1>1, <1>2, <1>t DEF FindingsShape
  <2>. QED BY <1>1, <1>t, <2>1, <2>2, <2>3, <2>4 DEF FindingsShape
<1>5. ASSUME NEW f \in Pairs \ raced'
      PROVE  Spaced(f, drafts'[f]) /\ (Len(drafts'[f]) > Len(drafts[f]) => Ready(f))
  <2>1. f \notin raced /\ Spaced(f, drafts[f]) BY <1>1 DEF FindingsInv
  <2>2. CASE drafts'[f] = drafts[f]
    <3>1. Len(drafts[f]) \in Nat BY <1>2
    <3>. QED BY <2>1, <2>2, <3>1
  <2>3. ASSUME NEW d \in now, d[1] = f, drafts'[f] = Append(drafts[f], NewDraft(d[2]))
        PROVE  Spaced(f, drafts'[f]) /\ Ready(f)
    <3>1. d[2] = finding[f].action /\ Ready(f) BY <2>1, <2>3, <1>1 DEF FindingsInv
    <3>. QED BY <3>1, <2>1, <2>3, <1>t, DraftKeepsApart
  <2>. QED BY <2>2, <2>3, <1>3
<1>6. ASSUME NEW q \in Playbooks, NEW d \in pass'[q], d[1] \notin raced'
      PROVE  d[2] = finding'[d[1]].action /\ Ready(d[1])'
  <2>1. q # p /\ d \in pass[q] BY <1>1, <1>6, <1>t DEF FindingsShape
  <2>2. d \in Pairs \X Actions /\ d[1] \in Pairs /\ d[1] \notin raced
    BY <2>1, <1>1, <1>6, <1>t DEF FindingsShape
  <2>3. d[2] = finding[d[1]].action /\ Ready(d[1]) BY <2>1, <2>2 DEF FindingsInv
  <2>4. drafts'[d[1]] = drafts[d[1]]
    <3>. SUFFICES ASSUME NEW c \in now, c[1] = d[1] PROVE FALSE BY <2>2, <1>3
    <3>1. c \in Pairs \X Actions /\ c[2] = finding[c[1]].action BY <2>2, <1>1, <1>2 DEF FindingsInv
    <3>2. c = d BY <3>1, <2>2, <2>3
    <3>3. d \in now \cap UNION {pass[r] : r \in Playbooks \ {p}} BY <3>2, <2>1
    <3>. QED BY <3>3, <1>1, <1>6
  <2>. QED BY <2>2, <2>3, <2>4, <1>1, StaysReady
<1>. QED BY <1>4, <1>5, <1>6 DEF FindingsInv

(* Every step keeps the invariant, and one that adds a draft finds its     *)
(* finding ready.                                                          *)
LEMMA NextFindingsInv ==
    FindingsInv /\ [FindingsNext]_findingsVars => FindingsInv' /\ (FindingsNext => DraftStep)
<1>. SUFFICES ASSUME FindingsInv, [FindingsNext]_findingsVars
              PROVE  FindingsInv' /\ (FindingsNext => DraftStep)
  OBVIOUS
<1>t. \A f \in Pairs : Len(drafts[f]) \in Nat BY DEF FindingsInv, FindingsShape
<1>d. (\A f \in Pairs \ raced' : Len(drafts'[f]) > Len(drafts[f]) => Ready(f)) => DraftStep
  BY DEF DraftStep, Ready
<1>s. (\A f \in Pairs : Len(drafts'[f]) = Len(drafts[f])) => DraftStep
  BY <1>t DEF DraftStep
<1>1. CASE QuarterPasses BY <1>1, <1>s, QuarterKeeps DEF QuarterPasses
<1>2. CASE Discover
  <2>1. drafts' = drafts BY <1>2 DEF Discover, Reconcile
  <2>. QED BY <1>2, <2>1, <1>s, DiscoverKeeps
<1>3. ASSUME NEW f \in Pairs, NEW s \in {"acknowledged", "resolved", "suppressed"},
             TriageFinding(f, s)
      PROVE  FindingsInv' /\ DraftStep
  BY <1>3, <1>s, TriageKeeps DEF TriageFinding
<1>4. ASSUME NEW f \in Pairs, NEW o \in Decided, DecideDraft(f, o)
      PROVE  FindingsInv' /\ DraftStep
  <2>1. FindingsInv' BY <1>4, DecideKeeps
  <2>2. ASSUME NEW g \in Pairs PROVE Len(drafts'[g]) = Len(drafts[g])
    <3>1. drafts[g] \in Seq(DraftRow) /\ drafts'[g] \in Seq(DraftRow)
      BY <2>1 DEF FindingsInv, FindingsShape
    <3>2. DOMAIN drafts'[g] = DOMAIN drafts[g]
      BY <1>4 DEF DecideDraft, FindingsInv, FindingsShape
    <3>. QED BY <3>1, <3>2
  <2>. QED BY <2>1, <2>2, <1>s
<1>5. ASSUME NEW p \in Playbooks, RunPlaybooks(p) PROVE FindingsInv' /\ DraftStep
  BY <1>5, <1>d, RunPlaybooksKeeps
<1>6. ASSUME NEW p \in Playbooks, ReadFindings(p) PROVE FindingsInv' /\ DraftStep
  BY <1>6, <1>s, ReadKeeps DEF ReadFindings
<1>7. ASSUME NEW p \in Playbooks, WriteDrafts(p) PROVE FindingsInv' /\ DraftStep
  BY <1>7, <1>d, WriteKeeps
<1>8. ASSUME UNCHANGED findingsVars PROVE FindingsInv' /\ DraftStep
  <2>1. UNCHANGED <<quarter, finding, drafts, pass, since, raced>> BY <1>8 DEF findingsVars
  <2>2. FindingsInv' BY <2>1 DEF FindingsInv, FindingsShape, Ready
  <2>. QED BY <2>1, <2>2, <1>s
<1>. QED BY <1>1, <1>2, <1>3, <1>4, <1>5, <1>6, <1>7, <1>8 DEF FindingsNext

(* The rows keep their types.                                              *)
THEOREM FindingTypes == FindingsSpec => []FindingsTypeOK
<1>1. FindingsInv => FindingsTypeOK BY DEF FindingsInv, FindingsShape, FindingsTypeOK
<1>. QED BY <1>1, InitFindingsInv, NextFindingsInv, PTL DEF FindingsSpec

(* No finding has two proposals waiting, the cooldown lies between a       *)
(* decision and the next draft, and a category that redrafts once does not *)
(* repeat what was carried out: for every number of findings, drafts and   *)
(* playbook passes, unless passes ran over each other or the row changed   *)
(* under one.                                                              *)
THEOREM OneProposalWaits == FindingsSpec => []OneLiveProposal
<1>1. FindingsInv => OneLiveProposal BY DEF FindingsInv, Spaced, OneLiveProposal
<1>. QED BY <1>1, InitFindingsInv, NextFindingsInv, PTL DEF FindingsSpec

(* What is proposed has been wrong for MinAge without a break.             *)
THEOREM DraftsHaveGrounds == FindingsSpec => DraftedOnPurpose
<1>1. FindingsInv /\ [FindingsNext]_findingsVars => [DraftStep]_findingsVars
  BY NextFindingsInv
<1>. QED BY <1>1, InitFindingsInv, NextFindingsInv, PTL DEF FindingsSpec, DraftedOnPurpose
-----------------------------------------------------------------------------
(***************************************************************************)
(* Manifests.  Schema and parser are compared artifact by artifact, for    *)
(* every artifact: whatever fields and values another author gave it.      *)
(***************************************************************************)

(* The fields of a target decide its one shape.                            *)
LEMMA ShapeIsKnown ==
    ASSUME NEW t, NEW shape \in Shapes, Conforms(shape, t)
    PROVE  ShapeOf(t) = shape
<1>1. Required(shape) \subseteq DOMAIN t /\ DOMAIN t \subseteq Required(shape) \cup Optional(shape)
  BY DEF Conforms
<1>2. CASE shape = "guest"
  BY <1>1, <1>2 DEF ShapeOf, Has, Required, Optional
<1>3. CASE shape = "workload"
  BY <1>1, <1>3 DEF ShapeOf, Has, Required, Optional
<1>4. CASE shape = "argocd"
  BY <1>1, <1>4 DEF ShapeOf, Has, Required, Optional
<1>5. CASE shape = "dns"
  BY <1>1, <1>5 DEF ShapeOf, Has, Required, Optional
<1>6. CASE shape = "node"
  BY <1>1, <1>6 DEF ShapeOf, Has, Required, Optional
<1>7. CASE shape = "talos"
  BY <1>1, <1>7 DEF ShapeOf, Has, Required, Optional
<1>8. CASE shape = "k8s"
  BY <1>1, <1>8 DEF ShapeOf, Has, Required, Optional
<1> QED
  BY <1>2, <1>3, <1>4, <1>5, <1>6, <1>7, <1>8 DEF Shapes

LEMMA ShapeIsShape == ASSUME NEW t PROVE ShapeOf(t) \in Shapes
  BY DEF ShapeOf, Shapes

(* What the schema takes, the parser takes, as the same thing.             *)
LEMMA SchemaThenParser ==
    ASSUME NEW shape \in Shapes, NEW a, NEW blast, SchemaTakes(shape, a),
           shape = "k8s" => blast = "cluster"
    PROVE  Parses(a, blast) /\ ShapeOf(a.target) = shape
<1> PICK t : t = a.target
  OBVIOUS
<1>1. ShapeOf(t) = shape
  BY ShapeIsKnown DEF SchemaTakes
<1>2. /\ Required(shape) \subseteq DOMAIN t /\ DOMAIN t \subseteq Required(shape) \cup Optional(shape)
      /\ \A f \in DOMAIN t : t[f] \in Taken(shape, f)
  BY DEF SchemaTakes, Conforms
<1>3. Read(shape, a)
  BY <1>2 DEF SchemaTakes, TargetFits, Read, Is, Has
<1>4. CASE shape = "guest"
  <2>1. GuestFieldsFit(a.kind, t)
    BY <1>4 DEF SchemaTakes, TargetFits
  <2>2. \A f \in DOMAIN t : f \in {"cpu_type", "cores"} => t[f] = "ok"
    BY <1>2, <1>4 DEF Taken, ValuesOf
  <2>3. "memory_mib" \in DOMAIN t => t["memory_mib"] \in {"ok", "low"}
    BY <1>2, <1>4 DEF Taken, ValuesOf
  <2>4. ResizeFits(a.kind, t)
    BY <2>1, <2>2, <2>3 DEF ResizeFits, GuestFieldsFit, Has, Is
  <2>5. a.kind = "cpu-type" => t["vm_kind"] = "qemu" /\ Is(t, "cpu_type", {"ok"})
    BY <2>1, <2>2 DEF GuestFieldsFit, Is, Has
  <2>6. a.kind = "migrate" => Is(t, "target_node", {"ok"})
    BY <2>1 DEF GuestFieldsFit
  <2>7. GuestParses(a)
    BY <1>3, <1>4, <2>4, <2>5, <2>6 DEF GuestParses
  <2> QED
    BY <1>1, <1>4, <2>7 DEF Parses
<1>5. CASE shape = "workload"
  <2>1. a.kind = "workload-scale" => "replicas" \in DOMAIN t
    BY DEF SchemaTakes, TargetFits, Has
  <2>2. "replicas" \in DOMAIN t => t["replicas"] = "ok"
    BY <1>2, <1>5 DEF Taken, ValuesOf
  <2>3. WorkloadParses(a)
    BY <1>3, <1>5, <2>1, <2>2 DEF WorkloadParses, Is, Has
  <2> QED
    BY <1>1, <1>5, <2>3 DEF Parses
<1>6. CASE shape = "argocd"
  BY <1>1, <1>3, <1>6 DEF Parses, ArgocdParses
<1>7. CASE shape = "dns"
  <2>1. \A f \in {"record_type", "ttl"} : f \in DOMAIN t => t[f] = "ok"
    BY <1>2, <1>7 DEF Taken, ValuesOf
  <2>2. DnsParses(a)
    BY <1>3, <1>7, <2>1 DEF DnsParses, Has
  <2> QED
    BY <1>1, <1>7, <2>2 DEF Parses
<1>8. CASE shape \in {"node", "talos", "k8s"}
  <2>1. DOMAIN t = Required(shape)
    BY <1>2, <1>8 DEF Optional
  <2> QED
    BY <1>1, <1>3, <1>8, <2>1 DEF Parses, NodeParses, TalosParses, K8sParses
<1> QED
  BY <1>1, <1>4, <1>5, <1>6, <1>7, <1>8 DEF Shapes

(* A manifest has a field that its kind of action uses, when the target    *)
(* has it and it is as it should be.                                       *)
LEMMA AttributeOf ==
    ASSUME NEW shape, NEW a, NEW f
    PROVE  f \in AttributesOf(shape, a) <=>
             /\ f \in Used(shape, a.kind)
             /\ \/ f \in DOMAIN a.target /\ (a.target[f] # "bad" \/ f = "online")
                \/ shape = "talos" /\ f = "talos_version"
                \/ shape = "k8s" /\ f = "k8s_version"
  BY DEF AttributesOf

(* What the fields of a manifest say of it.                                *)
Gates(shape, kind, fields) ==
    /\ Required(shape) \ {"version"} \subseteq fields
    /\ kind = "migrate" <=> "target_node" \in fields
    /\ kind = "cpu-type" <=> "cpu_type" \in fields
    /\ kind = "workload-scale" <=> "replicas" \in fields
    /\ kind = "resize" <=> fields \cap {"cores", "memory_mib"} # {}

HandledBy(fields) ==
    IF fields \cap {"talos_version", "k8s_version"} # {}
    THEN IF "k8s_version" \in fields THEN "k8s" ELSE "talos"
    ELSE IF "application" \in fields THEN "argocd"
    ELSE IF "hostname" \in fields THEN "dns"
    ELSE IF "name" \in fields THEN "workload"
    ELSE IF "node" \in fields /\ "vmid" \notin fields /\ "talos_version" \notin fields THEN "node"
    ELSE "guest"

(* A required field that the parser read is in the manifest.               *)
LEMMA RequiredIsThere ==
    ASSUME NEW shape \in Shapes, NEW a, Read(shape, a)
    PROVE  /\ Required(shape) \ {"version"} \subseteq AttributesOf(shape, a)
           /\ shape = "talos" => "talos_version" \in AttributesOf(shape, a)
           /\ shape = "k8s" => "k8s_version" \in AttributesOf(shape, a)
<1>1. a.kind \in KindsOf(shape) /\ \A f \in Required(shape) : f \in DOMAIN a.target
  BY DEF Read, Is, Has
<1>2. \A f \in Required(shape) \ {"version"} : a.target[f] \in ValuesOf(f)
  BY DEF Read, Is, Taken
<1>3. \A f : "bad" \notin ValuesOf(f)
  BY DEF ValuesOf
<1>4. \A f \in Required(shape) \ {"version"} : f \in Used(shape, a.kind)
  BY <1>1 DEF Used, Shapes, KindsOf, Required
<1> QED
  BY <1>1, <1>2, <1>3, <1>4, AttributeOf DEF Used

(* A target is handled as the shape its reader took it for.                *)
LEMMA HandledAsRead ==
    ASSUME NEW shape \in Shapes, NEW a, Read(shape, a)
    PROVE  HandledBy(AttributesOf(shape, a)) = shape
<1> PICK fields : fields = AttributesOf(shape, a)
  OBVIOUS
<1>1. /\ Required(shape) \ {"version"} \subseteq fields
      /\ shape = "talos" => "talos_version" \in fields
      /\ shape = "k8s" => "k8s_version" \in fields
      /\ a.kind \in KindsOf(shape)
  BY RequiredIsThere DEF Read
<1>2. fields \subseteq Used(shape, a.kind)
  BY AttributeOf
<1>3. CASE shape = "guest"
  <2>1. "vmid" \in fields
    BY <1>1, <1>3 DEF Required
  <2>2. {"talos_version", "k8s_version", "application", "hostname", "name"} \cap fields = {}
    BY <1>1, <1>2, <1>3 DEF Used, Required, KindsOf
  <2> QED
    BY <1>3, <2>1, <2>2 DEF HandledBy
<1>4. CASE shape = "workload"
  <2>1. "name" \in fields
    BY <1>1, <1>4 DEF Required
  <2>2. {"talos_version", "k8s_version", "application", "hostname"} \cap fields = {}
    BY <1>1, <1>2, <1>4 DEF Used, Required, Optional, KindsOf
  <2> QED
    BY <1>4, <2>1, <2>2 DEF HandledBy
<1>5. CASE shape = "argocd"
  <2>1. "application" \in fields
    BY <1>1, <1>5 DEF Required
  <2>2. {"talos_version", "k8s_version"} \cap fields = {}
    BY <1>1, <1>2, <1>5 DEF Used, Required, Optional, KindsOf
  <2> QED
    BY <1>5, <2>1, <2>2 DEF HandledBy
<1>6. CASE shape = "dns"
  <2>1. "hostname" \in fields
    BY <1>1, <1>6 DEF Required
  <2>2. {"talos_version", "k8s_version", "application"} \cap fields = {}
    BY <1>1, <1>2, <1>6 DEF Used, Required, Optional, KindsOf
  <2> QED
    BY <1>6, <2>1, <2>2 DEF HandledBy
<1>7. CASE shape = "node"
  <2>1. "node" \in fields
    BY <1>1, <1>7 DEF Required
  <2>2. {"talos_version", "k8s_version", "application", "hostname", "name", "vmid"} \cap fields = {}
    BY <1>1, <1>2, <1>7 DEF Used, Required, Optional, KindsOf
  <2> QED
    BY <1>7, <2>1, <2>2 DEF HandledBy
<1>8. CASE shape = "talos"
  <2>1. "k8s_version" \notin fields
    BY <1>1, <1>2, <1>8 DEF Used, KindsOf
  <2> QED
    BY <1>1, <1>8, <2>1 DEF HandledBy
<1>9. CASE shape = "k8s"
  BY <1>1, <1>9 DEF HandledBy
<1> QED
  BY <1>3, <1>4, <1>5, <1>6, <1>7, <1>8, <1>9 DEF Shapes

(* What the parser took carries what its kind of action needs, and nothing *)
(* of another's.                                                           *)
LEMMA ParsedGates ==
    ASSUME NEW a, NEW blast, Parses(a, blast)
    PROVE  /\ Read(ShapeOf(a.target), a)
           /\ ShapeOf(a.target) = "k8s" => blast = "cluster"
           /\ Gates(ShapeOf(a.target), a.kind, AttributesOf(ShapeOf(a.target), a))
<1> PICK t : t = a.target
  OBVIOUS
<1> PICK shape \in Shapes : shape = ShapeOf(t)
  BY ShapeIsShape
<1> PICK fields : fields = AttributesOf(shape, a)
  OBVIOUS
<1>1. CASE shape = "guest"
  <2>1. GuestParses(a) /\ Read(shape, a)
    BY <1>1 DEF Parses, GuestParses
  <2>2. Required(shape) \ {"version"} \subseteq fields /\ a.kind \in KindsOf(shape)
    BY <2>1, RequiredIsThere DEF Read
  <2>3. /\ a.kind = "migrate" => "target_node" \in DOMAIN t /\ t["target_node"] = "ok"
        /\ a.kind = "cpu-type" => "cpu_type" \in DOMAIN t /\ t["cpu_type"] = "ok"
    BY <2>1 DEF GuestParses, Is, Has
  <2>4. a.kind = "resize" =>
           \E f \in {"cores", "memory_mib"} : f \in DOMAIN t /\ t[f] \in {"ok", "low"}
    BY <2>1 DEF GuestParses, ResizeFits
  <2>5. \A f : f \in fields <=> f \in Used(shape, a.kind)
                               /\ f \in DOMAIN t /\ (t[f] # "bad" \/ f = "online")
    BY <1>1, AttributeOf
  <2>6. /\ "target_node" \in Used(shape, a.kind) <=> a.kind = "migrate"
        /\ "cpu_type" \in Used(shape, a.kind) <=> a.kind = "cpu-type"
        /\ "cores" \in Used(shape, a.kind) <=> a.kind = "resize"
        /\ "memory_mib" \in Used(shape, a.kind) <=> a.kind = "resize"
        /\ "replicas" \notin Used(shape, a.kind) /\ a.kind # "workload-scale"
    BY <1>1, <2>2 DEF Used, Required, KindsOf
  <2>7. a.kind = "migrate" <=> "target_node" \in fields
    BY <2>3, <2>5, <2>6
  <2>8. a.kind = "cpu-type" <=> "cpu_type" \in fields
    BY <2>3, <2>5, <2>6
  <2>9. a.kind = "resize" <=> fields \cap {"cores", "memory_mib"} # {}
    BY <2>4, <2>5, <2>6
  <2>10. a.kind = "workload-scale" <=> "replicas" \in fields
    BY <2>5, <2>6
  <2> QED
    BY <1>1, <2>1, <2>2, <2>7, <2>8, <2>9, <2>10 DEF Gates
<1>2. CASE shape = "workload"
  <2>1. WorkloadParses(a) /\ Read(shape, a)
    BY <1>2 DEF Parses, WorkloadParses
  <2>2. Required(shape) \ {"version"} \subseteq fields /\ a.kind \in {"workload-restart", "workload-scale"}
    BY <1>2, <2>1, RequiredIsThere DEF Read, KindsOf
  <2>3. a.kind = "workload-scale" => "replicas" \in DOMAIN t /\ t["replicas"] = "ok"
    BY <2>1 DEF WorkloadParses, Is, Has
  <2>4. \A f : f \in fields <=> f \in Used(shape, a.kind)
                               /\ f \in DOMAIN t /\ (t[f] # "bad" \/ f = "online")
    BY <1>2, AttributeOf
  <2>5. /\ {"target_node", "cpu_type", "cores", "memory_mib"} \cap Used(shape, a.kind) = {}
        /\ "replicas" \in Used(shape, a.kind) <=> a.kind = "workload-scale"
    BY <1>2, <2>2 DEF Used, Required, Optional
  <2> QED
    BY <1>2, <2>1, <2>2, <2>3, <2>4, <2>5 DEF Gates
<1>3. CASE shape \in {"argocd", "dns", "node", "talos", "k8s"}
  <2>1. Read(shape, a) /\ (shape = "k8s" => blast = "cluster")
    BY <1>3 DEF Parses, ArgocdParses, DnsParses, NodeParses, TalosParses, K8sParses
  <2>2. Required(shape) \ {"version"} \subseteq fields /\ a.kind \in KindsOf(shape)
    BY <2>1, RequiredIsThere DEF Read
  <2>3. fields \subseteq Used(shape, a.kind)
    BY AttributeOf
  <2>4. a.kind \notin {"migrate", "cpu-type", "workload-scale", "resize", "workload-restart"}
    BY <1>3, <2>2 DEF KindsOf
  <2>5. {"target_node", "cpu_type", "replicas", "cores", "memory_mib"} \cap Used(shape, a.kind) = {}
    BY <1>3, <2>4 DEF Used, Required, Optional
  <2> QED
    BY <2>1, <2>2, <2>3, <2>4, <2>5 DEF Gates
<1> QED
  BY <1>1, <1>2, <1>3 DEF Shapes

(* The row, once drafted, is parsed once, and its manifest run at most     *)
(* once; an unedited draft is one that the schema took.                    *)
Drafted(r) ==
    /\ SchemaTakes(r.shape, r.artifact) /\ r.shape \in Shapes
    /\ r.shape = "k8s" => r.blast = "cluster"
    /\ r.artifact.kind = "migrate" => "destination" \in r.artifact.hosts

Outcome == IF Parses(row.artifact, row.blast) THEN ManifestOf(row.artifact, row.blast)
           ELSE [refused |-> TRUE]

ManifestInv ==
    /\ said # "raised" /\ edits \in Nat
    /\ row # NoRow /\ edits = 0 => Drafted(row)
    /\ manifest # NoRow => row # NoRow /\ manifest = Outcome
    /\ ran # NoRow => Parsed
    /\ ResolvedIsSent

(* A draft is refused by the schema, or it is one and it parses.           *)
LEMMA PersistDrafts ==
    ASSUME NEW shape \in Shapes, NEW a, NEW blast, shape = "k8s" => blast = "cluster",
           SchemaTakes(shape, a) /\ a.kind = "migrate" => "destination" \in a.hosts,
           said # "raised", Persist(shape, a, blast)
    PROVE  said' # "raised" /\ (row' = row \/ Drafted(row'))
<1>1. CASE ~SchemaTakes(shape, a)
  BY <1>1 DEF Persist
<1>2. CASE SchemaTakes(shape, a)
  <2>1. Parses(a, blast)
    BY <1>2, SchemaThenParser
  <2>2. said' = "drafted" /\ row' = [shape |-> shape, artifact |-> a, blast |-> blast]
    BY <1>2, <2>1 DEF Persist
  <2> QED
    BY <1>2, <2>2 DEF Drafted
<1> QED
  BY <1>1, <1>2

(* Only guests are migrated.                                               *)
LEMMA OnlyGuestsMigrate ==
    ASSUME NEW shape \in Shapes, NEW a, SchemaTakes(shape, a), a.kind = "migrate"
    PROVE  shape = "guest" /\ Is(a.target, "target_node", {"ok"})
<1>1. a.kind \in KindsOf(shape)
  BY DEF SchemaTakes, TargetFits
<1>2. shape = "guest"
  BY <1>1 DEF Shapes, KindsOf
<1> QED
  BY <1>2 DEF SchemaTakes, TargetFits, GuestFieldsFit

LEMMA ProposeDrafts ==
    ASSUME said # "raised", Propose
    PROVE  /\ said' # "raised" /\ (row' = row \/ Drafted(row'))
           /\ row = NoRow /\ UNCHANGED <<edits, manifest, ran>>
<1>1. row = NoRow
  BY DEF Propose
<1>2. ASSUME NEW kind \in Kinds, NEW args, NEW hosts, NEW blast,
             Persist("guest", BuildGuest(kind, args, hosts), blast)
      PROVE  said' # "raised" /\ (row' = row \/ Drafted(row'))
  <2> PICK a : a = BuildGuest(kind, args, hosts)
    OBVIOUS
  <2>1. a.kind = "migrate" /\ Is(a.target, "target_node", {"ok"}) => "destination" \in a.hosts
    BY DEF BuildGuest, ArtifactOf
  <2>2. SchemaTakes("guest", a) /\ a.kind = "migrate" => "destination" \in a.hosts
    BY <2>1, OnlyGuestsMigrate DEF Shapes
  <2> QED
    BY <1>2, <2>2, PersistDrafts DEF Shapes
<1>3. ASSUME NEW shape \in Shapes \ {"guest"}, NEW a, NEW blast, Persist(shape, a, blast),
             shape = "k8s" => blast = "cluster"
      PROVE  said' # "raised" /\ (row' = row \/ Drafted(row'))
  <2>1. SchemaTakes(shape, a) /\ a.kind = "migrate" => "destination" \in a.hosts
    BY OnlyGuestsMigrate
  <2> QED
    BY <1>3, <2>1, PersistDrafts
<1>4. {"workload", "argocd", "dns", "node", "talos", "k8s"} \subseteq Shapes \ {"guest"}
  BY DEF Shapes
<1>5. /\ ProposeAction => said' # "raised" /\ (row' = row \/ Drafted(row'))
      /\ ProposeWorkloadAction => said' # "raised" /\ (row' = row \/ Drafted(row'))
      /\ ProposeArgocdSync => said' # "raised" /\ (row' = row \/ Drafted(row'))
      /\ ProposeDnsRecord => said' # "raised" /\ (row' = row \/ Drafted(row'))
      /\ DraftNodeStep => said' # "raised" /\ (row' = row \/ Drafted(row'))
      /\ ProposeTalosUpgrade => said' # "raised" /\ (row' = row \/ Drafted(row'))
      /\ ProposeK8sUpgrade => said' # "raised" /\ (row' = row \/ Drafted(row'))
  <2>1. ProposeAction => said' # "raised" /\ (row' = row \/ Drafted(row'))
    BY <1>2 DEF ProposeAction
  <2>2. ProposeWorkloadAction => said' # "raised" /\ (row' = row \/ Drafted(row'))
    BY <1>3, <1>4 DEF ProposeWorkloadAction
  <2>3. ProposeArgocdSync => said' # "raised" /\ (row' = row \/ Drafted(row'))
    BY <1>3, <1>4 DEF ProposeArgocdSync
  <2>4. ProposeDnsRecord => said' # "raised" /\ (row' = row \/ Drafted(row'))
    BY <1>3, <1>4 DEF ProposeDnsRecord
  <2>5. DraftNodeStep => said' # "raised" /\ (row' = row \/ Drafted(row'))
    BY <1>3, <1>4 DEF DraftNodeStep
  <2>6. ProposeTalosUpgrade => said' # "raised" /\ (row' = row \/ Drafted(row'))
    BY <1>3, <1>4 DEF ProposeTalosUpgrade
  <2>7. ProposeK8sUpgrade => said' # "raised" /\ (row' = row \/ Drafted(row'))
    BY <1>3, <1>4 DEF ProposeK8sUpgrade
  <2> QED
    BY <2>1, <2>2, <2>3, <2>4, <2>5, <2>6, <2>7
<1>6. UNCHANGED <<edits, manifest, ran>>
  BY DEF Propose, ProposeAction, ProposeWorkloadAction, ProposeArgocdSync, ProposeDnsRecord,
         DraftNodeStep, ProposeTalosUpgrade, ProposeK8sUpgrade, Persist
<1> QED
  BY <1>1, <1>5, <1>6 DEF Propose

LEMMA ManifestStep == ManifestInv /\ [ManifestNext]_manifestVars => ManifestInv'
<1> SUFFICES ASSUME ManifestInv, [ManifestNext]_manifestVars PROVE ManifestInv'
  OBVIOUS
<1>1. CASE Propose
  <2>1. /\ said' # "raised" /\ (row' = row \/ Drafted(row'))
        /\ row = NoRow /\ edits' = edits /\ manifest' = manifest /\ ran' = ran
    BY <1>1, ProposeDrafts DEF ManifestInv
  <2>2. manifest = NoRow /\ ran = NoRow
    BY <2>1 DEF ManifestInv, Parsed
  <2> QED
    BY <2>1, <2>2 DEF ManifestInv, ResolvedIsSent, Parsed
<1>2. CASE Rewrite
  <2>1. manifest = NoRow /\ edits' = edits + 1 /\ UNCHANGED <<said, manifest, ran>>
    BY <1>2 DEF Rewrite
  <2>2. edits' \in Nat /\ edits' # 0 /\ ran = NoRow
    BY <2>1 DEF ManifestInv, Parsed
  <2> QED
    BY <2>1, <2>2 DEF ManifestInv, ResolvedIsSent, Parsed
<1>3. CASE ParseManifest
  <2>1. /\ row # NoRow /\ manifest = NoRow /\ manifest' = Outcome
        /\ UNCHANGED <<said, row, edits, ran>>
    BY <1>3 DEF ParseManifest, Outcome
  <2>2. ran = NoRow
    BY <2>1 DEF ManifestInv, Parsed
  <2> QED
    BY <2>1, <2>2 DEF ManifestInv, Outcome, ResolvedIsSent
<1>4. CASE RunManifest
  <2>1. Parsed /\ UNCHANGED <<said, row, edits, manifest>>
    BY <1>4 DEF RunManifest
  <2>2. PICK surface \in {"cli", "mcp", "listener"}, configured \in SUBSET Configurable :
           /\ "proxmox" \in configured
           /\ surface # "cli" => McpResolves(configured)
           /\ ran' = [surface |-> surface, outcome |-> Dispatch(surface, configured)]
    BY <1>4 DEF RunManifest
  <2>3. surface = "mcp" /\ Handler # "workload" => Dispatch(surface, configured) = "sent"
    <3> SUFFICES ASSUME surface = "mcp", Handler # "workload"
                 PROVE  Needed \in CliAdapters(configured)
      BY DEF Dispatch, AdaptersFor
    <3>1. Handler = "node" => IsNode
      BY DEF Handler
    <3>2. Handler \in {"talos", "k8s"} => UsesTalosctl
      BY DEF Handler
    <3>3. /\ Handler = "argocd" => "argocd" \in configured
          /\ Handler = "dns" => "unifi" \in configured
      BY <2>2 DEF McpResolves
    <3>4. Handler \in {"talos", "k8s", "argocd", "dns", "workload", "node", "guest"}
      BY DEF Handler
    <3> QED
      BY <2>2, <3>1, <3>2, <3>3, <3>4 DEF Needed, CliAdapters
  <2>4. Handler' = Handler
    BY <2>1 DEF Handler, UsesTalosctl, IsNode
  <2>5. ResolvedIsSent'
    BY <2>2, <2>3, <2>4 DEF ResolvedIsSent
  <2> QED
    BY <2>1, <2>5 DEF ManifestInv, Parsed, Outcome
<1>5. CASE UNCHANGED manifestVars
  BY <1>5 DEF manifestVars, ManifestInv, Parsed, Outcome, ResolvedIsSent, Handler, UsesTalosctl, IsNode
<1> QED
  BY <1>1, <1>2, <1>3, <1>4, <1>5 DEF ManifestNext

(* The schema that a proposal is drafted with and the parser that the      *)
(* executor trusts (engine/manifest.py and executor.parse_manifest, written*)
(* apart) agree on every artifact, drafted or edited any number of times;  *)
(* what is dispatched is gated as what it is, and what the MCP trigger     *)
(* resolves is sent.                                                       *)
THEOREM ReadersAgree == ManifestSpec => []ManifestsAgree
<1>1. ManifestInit => ManifestInv
  BY DEF ManifestInit, ManifestInv, ResolvedIsSent
<1>2. ASSUME ManifestInv PROVE ManifestsAgree
  <2>1. ASSUME manifest # NoRow, Parses(row.artifact, row.blast)
        PROVE  LET a == row.artifact
               IN  /\ manifest = ManifestOf(a, row.blast) /\ Parsed
                   /\ Handler = ShapeOf(a.target) /\ manifest.kind = a.kind
                   /\ manifest.domain = a.domain /\ a.domain = DomainOf(Handler, a.target)
    <3> PICK a : a = row.artifact
      OBVIOUS
    <3>1. manifest = ManifestOf(a, row.blast)
      BY <1>2, <2>1 DEF ManifestInv, Outcome
    <3>2. /\ manifest.kind = a.kind /\ manifest.domain = a.domain
          /\ manifest.attributes = AttributesOf(ShapeOf(a.target), a)
          /\ "kind" \in DOMAIN manifest
      BY <3>1 DEF ManifestOf
    <3>3. manifest # [refused |-> TRUE]
      BY <3>2
    <3>4. Read(ShapeOf(a.target), a)
      BY <2>1, ParsedGates
    <3>5. Handler = HandledBy(manifest.attributes)
      BY DEF Handler, HandledBy, UsesTalosctl, IsNode
    <3>6. Handler = ShapeOf(a.target)
      BY <3>2, <3>4, <3>5, HandledAsRead, ShapeIsShape
    <3> QED
      BY <2>1, <3>1, <3>2, <3>3, <3>4, <3>6 DEF Parsed, Read
  <2>2. DraftsRun
    <3> SUFFICES ASSUME row # NoRow, edits = 0, manifest # NoRow
                 PROVE  /\ Parsed /\ Handler = row.shape
                        /\ manifest.domain = DomainOf(row.shape, row.artifact.target)
                        /\ manifest.kind = "migrate" => "destination" \in manifest.hosts
      BY <1>2 DEF DraftsRun, ManifestInv
    <3>1. Drafted(row)
      BY <1>2 DEF ManifestInv
    <3>2. Parses(row.artifact, row.blast) /\ ShapeOf(row.artifact.target) = row.shape
      BY <3>1, SchemaThenParser DEF Drafted
    <3>3. manifest.hosts = row.artifact.hosts
      BY <2>1, <3>2 DEF ManifestOf
    <3> QED
      BY <2>1, <3>1, <3>2, <3>3 DEF Drafted
  <2>3. SchemaImpliesParser
    BY <2>1, SchemaThenParser DEF SchemaImpliesParser
  <2>4. GatedAsDispatched
    <3> SUFFICES ASSUME Parsed
                 PROVE  LET t == row.artifact.target
                        IN  /\ manifest.domain = DomainOf(Handler, t)
                            /\ manifest.kind \in KindsOf(Handler)
                            /\ Handler = "k8s" => manifest.blast = "cluster"
                            /\ Gates(Handler, manifest.kind, manifest.attributes)
      BY DEF GatedAsDispatched, Gates
    <3> PICK a : a = row.artifact
      OBVIOUS
    <3>1. manifest # NoRow /\ Parses(a, row.blast)
      BY <1>2 DEF ManifestInv, Parsed, Outcome
    <3>2. /\ Read(ShapeOf(a.target), a) /\ (ShapeOf(a.target) = "k8s" => row.blast = "cluster")
          /\ Gates(ShapeOf(a.target), a.kind, AttributesOf(ShapeOf(a.target), a))
      BY <3>1, ParsedGates
    <3>3. manifest.blast = row.blast /\ manifest.attributes = AttributesOf(ShapeOf(a.target), a)
      BY <2>1, <3>1 DEF ManifestOf
    <3> QED
      BY <2>1, <3>1, <3>2, <3>3 DEF Read
  <2> QED
    BY <1>2, <2>2, <2>3, <2>4 DEF ManifestsAgree, ManifestInv
<1> QED
  BY <1>1, <1>2, ManifestStep, PTL DEF ManifestSpec
-----------------------------------------------------------------------------
(***************************************************************************)
(* The undo of a receipt: what it can rely on and what it leaves.          *)
(*                                                                         *)
(* A receipt is written once and changed once, by the mark of its undo; an *)
(* undo acts on the copy it loaded.  Where no two undos held a receipt at  *)
(* once and none lost its record, the copy says what the receipt says.     *)
(***************************************************************************)

(* The types, and the bound on the receipts.                               *)
Types == RollbackAssumption /\ RollbackTypeOK /\ Len(receipts) <= MaxReceipts
-----------------------------------------------------------------------------
(* A sequence with one more element.                                       *)
LEMMA AppendAt ==
    ASSUME NEW S, NEW s \in Seq(S), NEW x \in S
    PROVE  /\ Len(s) \in Nat /\ DOMAIN s = 1 .. Len(s)
           /\ Append(s, x) \in Seq(S) /\ Len(Append(s, x)) = Len(s) + 1
           /\ DOMAIN Append(s, x) = 1 .. (Len(s) + 1)
           /\ \A i \in DOMAIN s : Append(s, x)[i] = s[i]
           /\ Append(s, x)[Len(s) + 1] = x
BY AppendProperties

(* The mark changes one receipt, and nothing else of it.                   *)
LEMMA MarkAt ==
    ASSUME NEW rs \in Seq(Receipt), NEW r \in DOMAIN rs
    PROVE  /\ Mark(rs, r) \in Seq(Receipt) /\ Len(Mark(rs, r)) = Len(rs)
           /\ \A i \in DOMAIN rs :
                 Mark(rs, r)[i] = IF i = r THEN [rs[r] EXCEPT !.undone = TRUE] ELSE rs[i]
<1>. DEFINE x == [rs[r] EXCEPT !.undone = TRUE]
<1>1. rs[r] \in Receipt /\ r \in 1 .. Len(rs) /\ DOMAIN rs = 1 .. Len(rs) OBVIOUS
<1>2. x \in Receipt BY <1>1 DEF Receipt
<1>3. Mark(rs, r) = [rs EXCEPT ![r] = x] BY DEF Mark
<1>. HIDE DEF x
<1>4. /\ [rs EXCEPT ![r] = x] \in Seq(Receipt) /\ Len([rs EXCEPT ![r] = x]) = Len(rs)
      /\ \A i \in 1 .. Len(rs) : [rs EXCEPT ![r] = x][i] = IF i = r THEN x ELSE rs[i]
  BY <1>1, <1>2, ExceptSeq
<1>. QED BY <1>1, <1>3, <1>4 DEF x

(* What is carried over when a receipt is marked or copied.                *)
SamePlan(x, y) == /\ x.strategy = y.strategy /\ x.verified = y.verified
                  /\ x.prior = y.prior /\ x.snapshot = y.snapshot
                  /\ x.error = y.error /\ x.was = y.was

(* A run's receipt: what its probe read, and a snapshot of the setting     *)
(* before its dispatch if one was taken.                                   *)
OfRun(x, q) == /\ x.undoes = 0 /\ ~x.undone
               /\ x.strategy = plan[q].strategy
               /\ x.verified = run[q].verified /\ x.prior = run[q].prior
               /\ x.snapshot \in {Nothing, x.was} /\ x.was \in Settings
               /\ x.strategy = "snapshot" /\ x.verified /\ ~x.error => x.snapshot # Nothing

(* A run that is executed leaves one more receipt.                         *)
LEMMA ExecuteReceipt ==
    ASSUME Types, NEW q \in Requests, Execute(q)
    PROVE  /\ \E x \in Receipt : receipts' = Append(receipts, x) /\ OfRun(x, q)
           /\ at' \in Settings /\ spare' \in Settings /\ trust' \in CellRow
           /\ Len(receipts) < MaxReceipts
<1>0. /\ at \in Settings /\ spare \in Settings /\ plan[q] \in Plans /\ run[q] \in RunState
      /\ trust \in CellRow /\ Cell \in Cells /\ Nothing \notin Settings
  BY DEF Types, RollbackTypeOK, RollbackAssumption
<1>1. PICK window \in BOOLEAN, taken \in BOOLEAN,
           ending \in {"succeeded", "failed"}, changed \in BOOLEAN :
         /\ at' = IF changed THEN plan[q].wants ELSE at
         /\ spare' = IF changed /\ ~Guest(q) THEN at ELSE spare
         /\ receipts' = Append(receipts,
               [request |-> q, strategy |-> plan[q].strategy,
                verified |-> run[q].verified, prior |-> run[q].prior,
                snapshot |-> IF taken THEN at ELSE Nothing,
                error |-> SnapshotWanted(q, window) /\ ~taken,
                outcome |-> ending, undoes |-> 0, undone |-> FALSE, was |-> at])
         /\ trust' = IF ending = "succeeded" THEN CleanOutcome(Cell, trust) ELSE BadOutcome
  BY ZenonT(60) DEF Execute
<1>. DEFINE b == SnapshotWanted(q, window) /\ ~taken
            x == [request |-> q, strategy |-> plan[q].strategy,
                  verified |-> run[q].verified, prior |-> run[q].prior,
                  snapshot |-> IF taken THEN at ELSE Nothing, error |-> b,
                  outcome |-> ending, undoes |-> 0, undone |-> FALSE, was |-> at]
<1>2. /\ plan[q].strategy \in Strategy /\ plan[q].wants \in Settings
      /\ run[q].verified \in BOOLEAN /\ run[q].prior \in Prior
  BY <1>0 DEF Plans, RunState
<1>3. b \in BOOLEAN OBVIOUS
<1>8. receipts' = Append(receipts, x) BY <1>1
<1>9. ~b /\ plan[q].strategy = "snapshot" /\ run[q].verified => taken
  BY DEF SnapshotWanted
<1>. HIDE DEF b
<1>4. x \in Receipt BY <1>0, <1>2, <1>3 DEF Receipt, Prior
<1>5. OfRun(x, q) BY <1>0, <1>9 DEF OfRun
<1>6. trust' \in CellRow BY <1>0, <1>1, CleanOutcomeRow, BadOutcomeRow
<1>7. Len(receipts) < MaxReceipts BY DEF Execute
<1>. HIDE DEF x
<1>. QED BY <1>0, <1>1, <1>2, <1>4, <1>5, <1>6, <1>7, <1>8

(* An undo that is recorded marks its receipt and leaves one more.         *)
LEMMA UndoReceipt ==
    ASSUME Types, NEW u \in Undoers, RecordUndo(u)
    PROVE  LET r == undo[u].receipt
               n == Len(receipts) + 1
           IN  /\ r \in DOMAIN receipts /\ n <= MaxReceipts
               /\ receipts' \in Seq(Receipt) /\ DOMAIN receipts' = 1 .. n
               /\ Len(receipts') = n
               /\ \A i \in DOMAIN receipts \ {r} : receipts'[i] = receipts[i]
               /\ receipts'[r].undone /\ receipts'[r].undoes = receipts[r].undoes
               /\ receipts'[n].undoes = r /\ ~receipts'[n].undone
               /\ SamePlan(receipts'[r], receipts[r]) /\ SamePlan(receipts'[n], receipts[r])
<1>. DEFINE r == undo[u].receipt
            x == [receipts[r] EXCEPT !.undoes = r, !.undone = FALSE, !.outcome = "succeeded"]
            m == Mark(receipts, r)
<1>1. /\ r \in DOMAIN receipts /\ Len(receipts) < MaxReceipts
      /\ receipts' = Append(m, x)
  BY DEF RecordUndo, Types, RollbackTypeOK
<1>2. receipts \in Seq(Receipt) /\ receipts[r] \in Receipt /\ r \in Nat
      /\ Len(receipts) \in Nat /\ DOMAIN receipts = 1 .. Len(receipts)
      /\ MaxReceipts \in Nat
  BY <1>1 DEF Types, RollbackTypeOK, RollbackAssumption
<1>3. x \in Receipt /\ x.undoes = r /\ ~x.undone /\ SamePlan(x, receipts[r])
  BY <1>2 DEF Receipt, SamePlan
<1>4. m \in Seq(Receipt) /\ Len(m) = Len(receipts)
      /\ \A i \in DOMAIN receipts :
            m[i] = IF i = r THEN [receipts[r] EXCEPT !.undone = TRUE] ELSE receipts[i]
  BY <1>1, <1>2, MarkAt
<1>. HIDE DEF x, m, r
<1>5. /\ receipts' \in Seq(Receipt) /\ Len(receipts') = Len(receipts) + 1
      /\ DOMAIN receipts' = 1 .. (Len(receipts) + 1)
      /\ \A i \in DOMAIN receipts : receipts'[i] = m[i]
      /\ receipts'[Len(receipts) + 1] = x
  BY <1>1, <1>2, <1>3, <1>4, AppendAt
<1>6. receipts'[r] = [receipts[r] EXCEPT !.undone = TRUE] BY <1>1, <1>4, <1>5
<1>7. /\ receipts'[r].undone /\ receipts'[r].undoes = receipts[r].undoes
      /\ SamePlan(receipts'[r], receipts[r])
  BY <1>2, <1>6 DEF Receipt, SamePlan
<1>. QED BY <1>1, <1>2, <1>3, <1>4, <1>5, <1>7 DEF r
-----------------------------------------------------------------------------
(* One undo moves.                                                         *)
LEMMA UndoMoves ==
    ASSUME Types, NEW u \in Undoers, NEW x, undo' = [undo EXCEPT ![u] = x]
    PROVE  undo'[u] = x /\ \A v \in Undoers \ {u} : undo'[v] = undo[v]
BY DEF Types, RollbackTypeOK

(* An undo at rest.                                                        *)
LEMMA AwayType ==
    Away \in Undo /\ Away.pc = "idle" /\ Away.receipt = NoReceipt
BY DEF Away, Undo

(* What restore() puts back is a setting.                                  *)
LEMMA RestoredSetting ==
    ASSUME Types, NEW r \in Receipt, Restorable(r)
    PROVE  RestoredTo(r) \in Settings
BY DEF Types, RollbackTypeOK, Restorable, RestoredTo, Receipt, Prior, Strategy

(* At the start the types hold, ...                                        *)
LEMMA TypesInit == ASSUME RollbackAssumption, RollbackInit PROVE Types
<1>1. /\ Cell \in Cells /\ MaxReceipts \in Nat BY DEF RollbackAssumption
<1>2. receipts \in Seq(Receipt) /\ Len(receipts) = 0 BY DEF RollbackInit
<1>3. plan \in [Requests -> Plans] /\ at \in Settings /\ spare \in Settings BY DEF RollbackInit
<1>4. run \in [Requests -> RunState] BY DEF RollbackInit, RunState, Prior
<1>5. undo \in [Undoers -> Undo] /\ \A u \in Undoers : undo[u].pc = "idle"
  BY AwayType DEF RollbackInit
<1>6. trust \in CellRow BY <1>1, NewCellRow DEF RollbackInit
<1>7. restored \in [1 .. MaxReceipts -> 0 .. 2] /\ shaky \subseteq Nat BY DEF RollbackInit
<1>. QED BY <1>1, <1>2, <1>3, <1>4, <1>5, <1>6, <1>7 DEF Types, RollbackTypeOK

(* ... and every step keeps them.                                          *)
LEMMA TypesNext == ASSUME Types, [RollbackNext]_rollbackVars PROVE Types'
<1>0. /\ RollbackAssumption /\ RollbackTypeOK /\ Len(receipts) <= MaxReceipts
      /\ Len(receipts) \in Nat /\ MaxReceipts \in Nat
      /\ DOMAIN receipts = 1 .. Len(receipts)
  BY DEF Types, RollbackTypeOK, RollbackAssumption
<1>k. RollbackAssumption' BY <1>0 DEF RollbackAssumption
<1>1. ASSUME NEW q \in Requests, Probe(q) PROVE Types'
  <2>1. PICK v \in BOOLEAN :
           run' = [run EXCEPT ![q] = [pc |-> "probed", verified |-> v,
                                      prior |-> PriorRead(q, v)]]
    BY <1>1 DEF Probe
  <2>2. PriorRead(q, v) \in Prior BY <1>0 DEF PriorRead, Prior, RollbackTypeOK
  <2>3. run' \in [Requests -> RunState] BY <1>0, <2>1, <2>2 DEF RollbackTypeOK, RunState
  <2>. QED BY <1>0, <1>1, <1>k, <2>3 DEF Probe, Types, RollbackTypeOK
<1>2. ASSUME NEW q \in Requests, Execute(q) PROVE Types'
  <2>1. PICK x \in Receipt : receipts' = Append(receipts, x) BY <1>2, ExecuteReceipt
  <2>2. /\ at' \in Settings /\ spare' \in Settings /\ trust' \in CellRow
        /\ Len(receipts) < MaxReceipts
    BY <1>2, ExecuteReceipt
  <2>3. /\ receipts' \in Seq(Receipt) /\ Len(receipts') = Len(receipts) + 1
        /\ DOMAIN receipts \subseteq DOMAIN receipts'
    BY <1>0, <2>1, AppendAt DEF RollbackTypeOK
  <2>4. run' \in [Requests -> RunState]
    BY <1>0, <1>2 DEF Execute, RollbackTypeOK, RunState, Prior
  <2>5. UNCHANGED <<plan, undo, restored, shaky>> BY <1>2 DEF Execute
  <2>. QED BY <1>0, <1>k, <2>2, <2>3, <2>4, <2>5 DEF Types, RollbackTypeOK
<1>3. ASSUME Touch PROVE Types' BY <1>0, <1>3, <1>k DEF Touch, Types, RollbackTypeOK
<1>4. ASSUME NEW u \in Undoers, NEW r \in 1 .. MaxReceipts, Hold(u, r) PROVE Types'
  <2>. DEFINE x == [pc |-> "held", receipt |-> r, outcome |-> receipts[r].outcome,
                    undone |-> receipts[r].undone]
  <2>1. r \in DOMAIN receipts /\ receipts[r] \in Receipt BY <1>0, <1>4 DEF Hold, RollbackTypeOK
  <2>2. x \in Undo /\ x.receipt \in DOMAIN receipts BY <2>1 DEF Undo, Receipt
  <2>3. undo' = [undo EXCEPT ![u] = x] BY <1>4 DEF Hold
  <2>. HIDE DEF x
  <2>4. undo' \in [Undoers -> Undo] BY <1>0, <2>2, <2>3 DEF RollbackTypeOK
  <2>5. shaky' \subseteq Nat BY <1>0, <1>4 DEF Hold, RollbackTypeOK
  <2>6. UNCHANGED <<at, spare, plan, run, receipts, trust, restored>> BY <1>4 DEF Hold
  <2>7. \A v \in Undoers : undo'[v].pc # "idle" => undo'[v].receipt \in DOMAIN receipts
    BY <1>0, <2>2, <2>3 DEF RollbackTypeOK
  <2>. QED BY <1>0, <1>k, <2>4, <2>5, <2>6, <2>7 DEF Types, RollbackTypeOK
<1>5. ASSUME NEW u \in Undoers, GiveUp(u) \/ LoseUndo(u) PROVE Types'
  <2>1. undo' = [undo EXCEPT ![u] = Away] BY <1>5 DEF GiveUp, LoseUndo
  <2>2. /\ undo' \in [Undoers -> Undo]
        /\ \A v \in Undoers : undo'[v].pc # "idle" => undo'[v].receipt \in DOMAIN receipts
    BY <1>0, <2>1, AwayType DEF RollbackTypeOK
  <2>3. shaky' \subseteq Nat
    <3>1. undo[u].pc # "idle" => undo[u].receipt \in Nat BY <1>0 DEF RollbackTypeOK
    <3>. QED BY <1>0, <1>5, <3>1 DEF GiveUp, LoseUndo, RollbackTypeOK
  <2>4. UNCHANGED <<at, spare, plan, run, receipts, trust, restored>>
    BY <1>5 DEF GiveUp, LoseUndo
  <2>. QED BY <1>0, <1>k, <2>2, <2>3, <2>4 DEF Types, RollbackTypeOK
<1>6. ASSUME NEW u \in Undoers, Restore(u) PROVE Types'
  <2>. DEFINE r == undo[u].receipt
  <2>1. /\ r \in DOMAIN receipts /\ receipts[r] \in Receipt /\ Restorable(receipts[r])
        /\ undo[u] \in Undo
    BY <1>0, <1>6 DEF Restore, RollbackTypeOK
  <2>2. at' \in Settings /\ spare' \in Settings
    BY <1>0, <1>6, <2>1, RestoredSetting DEF Restore, Types, RollbackTypeOK
  <2>3. PICK x \in Undo : /\ undo' = [undo EXCEPT ![u] = x]
                          /\ x.pc # "idle" => x.receipt = r
    <3>1. /\ [undo[u] EXCEPT !.pc = "restored"] \in Undo
          /\ [undo[u] EXCEPT !.pc = "restored"].receipt = r
      BY <2>1 DEF Undo
    <3>2. undo[u] = undo[u] /\ undo \in [Undoers -> Undo] BY <1>0 DEF RollbackTypeOK
    <3>. DEFINE y == IF receipts[r].strategy = "prior-image" /\ at' # receipts[r].prior
                     THEN Away ELSE [undo[u] EXCEPT !.pc = "restored"]
    <3>3. undo' = [undo EXCEPT ![u] = y] BY <1>6, <3>2 DEF Restore
    <3>4. y \in Undo /\ (y.pc # "idle" => y.receipt = r) BY <3>1, AwayType
    <3>. HIDE DEF y
    <3>. QED BY <3>3, <3>4
  <2>4. /\ undo' \in [Undoers -> Undo]
        /\ \A v \in Undoers : undo'[v].pc # "idle" => undo'[v].receipt \in DOMAIN receipts
    BY <1>0, <2>1, <2>3 DEF RollbackTypeOK
  <2>5. restored' \in [1 .. MaxReceipts -> 0 .. 2]
    <3>1. restored' = [restored EXCEPT ![r] = Clamp(@ + 1, 2)] BY <1>6 DEF Restore
    <3>2. r \in 1 .. MaxReceipts /\ restored[r] \in 0 .. 2 BY <1>0, <2>1 DEF RollbackTypeOK
    <3>3. Clamp(restored[r] + 1, 2) \in 0 .. 2 BY <3>2 DEF Clamp
    <3>. QED BY <1>0, <3>1, <3>3 DEF RollbackTypeOK
  <2>6. shaky' \subseteq Nat BY <1>0, <1>6, <2>1 DEF Restore, RollbackTypeOK
  <2>7. UNCHANGED <<plan, run, receipts, trust>> BY <1>6 DEF Restore
  <2>. QED BY <1>0, <1>k, <2>2, <2>4, <2>5, <2>6, <2>7 DEF Types, RollbackTypeOK
<1>7. ASSUME NEW u \in Undoers, RecordUndo(u) PROVE Types'
  <2>1. /\ receipts' \in Seq(Receipt) /\ Len(receipts') <= MaxReceipts
        /\ DOMAIN receipts \subseteq DOMAIN receipts'
    BY <1>0, <1>7, UndoReceipt
  <2>2. undo' = [undo EXCEPT ![u] = Away] BY <1>7 DEF RecordUndo
  <2>3. /\ undo' \in [Undoers -> Undo]
        /\ \A v \in Undoers : undo'[v].pc # "idle" => undo'[v].receipt \in DOMAIN receipts'
    BY <1>0, <2>1, <2>2, AwayType DEF RollbackTypeOK
  <2>4. UNCHANGED <<at, spare, plan, run, trust, restored, shaky>> BY <1>7 DEF RecordUndo
  <2>. QED BY <1>0, <1>k, <2>1, <2>3, <2>4 DEF Types, RollbackTypeOK
<1>8. ASSUME UNCHANGED rollbackVars PROVE Types'
  BY <1>0, <1>8, <1>k DEF rollbackVars, Types, RollbackTypeOK
<1>. QED BY <1>1, <1>2, <1>3, <1>4, <1>5, <1>6, <1>7, <1>8 DEF RollbackNext, UndoStep

(* They hold in every state.                                               *)
LEMMA SpecTypes == ASSUME RollbackAssumption PROVE RollbackSpec => []Types
<1>1. RollbackInit => Types BY TypesInit
<1>2. Types /\ [RollbackNext]_rollbackVars => Types' BY TypesNext
<1>. QED BY <1>1, <1>2, PTL DEF RollbackSpec

(* Types, for any number of requests, undos and receipts.                  *)
THEOREM RollbackTypes == ASSUME RollbackAssumption PROVE RollbackSpec => []RollbackTypeOK
<1>1. Types => RollbackTypeOK BY DEF Types
<1>. QED BY <1>1, SpecTypes, PTL
-----------------------------------------------------------------------------
(* What a verified probe has read, and what the receipts hold of it: the   *)
(* snapshot of a run's receipt, if any, is of the setting before it.       *)
Captured ==
    /\ \A q \in Requests : run[q].pc = "probed" /\ run[q].verified =>
          /\ plan[q].strategy # "no-inverse"
          /\ plan[q].strategy # "snapshot" => run[q].prior \in Settings
    /\ AvailableMeansRestorable
    /\ \A n \in DOMAIN receipts :
          receipts[n].undoes = 0 => receipts[n].snapshot \in {Nothing, receipts[n].was}

(* A receipt that is only marked or copied can be restored as before.      *)
LEMMA SamePlanRestorable ==
    ASSUME NEW x, NEW y, SamePlan(x, y), y.verified /\ ~y.error => Restorable(y)
    PROVE  x.verified /\ ~x.error => Restorable(x)
BY DEF SamePlan, Restorable

(* A capture stays what it was.                                            *)
LEMMA CapturedNext ==
    ASSUME Types, Captured, [RollbackNext]_rollbackVars
    PROVE  Captured'
<1>0. /\ receipts \in Seq(Receipt) /\ run \in [Requests -> RunState] /\ at \in Settings
      /\ Nothing \notin Settings
  BY DEF Types, RollbackTypeOK, RollbackAssumption
<1>1. ASSUME NEW q \in Requests, Probe(q) PROVE Captured'
  <2>1. PICK v \in BOOLEAN :
           /\ v => Verifiable(q)
           /\ run' = [run EXCEPT ![q] = [pc |-> "probed", verified |-> v,
                                         prior |-> PriorRead(q, v)]]
    BY <1>1 DEF Probe
  <2>2. UNCHANGED <<plan, receipts>> BY <1>1 DEF Probe
  <2>3. ASSUME NEW p \in Requests, run'[p].pc = "probed" /\ run'[p].verified
        PROVE  /\ plan[p].strategy # "no-inverse"
               /\ plan[p].strategy # "snapshot" => run'[p].prior \in Settings
    <3>1. CASE p = q
      <4>1. v /\ run'[q].prior = PriorRead(q, v) BY <1>0, <2>1, <2>3, <3>1
      <4>. QED BY <1>0, <2>1, <3>1, <4>1 DEF Verifiable, PriorRead
    <3>2. CASE p # q
      <4>1. run'[p] = run[p] BY <1>0, <2>1, <3>2
      <4>. QED BY <2>3, <4>1 DEF Captured
    <3>. QED BY <3>1, <3>2
  <2>. QED BY <2>2, <2>3 DEF Captured, AvailableMeansRestorable, Restorable
<1>2. ASSUME NEW q \in Requests, Execute(q) PROVE Captured'
  <2>1. PICK x \in Receipt : receipts' = Append(receipts, x) /\ OfRun(x, q)
    BY <1>2, ExecuteReceipt
  <2>2. /\ DOMAIN receipts' = 1 .. (Len(receipts) + 1)
        /\ DOMAIN receipts = 1 .. Len(receipts) /\ Len(receipts) \in Nat
        /\ \A i \in DOMAIN receipts : receipts'[i] = receipts[i]
        /\ receipts'[Len(receipts) + 1] = x
    BY <1>0, <2>1, AppendAt
  <2>3. /\ run' = [run EXCEPT ![q] = [pc |-> "done", verified |-> FALSE, prior |-> Nothing]]
        /\ run[q].pc = "probed" /\ UNCHANGED plan
    BY <1>2 DEF Execute
  <2>4. ASSUME NEW p \in Requests, run'[p].pc = "probed"
        PROVE  run'[p] = run[p]
    BY <1>0, <2>3, <2>4
  <2>5. x.verified /\ ~x.error => Restorable(x)
    BY <1>0, <2>1, <2>3 DEF Captured, OfRun, Restorable
  <2>6. AvailableMeansRestorable'
    <3>. SUFFICES ASSUME NEW n \in DOMAIN receipts', receipts'[n].verified,
                         ~receipts'[n].error
                  PROVE  Restorable(receipts'[n])
      BY DEF AvailableMeansRestorable, Restorable
    <3>1. CASE n \in DOMAIN receipts
      BY <2>2, <3>1 DEF Captured, AvailableMeansRestorable
    <3>2. CASE n = Len(receipts) + 1 BY <2>2, <2>5, <3>2
    <3>. QED BY <2>2, <3>1, <3>2
  <2>7. \A n \in DOMAIN receipts' :
          receipts'[n].undoes = 0 => receipts'[n].snapshot \in {Nothing, receipts'[n].was}
    <3>. SUFFICES ASSUME NEW n \in DOMAIN receipts', receipts'[n].undoes = 0
                  PROVE  receipts'[n].snapshot \in {Nothing, receipts'[n].was}
      OBVIOUS
    <3>1. CASE n \in DOMAIN receipts BY <2>2, <3>1 DEF Captured
    <3>2. CASE n = Len(receipts) + 1 BY <2>1, <2>2, <3>2 DEF OfRun
    <3>. QED BY <2>2, <3>1, <3>2
  <2>. QED BY <2>3, <2>4, <2>6, <2>7 DEF Captured
<1>3. ASSUME NEW u \in Undoers, RecordUndo(u) PROVE Captured'
  <2>. DEFINE r == undo[u].receipt
              n == Len(receipts) + 1
  <2>1. /\ r \in DOMAIN receipts /\ DOMAIN receipts' = 1 .. n
        /\ \A i \in DOMAIN receipts \ {r} : receipts'[i] = receipts[i]
        /\ receipts'[r].undoes = receipts[r].undoes /\ receipts'[n].undoes = r
        /\ SamePlan(receipts'[r], receipts[r]) /\ SamePlan(receipts'[n], receipts[r])
    BY <1>3, UndoReceipt
  <2>2. DOMAIN receipts = 1 .. Len(receipts) /\ Len(receipts) \in Nat BY <1>0
  <2>3. UNCHANGED <<plan, run>> BY <1>3 DEF RecordUndo
  <2>4. r # 0 BY <2>1, <2>2
  <2>5. \A i \in DOMAIN receipts' : i \in DOMAIN receipts \ {r} \/ i = r \/ i = n
    BY <2>1, <2>2
  <2>. HIDE DEF r, n
  <2>6. ASSUME NEW i \in DOMAIN receipts', receipts'[i].verified, ~receipts'[i].error
        PROVE  Restorable(receipts'[i])
    <3>1. CASE i \in DOMAIN receipts \ {r}
      BY <2>1, <2>6, <3>1 DEF Captured, AvailableMeansRestorable
    <3>2. CASE i = r \/ i = n
      <4>1. SamePlan(receipts'[i], receipts[r]) BY <2>1, <3>2
      <4>2. receipts[r].verified /\ ~receipts[r].error => Restorable(receipts[r])
        BY <2>1 DEF Captured, AvailableMeansRestorable
      <4>. QED BY <2>6, <4>1, <4>2, SamePlanRestorable
    <3>. QED BY <2>5, <3>1, <3>2
  <2>7. ASSUME NEW i \in DOMAIN receipts', receipts'[i].undoes = 0
        PROVE  receipts'[i].snapshot \in {Nothing, receipts'[i].was}
    <3>1. CASE i \in DOMAIN receipts \ {r} BY <2>1, <2>7, <3>1 DEF Captured
    <3>2. CASE i = r BY <2>1, <2>7, <3>2 DEF Captured, SamePlan
    <3>3. CASE i = n BY <2>1, <2>4, <2>7, <3>3
    <3>. QED BY <2>5, <3>1, <3>2, <3>3
  <2>. QED BY <2>3, <2>6, <2>7 DEF Captured, AvailableMeansRestorable, Restorable
<1>4. ASSUME UNCHANGED <<run, plan, receipts>> PROVE Captured'
  BY <1>4 DEF Captured, AvailableMeansRestorable, Restorable
<1>5. ASSUME NEW u \in Undoers, NEW r, Hold(u, r) PROVE Captured' BY <1>4, <1>5 DEF Hold
<1>6. ASSUME NEW u \in Undoers, GiveUp(u) \/ Restore(u) \/ LoseUndo(u) PROVE Captured'
  BY <1>4, <1>6 DEF GiveUp, Restore, LoseUndo
<1>7. ASSUME Touch \/ UNCHANGED rollbackVars PROVE Captured'
  BY <1>4, <1>7 DEF Touch, rollbackVars
<1>. QED BY <1>1, <1>2, <1>3, <1>5, <1>6, <1>7 DEF RollbackNext, UndoStep

(* In every state.                                                         *)
LEMMA SpecCaptured == ASSUME RollbackAssumption PROVE RollbackSpec => [](Types /\ Captured)
<1>1. RollbackInit => Captured BY DEF RollbackInit, Captured, AvailableMeansRestorable
<1>. QED BY <1>1, SpecTypes, CapturedNext, PTL DEF RollbackSpec

(* What the operator is told can be rolled back can be: the receipt holds  *)
(* what restore() needs.                                                   *)
THEOREM AvailableRestores ==
    ASSUME RollbackAssumption PROVE RollbackSpec => []AvailableMeansRestorable
<1>1. Captured => AvailableMeansRestorable BY DEF Captured
<1>. QED BY <1>1, SpecCaptured, PTL
-----------------------------------------------------------------------------
(* A receipt says rolled back exactly when an undo of it exists, and only  *)
(* of an earlier receipt is there an undo.                                 *)
Marks == /\ MarkedByItsUndo
         /\ \A n \in DOMAIN receipts : receipts[n].undoes < n

(* The mark and the undo's receipt come together.                          *)
LEMMA MarksNext ==
    ASSUME Types, Marks, [RollbackNext]_rollbackVars
    PROVE  Marks'
<1>0. /\ receipts \in Seq(Receipt) /\ Len(receipts) \in Nat
      /\ DOMAIN receipts = 1 .. Len(receipts)
      /\ \A n \in DOMAIN receipts : receipts[n].undoes \in Nat
  <2>1. receipts \in Seq(Receipt) BY DEF Types, RollbackTypeOK
  <2>2. Len(receipts) \in Nat /\ DOMAIN receipts = 1 .. Len(receipts)
    BY <2>1, LenProperties
  <2>3. ASSUME NEW n \in DOMAIN receipts PROVE receipts[n].undoes \in Nat
    <3>1. receipts[n] \in Receipt BY <2>1, <2>2, ElementOfSeq
    <3>. QED BY <3>1 DEF Receipt
  <2>. QED BY <2>1, <2>2, <2>3
<1>1. ASSUME NEW q \in Requests, Execute(q) PROVE Marks'
  <2>. DEFINE n == Len(receipts) + 1
  <2>1. PICK x \in Receipt : receipts' = Append(receipts, x) /\ OfRun(x, q)
    BY <1>1, ExecuteReceipt
  <2>2. /\ DOMAIN receipts' = 1 .. n
        /\ \A i \in DOMAIN receipts : receipts'[i] = receipts[i]
        /\ receipts'[n] = x
    BY <1>0, <2>1, AppendAt
  <2>3. x.undoes = 0 /\ ~x.undone BY <2>1 DEF OfRun
  <2>4. \A i \in DOMAIN receipts' : receipts'[i].undoes < i
    BY <1>0, <2>2, <2>3 DEF Marks
  <2>5. ASSUME NEW r \in DOMAIN receipts'
        PROVE  receipts'[r].undone <=> \E i \in DOMAIN receipts' : receipts'[i].undoes = r
    <3>1. CASE r \in DOMAIN receipts
      <4>1. receipts[r].undone <=> \E i \in DOMAIN receipts : receipts[i].undoes = r
        BY <3>1 DEF Marks, MarkedByItsUndo
      <4>2. r # 0 BY <1>0, <3>1
      <4>. QED BY <1>0, <2>2, <2>3, <3>1, <4>1, <4>2
    <3>2. CASE r = n
      <4>1. \A i \in DOMAIN receipts' : receipts'[i].undoes # n
        BY <1>0, <2>2, <2>3 DEF Marks
      <4>. QED BY <2>2, <2>3, <3>2, <4>1
    <3>. QED BY <1>0, <2>2, <3>1, <3>2
  <2>. QED BY <2>4, <2>5 DEF Marks, MarkedByItsUndo
<1>2. ASSUME NEW u \in Undoers, RecordUndo(u) PROVE Marks'
  <2>. DEFINE r == undo[u].receipt
              n == Len(receipts) + 1
  <2>1. /\ r \in DOMAIN receipts /\ DOMAIN receipts' = 1 .. n
        /\ \A i \in DOMAIN receipts \ {r} : receipts'[i] = receipts[i]
        /\ receipts'[r].undone /\ receipts'[r].undoes = receipts[r].undoes
        /\ receipts'[n].undoes = r /\ ~receipts'[n].undone
    BY <1>2, UndoReceipt
  <2>. HIDE DEF r
  <2>2. \A i \in DOMAIN receipts : receipts'[i].undoes = receipts[i].undoes BY <2>1
  <2>3. \A i \in DOMAIN receipts' : receipts'[i].undoes < i
    BY <1>0, <2>1, <2>2 DEF Marks
  <2>4. ASSUME NEW k \in DOMAIN receipts'
        PROVE  receipts'[k].undone <=> \E i \in DOMAIN receipts' : receipts'[i].undoes = k
    <3>1. CASE k = r BY <1>0, <2>1, <3>1
    <3>2. CASE k \in DOMAIN receipts \ {r}
      <4>1. receipts[k].undone <=> \E i \in DOMAIN receipts : receipts[i].undoes = k
        BY <3>2 DEF Marks, MarkedByItsUndo
      <4>2. k # r /\ receipts'[k].undone = receipts[k].undone BY <2>1, <3>2
      <4>3. ASSUME NEW i \in DOMAIN receipts', receipts'[i].undoes = k
            PROVE  receipts[k].undone
        <5>1. i # n BY <2>1, <4>2, <4>3
        <5>2. i \in DOMAIN receipts BY <1>0, <2>1, <5>1
        <5>. QED BY <2>2, <4>1, <4>3, <5>2
      <4>4. ASSUME NEW i \in DOMAIN receipts, receipts[i].undoes = k
            PROVE  i \in DOMAIN receipts' /\ receipts'[i].undoes = k
        BY <1>0, <2>1, <2>2, <4>4
      <4>. QED BY <4>1, <4>2, <4>3, <4>4
    <3>3. CASE k = n
      <4>1. \A i \in DOMAIN receipts' : receipts'[i].undoes # n
        BY <1>0, <2>1, <2>2 DEF Marks
      <4>. QED BY <2>1, <3>3, <4>1
    <3>. QED BY <1>0, <2>1, <3>1, <3>2, <3>3
  <2>. QED BY <2>3, <2>4 DEF Marks, MarkedByItsUndo
<1>3. ASSUME UNCHANGED receipts PROVE Marks' BY <1>3 DEF Marks, MarkedByItsUndo
<1>4. ASSUME NEW q \in Requests, Probe(q) PROVE Marks' BY <1>3, <1>4 DEF Probe
<1>5. ASSUME NEW u \in Undoers, NEW r, Hold(u, r) PROVE Marks' BY <1>3, <1>5 DEF Hold
<1>6. ASSUME NEW u \in Undoers, GiveUp(u) \/ Restore(u) \/ LoseUndo(u) PROVE Marks'
  BY <1>3, <1>6 DEF GiveUp, Restore, LoseUndo
<1>7. ASSUME Touch \/ UNCHANGED rollbackVars PROVE Marks' BY <1>3, <1>7 DEF Touch, rollbackVars
<1>. QED BY <1>1, <1>2, <1>4, <1>5, <1>6, <1>7 DEF RollbackNext, UndoStep

(* The mark on a receipt is its undo's, however undos interleave and die.  *)
THEOREM MarkedAlways == ASSUME RollbackAssumption PROVE RollbackSpec => []MarkedByItsUndo
<1>1. RollbackInit => Marks BY DEF RollbackInit, Marks, MarkedByItsUndo
<1>2. Marks => MarkedByItsUndo BY DEF Marks
<1>. QED BY <1>1, <1>2, SpecTypes, MarksNext, PTL DEF RollbackSpec
-----------------------------------------------------------------------------
(* Where nothing is shaky: one undo holds a receipt, its copy is current,  *)
(* and a receipt restored from is marked, or in the hands of the undo that *)
(* is about to mark it.                                                    *)
Sole ==
    /\ \A u, v \in Undoers : \A r \in DOMAIN receipts :
          u # v /\ undo[u].receipt = r /\ undo[v].receipt = r => r \in shaky
    /\ \A u \in Undoers : undo[u].pc = "idle" => undo[u].receipt = NoReceipt
    /\ \A u \in Undoers :
          LET r == undo[u].receipt
          IN  undo[u].pc = "held" /\ r \notin shaky => undo[u].undone = receipts[r].undone

Spent ==
    /\ \A r \in DOMAIN receipts \ shaky :
          restored[r] = 0 \/ /\ restored[r] = 1
                             /\ \/ receipts[r].undone
                                \/ \E u \in Undoers : /\ undo[u].pc = "restored"
                                                      /\ undo[u].receipt = r
    /\ \A r \in DOMAIN restored \ DOMAIN receipts : restored[r] = 0

OnceInv == Sole /\ Spent

(* A run leaves every undo, and every receipt, as it was.                  *)
LEMMA ExecuteOnce ==
    ASSUME Types, OnceInv, NEW q \in Requests, Execute(q)
    PROVE  OnceInv'
<1>0. /\ receipts \in Seq(Receipt) /\ Len(receipts) \in Nat
      /\ DOMAIN receipts = 1 .. Len(receipts) /\ NoReceipt \notin Nat
      /\ \A u \in Undoers : undo[u].pc # "idle" => undo[u].receipt \in DOMAIN receipts
  BY DEF Types, RollbackTypeOK, RollbackAssumption
<1>. DEFINE n == Len(receipts) + 1
<1>1. PICK x \in Receipt : receipts' = Append(receipts, x) BY ExecuteReceipt
<1>2. /\ DOMAIN receipts' = 1 .. n
      /\ \A i \in DOMAIN receipts : receipts'[i] = receipts[i]
  BY <1>0, <1>1, AppendAt
<1>3. UNCHANGED <<undo, restored, shaky>> BY DEF Execute
<1>4. \A u \in Undoers : undo[u].receipt \in DOMAIN receipts \/ undo[u].receipt = NoReceipt
  BY <1>0 DEF OnceInv, Sole
<1>5. Sole'
  <2>1. \A u, v \in Undoers : \A r \in DOMAIN receipts' :
           u # v /\ undo'[u].receipt = r /\ undo'[v].receipt = r => r \in shaky'
    BY <1>0, <1>2, <1>3, <1>4 DEF OnceInv, Sole
  <2>2. \A u \in Undoers : undo'[u].pc = "idle" => undo'[u].receipt = NoReceipt
    BY <1>3 DEF OnceInv, Sole
  <2>3. ASSUME NEW u \in Undoers, undo'[u].pc = "held", undo'[u].receipt \notin shaky'
        PROVE  undo'[u].undone = receipts'[undo'[u].receipt].undone
    BY <1>0, <1>2, <1>3, <2>3 DEF OnceInv, Sole
  <2>. QED BY <2>1, <2>2, <2>3 DEF Sole
<1>6. Spent'
  <2>1. n \in DOMAIN restored /\ n \notin DOMAIN receipts
    BY <1>0, ExecuteReceipt DEF Types, RollbackTypeOK, RollbackAssumption
  <2>2. restored'[n] = 0 BY <1>3, <2>1 DEF OnceInv, Spent
  <2>3. \A r \in DOMAIN receipts' : r \in DOMAIN receipts \/ r = n BY <1>0, <1>2
  <2>. QED BY <1>2, <1>3, <2>2, <2>3 DEF OnceInv, Spent
<1>. QED BY <1>5, <1>6 DEF OnceInv

(* An undo takes a receipt into its hands.                                 *)
LEMMA HoldOnce ==
    ASSUME Types, OnceInv, NEW u \in Undoers, NEW r \in 1 .. MaxReceipts, Hold(u, r)
    PROVE  OnceInv'
<1>. DEFINE x == [pc |-> "held", receipt |-> r, outcome |-> receipts[r].outcome,
                  undone |-> receipts[r].undone]
<1>1. /\ r \in DOMAIN receipts /\ undo[u].pc = "idle"
      /\ undo' = [undo EXCEPT ![u] = x]
      /\ shaky' = IF \E v \in Undoers \ {u} : undo[v].receipt = r
                  THEN shaky \cup {r} ELSE shaky
      /\ UNCHANGED <<receipts, restored>>
  BY DEF Hold
<1>2. x.pc = "held" /\ x.receipt = r /\ x.undone = receipts[r].undone OBVIOUS
<1>. HIDE DEF x
<1>3. undo'[u] = x /\ \A v \in Undoers \ {u} : undo'[v] = undo[v] BY <1>1, UndoMoves
<1>4. shaky \subseteq shaky' BY <1>1
<1>5. Sole'
  <2>1. ASSUME NEW v \in Undoers, NEW w \in Undoers, NEW k \in DOMAIN receipts,
               v # w, undo'[v].receipt = k, undo'[w].receipt = k
        PROVE  k \in shaky'
    <3>1. CASE v # u /\ w # u BY <1>3, <1>4, <2>1, <3>1 DEF OnceInv, Sole
    <3>2. CASE v = u \/ w = u
      <4>1. k = r /\ \E y \in Undoers \ {u} : undo[y].receipt = r
        BY <1>2, <1>3, <2>1, <3>2
      <4>. QED BY <1>1, <4>1
    <3>. QED BY <3>1, <3>2
  <2>2. \A v \in Undoers : undo'[v].pc = "idle" => undo'[v].receipt = NoReceipt
    BY <1>2, <1>3 DEF OnceInv, Sole
  <2>3. ASSUME NEW v \in Undoers, undo'[v].pc = "held", undo'[v].receipt \notin shaky'
        PROVE  undo'[v].undone = receipts[undo'[v].receipt].undone
    <3>1. CASE v = u BY <1>2, <1>3, <3>1
    <3>2. CASE v # u BY <1>3, <1>4, <2>3, <3>2 DEF OnceInv, Sole
    <3>. QED BY <3>1, <3>2
  <2>. QED BY <1>1, <2>1, <2>2, <2>3 DEF Sole
<1>6. Spent'
  <2>1. ASSUME NEW v \in Undoers, undo[v].pc = "restored"
        PROVE  undo'[v] = undo[v]
    BY <1>1, <1>3, <2>1
  <2>. QED BY <1>1, <1>4, <2>1 DEF OnceInv, Spent
<1>. QED BY <1>5, <1>6 DEF OnceInv

(* An undo that lets its receipt go, restored or not.                      *)
LEMMA LetGoOnce ==
    ASSUME Types, OnceInv, NEW u \in Undoers, GiveUp(u) \/ LoseUndo(u)
    PROVE  OnceInv'
<1>1. /\ undo' = [undo EXCEPT ![u] = Away] /\ UNCHANGED <<receipts, restored>>
      /\ undo[u].pc \in {"held", "restored"}
      /\ undo[u].pc = "restored" => shaky' = shaky \cup {undo[u].receipt}
      /\ undo[u].pc = "held" => shaky' = shaky
  BY DEF GiveUp, LoseUndo
<1>2. undo'[u] = Away /\ \A v \in Undoers \ {u} : undo'[v] = undo[v] BY <1>1, UndoMoves
<1>3. shaky \subseteq shaky' BY <1>1
<1>4. /\ NoReceipt \notin DOMAIN receipts BY DEF Types, RollbackTypeOK, RollbackAssumption
<1>5. Sole'
  <2>1. \A v, w \in Undoers : \A k \in DOMAIN receipts :
           v # w /\ undo'[v].receipt = k /\ undo'[w].receipt = k => k \in shaky'
    BY <1>2, <1>3, <1>4, AwayType DEF OnceInv, Sole
  <2>2. \A v \in Undoers : undo'[v].pc = "idle" => undo'[v].receipt = NoReceipt
    BY <1>2, AwayType DEF OnceInv, Sole
  <2>3. \A v \in Undoers : undo'[v].pc = "held" /\ undo'[v].receipt \notin shaky'
           => undo'[v].undone = receipts[undo'[v].receipt].undone
    BY <1>2, <1>3, AwayType DEF OnceInv, Sole
  <2>. QED BY <1>1, <2>1, <2>2, <2>3 DEF Sole
<1>6. Spent'
  <2>1. ASSUME NEW v \in Undoers, undo[v].pc = "restored", undo[v].receipt \notin shaky'
        PROVE  undo'[v] = undo[v]
    BY <1>1, <1>2, <2>1
  <2>. QED BY <1>1, <1>3, <2>1 DEF OnceInv, Spent
<1>. QED BY <1>5, <1>6 DEF OnceInv

(* A restore: where nothing is shaky, it is the receipt's first.           *)
LEMMA RestoreOnce ==
    ASSUME Types, OnceInv, NEW u \in Undoers, Restore(u)
    PROVE  OnceInv'
<1>. DEFINE r == undo[u].receipt
<1>0. /\ r \in DOMAIN receipts /\ r \in DOMAIN restored
      /\ restored \in [1 .. MaxReceipts -> 0 .. 2] /\ undo \in [Undoers -> Undo]
      /\ undo[u] \in Undo /\ NoReceipt \notin DOMAIN receipts
  BY DEF Restore, Types, RollbackTypeOK, RollbackAssumption
<1>1. /\ undo[u].pc = "held" /\ ~undo[u].undone /\ UNCHANGED receipts
      /\ restored' = [restored EXCEPT ![r] = Clamp(@ + 1, 2)]
      /\ shaky' = IF undo'[u] = Away THEN shaky \cup {r} ELSE shaky
  BY DEF Restore, MayUndo
<1>2. PICK x : undo' = [undo EXCEPT ![u] = x]
               /\ (x = Away \/ (x.pc = "restored" /\ x.receipt = r))
  <2>1. [undo[u] EXCEPT !.pc = "restored"].pc = "restored"
        /\ [undo[u] EXCEPT !.pc = "restored"].receipt = r
    BY <1>0 DEF Undo
  <2>. DEFINE y == IF receipts[r].strategy = "prior-image" /\ at' # receipts[r].prior
                   THEN Away ELSE [undo[u] EXCEPT !.pc = "restored"]
  <2>2. undo' = [undo EXCEPT ![u] = y] BY <1>0 DEF Restore
  <2>3. y = Away \/ (y.pc = "restored" /\ y.receipt = r) BY <2>1
  <2>. HIDE DEF y
  <2>. QED BY <2>2, <2>3
<1>3. undo'[u] = x /\ \A v \in Undoers \ {u} : undo'[v] = undo[v] BY <1>2, UndoMoves
<1>4. shaky \subseteq shaky' /\ (x = Away => r \in shaky') BY <1>1, <1>3
<1>. HIDE DEF r
<1>5. x.receipt = r \/ x.receipt = NoReceipt BY <1>2, AwayType
<1>6. Sole'
  <2>1. ASSUME NEW v \in Undoers, NEW w \in Undoers, NEW k \in DOMAIN receipts,
               v # w, undo'[v].receipt = k, undo'[w].receipt = k
        PROVE  k \in shaky'
    <3>1. undo[v].receipt = k /\ undo[w].receipt = k
      BY <1>0, <1>3, <1>5, <2>1 DEF r
    <3>. QED BY <1>4, <2>1, <3>1 DEF OnceInv, Sole
  <2>2. \A v \in Undoers : undo'[v].pc = "idle" => undo'[v].receipt = NoReceipt
    BY <1>2, <1>3, AwayType DEF OnceInv, Sole
  <2>3. \A v \in Undoers : undo'[v].pc = "held" /\ undo'[v].receipt \notin shaky'
           => undo'[v].undone = receipts[undo'[v].receipt].undone
    BY <1>2, <1>3, <1>4, AwayType DEF OnceInv, Sole
  <2>. QED BY <1>1, <2>1, <2>2, <2>3 DEF Sole
<1>7. Spent'
  <2>1. ASSUME r \notin shaky' PROVE restored'[r] = 1 /\ x.pc = "restored" /\ x.receipt = r
    <3>1. r \notin shaky BY <1>4, <2>1
    <3>2. ~receipts[r].undone BY <1>1, <3>1 DEF OnceInv, Sole, r
    <3>3. \A v \in Undoers : undo[v].receipt = r => v = u
      BY <1>0, <3>1 DEF OnceInv, Sole, r
    <3>4. restored[r] = 0 BY <1>0, <1>1, <3>1, <3>2, <3>3 DEF OnceInv, Spent
    <3>5. restored'[r] = 1 BY <1>0, <1>1, <3>4 DEF Clamp
    <3>. QED BY <1>2, <1>4, <2>1, <3>5
  <2>2. \A k \in DOMAIN restored \ {r} : restored'[k] = restored[k] BY <1>0, <1>1
  <2>3. DOMAIN restored' = DOMAIN restored BY <1>0, <1>1
  <2>4. ASSUME NEW k \in DOMAIN receipts \ shaky'
        PROVE  restored'[k] = 0 \/ /\ restored'[k] = 1
                                   /\ \/ receipts[k].undone
                                      \/ \E v \in Undoers : /\ undo'[v].pc = "restored"
                                                            /\ undo'[v].receipt = k
    <3>1. CASE k = r BY <1>3, <2>1, <2>4, <3>1
    <3>2. CASE k # r
      <4>1. restored'[k] = restored[k]
        BY <1>0, <1>1, <2>2, <2>4, <3>2 DEF Types, RollbackTypeOK, RollbackAssumption
      <4>2. \A v \in Undoers : undo[v].receipt = k => undo'[v] = undo[v]
        BY <1>3, <3>2 DEF r
      <4>3. k \notin shaky BY <1>4, <2>4
      <4>. QED BY <2>4, <4>1, <4>2, <4>3 DEF OnceInv, Spent
    <3>. QED BY <3>1, <3>2
  <2>. QED BY <1>0, <1>1, <2>2, <2>3, <2>4 DEF OnceInv, Spent
<1>. QED BY <1>6, <1>7 DEF OnceInv

(* An undo on record: its receipt is marked.                               *)
LEMMA RecordOnce ==
    ASSUME Types, OnceInv, NEW u \in Undoers, RecordUndo(u)
    PROVE  OnceInv'
<1>. DEFINE r == undo[u].receipt
            n == Len(receipts) + 1
<1>0. /\ Len(receipts) \in Nat /\ DOMAIN receipts = 1 .. Len(receipts)
      /\ NoReceipt \notin Nat /\ n \in DOMAIN restored
      /\ \A v \in Undoers : undo[v].pc # "idle" => undo[v].receipt \in DOMAIN receipts
  BY UndoReceipt DEF Types, RollbackTypeOK, RollbackAssumption
<1>1. /\ r \in DOMAIN receipts /\ DOMAIN receipts' = 1 .. n
      /\ \A i \in DOMAIN receipts \ {r} : receipts'[i] = receipts[i]
      /\ receipts'[r].undone
  BY UndoReceipt
<1>2. undo' = [undo EXCEPT ![u] = Away] /\ UNCHANGED <<restored, shaky>>
      /\ undo[u].pc = "restored"
  BY DEF RecordUndo
<1>3. undo'[u] = Away /\ \A v \in Undoers \ {u} : undo'[v] = undo[v] BY <1>2, UndoMoves
<1>4. \A v \in Undoers : undo[v].receipt \in DOMAIN receipts \/ undo[v].receipt = NoReceipt
  BY <1>0 DEF OnceInv, Sole
<1>5. Sole'
  <2>1. \A v, w \in Undoers : \A k \in DOMAIN receipts' :
           v # w /\ undo'[v].receipt = k /\ undo'[w].receipt = k => k \in shaky'
    BY <1>0, <1>1, <1>2, <1>3, <1>4, AwayType DEF OnceInv, Sole
  <2>2. \A v \in Undoers : undo'[v].pc = "idle" => undo'[v].receipt = NoReceipt
    BY <1>3, AwayType DEF OnceInv, Sole
  <2>3. ASSUME NEW v \in Undoers, undo'[v].pc = "held", undo'[v].receipt \notin shaky'
        PROVE  undo'[v].undone = receipts'[undo'[v].receipt].undone
    <3>1. v # u /\ undo'[v] = undo[v] BY <1>3, <2>3, AwayType
    <3>2. undo[v].receipt \in DOMAIN receipts BY <1>0, <2>3, <3>1
    <3>3. undo[v].receipt # r BY <1>1, <1>2, <2>3, <3>1 DEF OnceInv, Sole
    <3>4. receipts'[undo[v].receipt] = receipts[undo[v].receipt] BY <1>1, <3>2, <3>3
    <3>. QED BY <1>2, <2>3, <3>1, <3>4 DEF OnceInv, Sole
  <2>. QED BY <2>1, <2>2, <2>3 DEF Sole
<1>6. Spent'
  <2>1. restored'[n] = 0 BY <1>0, <1>2 DEF OnceInv, Spent
  <2>2. ASSUME NEW k \in DOMAIN receipts' \ shaky'
        PROVE  restored'[k] = 0 \/ /\ restored'[k] = 1
                                   /\ \/ receipts'[k].undone
                                      \/ \E v \in Undoers : /\ undo'[v].pc = "restored"
                                                            /\ undo'[v].receipt = k
    <3>1. CASE k = n BY <2>1, <3>1
    <3>2. CASE k = r BY <1>1, <1>2, <2>2, <3>2 DEF OnceInv, Spent
    <3>3. CASE k \in DOMAIN receipts \ {r}
      <4>1. \A v \in Undoers : undo[v].receipt = k => undo'[v] = undo[v]
        BY <1>3, <3>3
      <4>. QED BY <1>1, <1>2, <2>2, <3>3, <4>1 DEF OnceInv, Spent
    <3>. QED BY <1>0, <1>1, <3>1, <3>2, <3>3
  <2>3. \A k \in DOMAIN restored' \ DOMAIN receipts' : restored'[k] = 0
    BY <1>0, <1>1, <1>2 DEF OnceInv, Spent
  <2>. QED BY <2>2, <2>3 DEF Spent
<1>. QED BY <1>5, <1>6 DEF OnceInv

(* Every step.                                                             *)
LEMMA OnceNext ==
    ASSUME Types, OnceInv, [RollbackNext]_rollbackVars
    PROVE  OnceInv'
<1>1. ASSUME UNCHANGED <<undo, receipts, restored, shaky>> PROVE OnceInv'
  BY <1>1 DEF OnceInv, Sole, Spent
<1>2. ASSUME NEW q \in Requests, Probe(q) PROVE OnceInv' BY <1>1, <1>2 DEF Probe
<1>3. ASSUME Touch \/ UNCHANGED rollbackVars PROVE OnceInv'
  BY <1>1, <1>3 DEF Touch, rollbackVars
<1>. QED BY <1>2, <1>3, ExecuteOnce, HoldOnce, LetGoOnce, RestoreOnce, RecordOnce
         DEF RollbackNext, UndoStep

(* A receipt is restored from once, unless two undos held it at once or    *)
(* one lost its record.                                                    *)
LEMMA RestoredOnceAlways == ASSUME RollbackAssumption PROVE RollbackSpec => []RestoredOnce
<1>1. ASSUME RollbackAssumption, RollbackInit PROVE OnceInv
  <2>1. \A u \in Undoers : undo[u] = Away BY <1>1 DEF RollbackInit
  <2>2. NoReceipt \notin DOMAIN receipts /\ DOMAIN receipts = {} BY <1>1 DEF RollbackInit
  <2>3. \A r \in DOMAIN restored : restored[r] = 0 BY <1>1 DEF RollbackInit
  <2>. QED BY <2>1, <2>2, <2>3, AwayType DEF OnceInv, Sole, Spent
<1>2. Types /\ OnceInv => RestoredOnce
  <2>. SUFFICES ASSUME Types, OnceInv, NEW r \in DOMAIN restored, restored[r] > 1
                PROVE  r \in shaky
    BY DEF RestoredOnce
  <2>. QED BY DEF OnceInv, Spent
<1>3. RollbackInit => OnceInv BY <1>1
<1>. QED BY <1>2, <1>3, SpecTypes, OnceNext, PTL DEF RollbackSpec

(* All that the receipts promise of undoing: restored from once, marked    *)
(* with the undo's own receipt, and available only where they hold what    *)
(* restore() needs.                                                        *)
THEOREM UndoneOnceAlways == ASSUME RollbackAssumption PROVE RollbackSpec => []UndoneOnce
<1>1. RestoredOnce /\ MarkedByItsUndo /\ AvailableMeansRestorable => UndoneOnce
  BY DEF UndoneOnce
<1>. QED BY <1>1, RestoredOnceAlways, MarkedAlways, AvailableRestores, PTL

(* An undo that reports success has put the target back where it was just  *)
(* before the action, whatever else moved it since: the prior setting by   *)
(* writing it, the snapshot because it was taken after the probe, the      *)
(* image because the release that came up is compared with it.             *)
THEOREM UndoesRestore == ASSUME RollbackAssumption PROVE RollbackSpec => UndoRestores
<1>1. ASSUME Types, Captured, [RollbackNext]_rollbackVars PROVE UndoRestoresStep
  <2>. SUFFICES ASSUME NEW u \in Undoers, undo[u].pc = "held", undo'[u].pc = "restored",
                       receipts[undo[u].receipt].undoes = 0,
                       receipts[undo[u].receipt].prior
                         \in {Nothing, receipts[undo[u].receipt].was}
                PROVE  at' = receipts[undo[u].receipt].was
    BY DEF UndoRestoresStep
  <2>. DEFINE r == undo[u].receipt
  <2>0. r \in DOMAIN receipts /\ receipts[r] \in Receipt BY <1>1 DEF Types, RollbackTypeOK
  <2>1. Restore(u)
    <3>1. ASSUME NEW v \in Undoers, NEW x, undo' = [undo EXCEPT ![v] = x],
                 v = u => x.pc # "restored"
          PROVE  FALSE
      BY <1>1, <3>1, UndoMoves
    <3>2. ASSUME NEW v \in Undoers, Restore(v), v # u PROVE FALSE
      <4>1. PICK x : undo' = [undo EXCEPT ![v] = x] BY <3>2 DEF Restore
      <4>. QED BY <3>1, <3>2, <4>1
    <3>3. ASSUME NEW v \in Undoers, GiveUp(v) \/ RecordUndo(v) \/ LoseUndo(v) PROVE FALSE
      BY <3>1, <3>3, AwayType DEF GiveUp, RecordUndo, LoseUndo
    <3>4. ASSUME NEW v \in Undoers, NEW k, Hold(v, k) PROVE FALSE
      <4>1. PICK x : undo' = [undo EXCEPT ![v] = x] /\ x.pc = "held" BY <3>4 DEF Hold
      <4>. QED BY <3>1, <4>1
    <3>5. undo' # undo OBVIOUS
    <3>. QED BY <1>1, <3>2, <3>3, <3>4, <3>5
             DEF RollbackNext, UndoStep, Probe, Execute, Touch, rollbackVars
  <2>2. /\ Restorable(receipts[r]) /\ at' = RestoredTo(receipts[r])
        /\ undo' = [undo EXCEPT ![u] =
                      IF receipts[r].strategy = "prior-image" /\ at' # receipts[r].prior
                      THEN Away ELSE [@ EXCEPT !.pc = "restored"]]
    BY <2>1 DEF Restore
  <2>3. ~(receipts[r].strategy = "prior-image" /\ at' # receipts[r].prior)
    BY <1>1, <2>2, UndoMoves, AwayType
  <2>4. receipts[r].snapshot \in {Nothing, receipts[r].was} BY <1>1, <2>0 DEF Captured
  <2>. QED BY <2>0, <2>2, <2>3, <2>4 DEF Restorable, RestoredTo, Receipt, Strategy
<1>2. Types /\ Captured /\ [RollbackNext]_rollbackVars => [UndoRestoresStep]_rollbackVars
  BY <1>1
<1>. QED BY <1>2, SpecCaptured, PTL DEF RollbackSpec, UndoRestores

(***************************************************************************)
(* The cells: the moving floor, for every number of cells, every streak    *)
(* length and every assignment of ceilings.                                *)
(***************************************************************************)
USE DEF Level, BLOCK, PROPOSE, CONFIRM, AUTONOMOUS

(* The three safety invariants together with the types: each is inductive  *)
(* once the rows are known to be rows.                                     *)
IInv == TypeOK /\ BelowDomainCeiling /\ OnlyGrantsLiftIneligible /\ ProbationBanksNothing

(* It holds at the start, ...                                              *)
LEMMA InitIInv == Init => IInv
<1>. SUFFICES ASSUME Init PROVE IInv OBVIOUS
<1>. USE CellAssumption
<1>1. TypeOK BY NewCellRow DEF Init, TypeOK
<1>2. BelowDomainCeiling BY NewCellRow DEF Init, BelowDomainCeiling
<1>3. OnlyGrantsLiftIneligible
  BY DEF Init, OnlyGrantsLiftIneligible, NewCell, CellAssumption
<1>4. ProbationBanksNothing BY DEF Init, ProbationBanksNothing, NewCell
<1>. QED BY <1>1, <1>2, <1>3, <1>4 DEF IInv

(* ... and every outcome and every grant keeps it.                         *)
LEMMA NextIInv == IInv /\ [Next]_cell => IInv'
<1>. SUFFICES ASSUME IInv, [Next]_cell PROVE IInv' OBVIOUS
<1>. USE CellAssumption
<1>t. cell \in [Cells -> CellRow] BY DEF IInv, TypeOK
<1>1. ASSUME NEW c \in Cells, Clean(c) PROVE IInv'
  <2>1. /\ cell' = [cell EXCEPT ![c] = CleanOutcome(c, cell[c])]
        /\ cell[c] \in CellRow
    BY <1>1, <1>t DEF Clean
  <2>2. TypeOK' BY <2>1, <1>t, CleanOutcomeRow DEF TypeOK
  <2>3. BelowDomainCeiling'
    BY <2>1, <1>t, CleanOutcomeRow DEF IInv, BelowDomainCeiling
  <2>4. OnlyGrantsLiftIneligible'
    <3>. SUFFICES ASSUME NEW d \in Cells, d \notin Promotable \/ d \in AbsoluteCells
                  PROVE  \/ cell'[d].level <= DefaultLevel[d]
                         \/ cell'[d].granted \/ cell'[d].probation
      BY DEF OnlyGrantsLiftIneligible
    <3>0. \/ cell[d].level <= DefaultLevel[d]
          \/ cell[d].granted \/ cell[d].probation
      BY DEF IInv, OnlyGrantsLiftIneligible
    <3>1. CASE d = c
      <4>1. /\ cell'[c].probation = cell[c].probation
            /\ cell'[c].level = cell[c].level
            /\ cell'[c].granted = cell[c].granted
        BY <3>1, <2>1, <1>t, CleanOutcomeRow
      <4>. QED BY <3>0, <3>1, <4>1
    <3>2. CASE d # c BY <3>0, <3>2, <2>1, <1>t
    <3>. QED BY <3>1, <3>2
  <2>5. ProbationBanksNothing'
    <3>. SUFFICES ASSUME NEW d \in Cells, cell'[d].probation
                  PROVE  cell'[d].streak = 0 /\ cell'[d].level = PROPOSE
      BY DEF ProbationBanksNothing
    <3>1. CASE d = c
      <4>1. cell[c].probation BY <3>1, <2>1, <1>t, CleanOutcomeRow
      <4>2. cell'[c] = [cell[c] EXCEPT !.streak = 0] BY <4>1, <2>1, <1>t, CleanOutcomeRow
      <4>3. cell[c].level = PROPOSE BY <4>1 DEF IInv, ProbationBanksNothing
      <4>. QED BY <3>1, <4>2, <4>3, <2>1 DEF CellRow
    <3>2. CASE d # c BY <3>2, <2>1, <1>t DEF IInv, ProbationBanksNothing
    <3>. QED BY <3>1, <3>2
  <2>. QED BY <2>2, <2>3, <2>4, <2>5 DEF IInv
<1>2. ASSUME NEW c \in Cells, Bad(c) PROVE IInv'
  <2>1. /\ cell' = [cell EXCEPT ![c] = BadOutcome]
        /\ cell[c] \in CellRow
    BY <1>2, <1>t DEF Bad
  <2>2. TypeOK' BY <2>1, <1>t, BadOutcomeRow DEF TypeOK
  <2>3. BelowDomainCeiling' BY <2>1, <1>t, BadOutcomeRow DEF IInv, BelowDomainCeiling
  <2>4. OnlyGrantsLiftIneligible'
    BY <2>1, <1>t, BadOutcomeRow DEF IInv, OnlyGrantsLiftIneligible
  <2>5. ProbationBanksNothing' BY <2>1, <1>t, BadOutcomeRow DEF IInv, ProbationBanksNothing
  <2>. QED BY <2>2, <2>3, <2>4, <2>5 DEF IInv
<1>3. ASSUME NEW c \in Cells, Reject(c) PROVE IInv'
  <2>1. /\ cell' = [cell EXCEPT ![c] = Rejection(cell[c])]
        /\ cell[c] \in CellRow
    BY <1>3, <1>t DEF Reject
  <2>2. TypeOK' BY <2>1, <1>t, RejectionRow DEF TypeOK
  <2>3. BelowDomainCeiling' BY <2>1, <1>t, RejectionRow DEF IInv, BelowDomainCeiling
  <2>4. OnlyGrantsLiftIneligible'
    BY <2>1, <1>t, RejectionRow DEF IInv, OnlyGrantsLiftIneligible
  <2>5. ProbationBanksNothing' BY <2>1, <1>t, RejectionRow DEF IInv, ProbationBanksNothing
  <2>. QED BY <2>2, <2>3, <2>4, <2>5 DEF IInv
<1>4. ASSUME NEW c \in Cells, NEW level \in Level, Grant(c, level) PROVE IInv'
  <2>1. /\ cell' = [cell EXCEPT ![c] = GrantedRow(cell[c], level)]
        /\ cell[c] \in CellRow /\ level <= MaxLevel[c]
    BY <1>4, <1>t DEF Grant, MayGrant
  <2>2. TypeOK' BY <2>1, <1>t, GrantedRowRow DEF TypeOK
  <2>3. BelowDomainCeiling' BY <2>1, <1>t, GrantedRowRow DEF IInv, BelowDomainCeiling
  <2>4. OnlyGrantsLiftIneligible'
    BY <2>1, <1>t, GrantedRowRow DEF IInv, OnlyGrantsLiftIneligible
  <2>5. ProbationBanksNothing' BY <2>1, <1>t, GrantedRowRow DEF IInv, ProbationBanksNothing
  <2>. QED BY <2>2, <2>3, <2>4, <2>5 DEF IInv
<1>5. CASE UNCHANGED cell
  BY <1>5 DEF IInv, TypeOK, BelowDomainCeiling, OnlyGrantsLiftIneligible, ProbationBanksNothing
<1>. QED BY <1>1, <1>2, <1>3, <1>4, <1>5 DEF Next

(* The inductive invariant holds of every behaviour.                       *)
LEMMA SpecIInv == Spec => []IInv
BY InitIInv, NextIInv, PTL DEF Spec

(* Every row keeps its type: the streak never passes the threshold.        *)
THEOREM CellTypes == Spec => []TypeOK
<1>1. IInv => TypeOK BY DEF IInv
<1>. QED BY <1>1, SpecIInv, PTL

(* No sequence of outcomes and grants takes a cell above its domain.       *)
THEOREM CeilingHolds == Spec => []BelowDomainCeiling
<1>1. IInv => BelowDomainCeiling BY DEF IInv
<1>. QED BY <1>1, SpecIInv, PTL

(* A cell that is not eligible rises by grants only.                       *)
THEOREM IneligibleCellsStay == Spec => []OnlyGrantsLiftIneligible
<1>1. IInv => OnlyGrantsLiftIneligible BY DEF IInv
<1>. QED BY <1>1, SpecIInv, PTL

(* Nothing is banked on probation.                                         *)
THEOREM ProbationHolds == Spec => []ProbationBanksNothing
<1>1. IInv => ProbationBanksNothing BY DEF IInv
<1>. QED BY <1>1, SpecIInv, PTL
-----------------------------------------------------------------------------
(* The history beside the rows: no streak is longer than the clean         *)
(* approvals that were counted since it was last broken or spent.          *)
StreakIsEarned ==
    /\ approvals \in [Cells -> 0 .. PromotionStreak]
    /\ \A c \in Cells : cell[c].streak <= approvals[c]

(* The rows' invariant and the history's.                                  *)
HInv == IInv /\ StreakIsEarned

(* A step of the history is one of the rows.                               *)
LEMMA HStepIsStep == HNext => Next
BY DEF HNext, Next, HClean, HBreak, HGrant

(* What a clean outcome makes of a row whose streak was earned.            *)
LEMMA CleanStreak ==
    ASSUME NEW c \in Cells, NEW before \in CellRow, NEW a \in 0 .. PromotionStreak,
           before.streak <= a
    PROVE  LET n == CleanOutcome(c, before)
           IN  /\ n.level = before.level => n.streak <= Clamp(a + 1, PromotionStreak)
               /\ n.level # before.level => /\ n.streak = 0
                                         /\ n.level = before.level + 1
                                         /\ a + 1 >= PromotionStreak
               /\ before.probation => n.streak = 0
<1>1. PromotionStreak \in Nat \ {0} BY CellAssumption
<1>2. /\ before.level \in Level /\ before.streak \in 0 .. PromotionStreak
      /\ before.probation \in BOOLEAN /\ before.granted \in BOOLEAN
      /\ before = [level |-> before.level, streak |-> before.streak,
                probation |-> before.probation, granted |-> before.granted]
  BY DEF CellRow
<1>3. CASE ~Banks(before)
  BY <1>1, <1>2, <1>3 DEF CleanOutcome, Clamp
<1>4. CASE Banks(before) /\ before.streak + 1 < PromotionStreak
  BY <1>1, <1>2, <1>4 DEF CleanOutcome, Banks, Clamp
<1>5. CASE Banks(before) /\ ~(before.streak + 1 < PromotionStreak) /\ MayRise(c, before)
  <2>1. CleanOutcome(c, before) = [level |-> NextLevel(before.level), streak |-> 0,
                                probation |-> before.probation, granted |-> FALSE]
    BY <1>2, <1>5 DEF CleanOutcome
  <2>2. NextLevel(before.level) = before.level + 1 BY <1>2, <1>5 DEF NextLevel, MayRise
  <2>. QED BY <1>1, <1>2, <1>5, <2>1, <2>2 DEF Banks
<1>6. CASE Banks(before) /\ ~(before.streak + 1 < PromotionStreak) /\ ~MayRise(c, before)
  BY <1>1, <1>2, <1>6 DEF CleanOutcome, Banks, Held, Clamp
<1>. QED BY <1>3, <1>4, <1>5, <1>6

(* The history's invariant holds at the start, ...                         *)
LEMMA InitHInv == HInit => HInv
<1>1. HInit => IInv BY InitIInv DEF HInit
<1>2. HInit => StreakIsEarned
  BY CellAssumption DEF HInit, Init, NewCell, StreakIsEarned
<1>. QED BY <1>1, <1>2 DEF HInv

(* ... and every step keeps it.                                            *)
LEMMA NextHInv == HInv /\ [HNext]_historyVars => HInv'
<1>. SUFFICES ASSUME HInv, [HNext]_historyVars PROVE HInv' OBVIOUS
<1>. USE CellAssumption
<1>t. /\ cell \in [Cells -> CellRow]
      /\ approvals \in [Cells -> 0 .. PromotionStreak]
      /\ \A c \in Cells : cell[c].streak <= approvals[c]
  BY DEF HInv, IInv, TypeOK, StreakIsEarned
<1>i. IInv'
  <2>1. [Next]_cell BY HStepIsStep DEF historyVars
  <2>. QED BY <2>1, NextIInv DEF HInv
<1>1. ASSUME NEW c \in Cells, HClean(c) PROVE StreakIsEarned'
  <2>1. cell' = [cell EXCEPT ![c] = CleanOutcome(c, cell[c])]
    BY <1>1 DEF HClean, Clean
  <2>2. cell'[c] = CleanOutcome(c, cell[c]) BY <2>1, <1>t
  <2>3. cell[c] \in CellRow /\ approvals[c] \in 0 .. PromotionStreak BY <1>t
  <2>4. approvals' = [approvals EXCEPT ![c] =
            IF cell[c].probation THEN approvals[c]
            ELSE IF cell'[c].level # cell[c].level THEN 0
            ELSE Clamp(approvals[c] + 1, PromotionStreak)]
    BY <1>1 DEF HClean, Moved
  <2>5. /\ Clamp(approvals[c] + 1, PromotionStreak) \in 0 .. PromotionStreak
        /\ approvals[c] <= Clamp(approvals[c] + 1, PromotionStreak)
    BY <2>3 DEF Clamp
  <2>6. approvals' \in [Cells -> 0 .. PromotionStreak] BY <1>t, <2>4, <2>5
  <2>7. cell'[c].streak <= approvals'[c]
    <3>1. /\ cell'[c].level = cell[c].level
                => cell'[c].streak <= Clamp(approvals[c] + 1, PromotionStreak)
          /\ cell'[c].level # cell[c].level => cell'[c].streak = 0
          /\ cell[c].probation => cell'[c].streak = 0
      BY <2>2, <2>3, <1>t, CleanStreak
    <3>. QED BY <3>1, <2>3, <2>4, <1>t
  <2>8. ASSUME NEW d \in Cells, d # c PROVE cell'[d].streak <= approvals'[d]
    BY <2>1, <2>4, <2>8, <1>t
  <2>. QED BY <2>6, <2>7, <2>8 DEF StreakIsEarned
<1>2. ASSUME NEW c \in Cells, HBreak(c) PROVE StreakIsEarned'
  <2>1. \/ cell' = [cell EXCEPT ![c] = BadOutcome]
        \/ cell' = [cell EXCEPT ![c] = Rejection(cell[c])]
    BY <1>2 DEF HBreak, Bad, Reject
  <2>2. approvals' = [approvals EXCEPT ![c] = 0] BY <1>2 DEF HBreak
  <2>3. cell'[c].streak = 0 BY <2>1, <1>t, BadOutcomeRow, RejectionRow
  <2>4. ASSUME NEW d \in Cells, d # c PROVE cell'[d].streak <= approvals'[d]
    BY <2>1, <2>2, <2>4, <1>t
  <2>. QED BY <2>2, <2>3, <2>4, <1>t DEF StreakIsEarned
<1>3. ASSUME NEW c \in Cells, NEW level \in Level, HGrant(c, level) PROVE StreakIsEarned'
  <2>1. cell' = [cell EXCEPT ![c] = GrantedRow(cell[c], level)] /\ approvals' = approvals
    BY <1>3 DEF HGrant, Grant
  <2>2. GrantedRow(cell[c], level).streak = cell[c].streak BY <1>t DEF GrantedRow, CellRow
  <2>. QED BY <2>1, <2>2, <1>t DEF StreakIsEarned
<1>4. ASSUME UNCHANGED historyVars PROVE StreakIsEarned'
  BY <1>4, <1>t DEF historyVars, StreakIsEarned
<1>5. StreakIsEarned' BY <1>1, <1>2, <1>3, <1>4 DEF HNext
<1>. QED BY <1>i, <1>5 DEF HInv

(* "five clean approvals buy one step, not a level per approval": what     *)
(* rises without a grant rises by one rung, and has been paid for, for     *)
(* every streak length and every sequence of outcomes and grants.          *)
THEOREM RungsAreBought == HSpec => ApprovalsBuyOneRung
<1>. DEFINE Bought(c) == RisesByItself(c) => /\ cell'[c].level = cell[c].level + 1
                                             /\ approvals[c] + 1 >= PromotionStreak
<1>1. ASSUME HInv, [HNext]_historyVars PROVE [\A c \in Cells : Bought(c)]_historyVars
  <2>. SUFFICES ASSUME HNext, NEW c \in Cells, RisesByItself(c)
                PROVE  /\ cell'[c].level = cell[c].level + 1
                       /\ approvals[c] + 1 >= PromotionStreak
    BY <1>1
  <2>t. /\ cell \in [Cells -> CellRow]
        /\ approvals \in [Cells -> 0 .. PromotionStreak]
        /\ \A d \in Cells : cell[d].streak <= approvals[d]
    BY <1>1 DEF HInv, IInv, TypeOK, StreakIsEarned
  <2>r. cell'[c].level > cell[c].level /\ ~cell'[c].granted /\ ~cell'[c].probation
    BY DEF RisesByItself
  <2>l. cell[c].level \in Level /\ cell[c] \in CellRow BY <2>t DEF CellRow
  <2>1. ASSUME NEW d \in Cells, d # c,
               cell' = [cell EXCEPT ![d] = CleanOutcome(d, cell[d])]
               \/ cell' = [cell EXCEPT ![d] = BadOutcome]
               \/ cell' = [cell EXCEPT ![d] = Rejection(cell[d])]
               \/ \E level \in Level : cell' = [cell EXCEPT ![d] = GrantedRow(cell[d], level)]
        PROVE  FALSE
    <3>1. cell'[c] = cell[c] BY <2>1, <2>t
    <3>. QED BY <3>1, <2>r, <2>l
  <2>2. CASE cell' = [cell EXCEPT ![c] = CleanOutcome(c, cell[c])]
    <3>1. cell'[c] = CleanOutcome(c, cell[c]) BY <2>2, <2>t
    <3>2. cell'[c].level # cell[c].level BY <2>r, <2>l
    <3>. QED BY <3>1, <3>2, <2>l, <2>t, CleanStreak
  <2>3. CASE cell' = [cell EXCEPT ![c] = BadOutcome]
    BY <2>3, <2>t, <2>r, BadOutcomeRow
  <2>4. CASE cell' = [cell EXCEPT ![c] = Rejection(cell[c])]
    BY <2>4, <2>t, <2>r, <2>l, RejectionRow
  <2>5. CASE \E level \in Level : cell' = [cell EXCEPT ![c] = GrantedRow(cell[c], level)]
    BY <2>5, <2>t, <2>r, GrantedRowRow
  <2>. QED
    BY <2>1, <2>2, <2>3, <2>4, <2>5
    DEF HNext, HClean, HBreak, HGrant, Clean, Bad, Reject, Grant
<1>. QED BY <1>1, InitHInv, NextHInv, PTL DEF HSpec, ApprovalsBuyOneRung
=============================================================================
