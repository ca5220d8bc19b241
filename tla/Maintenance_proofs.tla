-------------------------- MODULE Maintenance_proofs --------------------------
(***************************************************************************)
(* Maintenance runs, for every plan, number of processes and bound.        *)
(*                                                                         *)
(* What a process knows of its run is a copy (CopyOK), and what the ledger *)
(* says of a run holds whoever wrote it last (RunOK).  The stronger claims *)
(* are about a run that no other process touched while one worked on it    *)
(* (AloneOK): the copy is the ledger, the steps that succeeded come first, *)
(* and what is still planned still has its proposal pending; so the first  *)
(* failure leaves every later step skipped and its proposal rejected.      *)
(*                                                                         *)
(* Of a plan these proofs use only that it has a number of steps, and not  *)
(* none.  Which guests they are about matters for the last theorem: there, *)
(* a plan's drain is unfolded, and ReturnInv says where the guests are     *)
(* while the last run of the node is on its way.                           *)
(***************************************************************************)
EXTENDS Maintenance, SequenceTheorems, FiniteSetTheorems, WellFoundedInduction, TLAPS

StepState == {"planned", "succeeded", "failed", "skipped"}
Outcome   == {"pending", "executed", "rejected"}

(* A list, by its length and its elements.                                 *)
List(s) == Len(s) \in Nat /\ s = [i \in 1 .. Len(s) |-> s[i]]

(* A row of the table of runs has the columns of DraftRun.                 *)
Row(x) == x = [plane |-> x.plane, status |-> x.status, steps |-> x.steps,
               state |-> x.state, resumed |-> x.resumed, found |-> x.found]

Total(r) == Len(runs[r].steps)

RowsOK ==
    /\ List(runs) /\ List(proposal) /\ Len(proposal) = Len(runs)
    /\ \A r \in 1 .. Len(runs) :
          /\ Row(runs[r]) /\ runs[r].status \in Status
          /\ Total(r) \in Nat \ {0}
          /\ runs[r].state \in [1 .. Total(r) -> StepState]
          /\ proposal[r] \in [1 .. Total(r) -> Outcome]

Copy == [pc : {"off", "asking", "next", "acting", "acted"}, run : Nat \cup {NoRun}, i : Nat,
         status : Status, state : Seq(StepState), result : {"none", "succeeded", "failed"}]

(* What a process has in its hands: the steps it believes done are, and    *)
(* come before the one it is at.                                           *)
CopyOK(x) ==
    x.pc # "off" =>
      /\ x.run \in 1 .. Len(runs)
      /\ x.state \in [1 .. Total(x.run) -> {"planned", "succeeded"}]
      /\ \A j \in 1 .. Total(x.run) :
            x.state[j] = "succeeded" => proposal[x.run][j] = "executed"
      /\ x.pc = "next" => x.i \in 1 .. Total(x.run) + 1
      /\ x.pc \in {"acting", "acted"} =>
            x.i \in 1 .. Total(x.run) /\ x.state[x.i] = "planned"
      /\ x.pc \in {"next", "acting", "acted"} =>
            \A j \in 1 .. Total(x.run) : j < x.i => x.state[j] = "succeeded"

(* What the ledger says of any run.                                        *)
RunOK(r) ==
    /\ \A j \in 1 .. Total(r) : runs[r].state[j] = "succeeded" => proposal[r][j] = "executed"
    /\ runs[r].status \in OpenStatus =>
          \A j \in 1 .. Total(r) : runs[r].state[j] \in {"planned", "succeeded"}
    /\ runs[r].status = "aborted" => \A j \in 1 .. Total(r) : proposal[r][j] # "pending"

(* The process at work on a run.                                           *)
Holds(e, r) == exec[e].pc # "off" /\ exec[e].run = r

(* A run at its first failure.                                             *)
StoppedAt(r, i) ==
    /\ runs[r].state[i] = "failed"
    /\ \A j \in 1 .. Total(r) :
          /\ j < i => runs[r].state[j] = "succeeded"
          /\ j > i => runs[r].state[j] = "skipped" /\ proposal[r][j] = "rejected"

(* A run that nobody else touched.                                         *)
AloneOK(r) ==
    /\ \A e, f \in Executors : Holds(e, r) /\ Holds(f, r) => e = f
    /\ \A e \in Executors : Holds(e, r) => /\ exec[e].state = runs[r].state
                                           /\ runs[r].status \in OpenStatus
    /\ runs[r].status \in OpenStatus =>
          \A j \in 1 .. Total(r) :
             /\ runs[r].state[j] = "planned" => proposal[r][j] = "pending"
             /\ \A k \in 1 .. Total(r) :
                   j < k /\ runs[r].state[k] = "succeeded" => runs[r].state[j] = "succeeded"
    /\ runs[r].status = "succeeded" => \A j \in 1 .. Total(r) : runs[r].state[j] = "succeeded"
    /\ runs[r].status = "failed" => \E i \in 1 .. Total(r) : StoppedAt(r, i)

MaintenanceInv ==
    /\ RowsOK
    /\ exec \in [Executors -> Copy] /\ \A e \in Executors : CopyOK(exec[e])
    /\ \A r \in 1 .. Len(runs) : RunOK(r) /\ (r \notin contested => AloneOK(r))
    /\ OneOpenRun
-----------------------------------------------------------------------------
(* A function over 1 .. n is a sequence of length n.                       *)
LEMMA ListLength ==
    ASSUME NEW T, NEW n \in Nat, NEW s \in [1 .. n -> T]
    PROVE  s \in Seq(T) /\ Len(s) = n
<1>1. s \in Seq(T)
  BY SeqDef
<1>2. Len(s) \in Nat /\ DOMAIN s = 1 .. Len(s)
  BY <1>1, LenProperties
<1>3. DOMAIN s = 1 .. n
  OBVIOUS
<1> QED
  BY <1>1, <1>2, <1>3

LEMMA ListElements ==
    ASSUME NEW s, List(s)
    PROVE  s \in [1 .. Len(s) -> {s[i] : i \in 1 .. Len(s)}] /\ DOMAIN s = 1 .. Len(s)
<1> DEFINE n == Len(s)
<1>1. s = [i \in 1 .. n |-> s[i]] /\ n \in Nat
  BY DEF List
<1>2. [i \in 1 .. n |-> s[i]] \in [1 .. n -> {s[i] : i \in 1 .. n}]
  OBVIOUS
<1> QED
  BY <1>1, <1>2

LEMMA FunctionIsList ==
    ASSUME NEW T, NEW n \in Nat, NEW s \in [1 .. n -> T]
    PROVE  List(s) /\ Len(s) = n
<1>1. Len(s) = n
  BY ListLength
<1>2. s = [i \in 1 .. n |-> s[i]]
  OBVIOUS
<1> QED
  BY <1>1, <1>2 DEF List

(* One element of a list replaced.                                         *)
Put(s, r, x) == [s EXCEPT ![r] = x]

LEMMA ListPut ==
    ASSUME NEW s, List(s), NEW r \in 1 .. Len(s), NEW x
    PROVE  /\ List(Put(s, r, x)) /\ Len(Put(s, r, x)) = Len(s) /\ Put(s, r, x)[r] = x
           /\ \A q \in 1 .. Len(s) : q # r => Put(s, r, x)[q] = s[q]
<1> DEFINE n == Len(s)
           T == {s[i] : i \in 1 .. n} \cup {x}
<1>1. n \in Nat /\ s \in [1 .. n -> {s[i] : i \in 1 .. n}]
  BY ListElements DEF List
<1>2. Put(s, r, x) \in [1 .. n -> T]
  BY <1>1 DEF Put
<1> HIDE DEF T
<1>3. List(Put(s, r, x)) /\ Len(Put(s, r, x)) = n
  BY <1>1, <1>2, FunctionIsList, Zenon
<1>4. Put(s, r, x)[r] = x /\ \A q \in 1 .. n : q # r => Put(s, r, x)[q] = s[q]
  BY <1>1 DEF Put
<1> QED
  BY <1>3, <1>4

(* One element added at the end of a list.                                 *)
LEMMA ListAppended ==
    ASSUME NEW s, List(s), NEW x
    PROVE  /\ List(Append(s, x)) /\ Len(Append(s, x)) = Len(s) + 1
           /\ Append(s, x)[Len(s) + 1] = x
           /\ \A q \in 1 .. Len(s) : Append(s, x)[q] = s[q]
<1> PICK t : t = Append(s, x)
  OBVIOUS
<1> DEFINE n == Len(s)
           T == {s[i] : i \in 1 .. n} \cup {x}
<1>1. n \in Nat /\ s \in [1 .. n -> {s[i] : i \in 1 .. n}]
  BY ListElements DEF List
<1>2. s \in [1 .. n -> T] /\ x \in T
  BY <1>1
<1>3. s \in Seq(T)
  BY <1>1, <1>2, ListLength
<1> HIDE DEF T
<1>4. t \in Seq(T) /\ Len(t) = n + 1 /\ t[n + 1] = x /\ \A q \in 1 .. n : t[q] = s[q]
  BY <1>1, <1>2, <1>3
<1>5. t \in [1 .. n + 1 -> T]
  BY <1>4, LenProperties
<1>6. n + 1 \in Nat
  BY <1>1
<1>7. List(t) /\ Len(t) = n + 1
  BY <1>5, <1>6, FunctionIsList, Zenon
<1> QED
  BY <1>4, <1>7
-----------------------------------------------------------------------------
(* The row of one run rewritten: its steps' states, its status and the     *)
(* outcomes of its proposals.                                              *)
Rewritten(x, a, b) == [[x EXCEPT !.state = a] EXCEPT !.status = b]

Rewrites(r, a, b, p) ==
    /\ runs' = Put(runs, r, Rewritten(runs[r], a, b))
    /\ proposal' = Put(proposal, r, p)

LEMMA RowRewritten ==
    ASSUME NEW x, Row(x), NEW a, NEW b
    PROVE  /\ Row(Rewritten(x, a, b))
           /\ Rewritten(x, a, b).state = a /\ Rewritten(x, a, b).status = b
           /\ Rewritten(x, a, b).plane = x.plane /\ Rewritten(x, a, b).steps = x.steps
<1>1. PICK pl, st, sp, sa, re, fo :
        x = [plane |-> pl, status |-> st, steps |-> sp, state |-> sa, resumed |-> re, found |-> fo]
  BY DEF Row
<1>2. Rewritten(x, a, b) = [plane |-> pl, status |-> b, steps |-> sp, state |-> a,
                            resumed |-> re, found |-> fo]
  <2> DEFINE z == [plane |-> pl, status |-> st, steps |-> sp, state |-> a,
                   resumed |-> re, found |-> fo]
  <2>1. [x EXCEPT !.state = a] = z
    BY <1>1
  <2>2. [z EXCEPT !.status = b] = [plane |-> pl, status |-> b, steps |-> sp, state |-> a,
                                   resumed |-> re, found |-> fo]
    OBVIOUS
  <2> QED
    BY <2>1, <2>2 DEF Rewritten
<1> QED
  BY <1>1, <1>2 DEF Row

LEMMA RunRewritten ==
    ASSUME RowsOK, NEW r \in 1 .. Len(runs), NEW a \in [1 .. Total(r) -> StepState],
           NEW b \in Status, NEW p \in [1 .. Total(r) -> Outcome], Rewrites(r, a, b, p)
    PROVE  /\ RowsOK' /\ Len(runs)' = Len(runs)
           /\ runs'[r].state = a /\ runs'[r].status = b /\ proposal'[r] = p
           /\ \A q \in 1 .. Len(runs) : /\ runs'[q].plane = runs[q].plane
                                        /\ Total(q)' = Total(q)
           /\ \A q \in 1 .. Len(runs) : q # r => /\ runs'[q] = runs[q]
                                                 /\ proposal'[q] = proposal[q]
<1> DEFINE y == Rewritten(runs[r], a, b)
<1>1. List(runs) /\ List(proposal) /\ Len(proposal) = Len(runs)
  BY DEF RowsOK
<1>3. runs' = Put(runs, r, y) /\ proposal' = Put(proposal, r, p)
  BY DEF Rewrites
<1>4. /\ Row(y) /\ y.state = a /\ y.status = b
      /\ y.plane = runs[r].plane /\ y.steps = runs[r].steps
  BY RowRewritten DEF RowsOK
<1> HIDE DEF y
<1>5. /\ List(runs') /\ Len(runs') = Len(runs) /\ runs'[r] = y
      /\ \A q \in 1 .. Len(runs) : q # r => runs'[q] = runs[q]
  BY <1>1, <1>3, ListPut
<1>6. /\ List(proposal') /\ Len(proposal') = Len(proposal) /\ proposal'[r] = p
      /\ \A q \in 1 .. Len(proposal) : q # r => proposal'[q] = proposal[q]
  BY <1>1, <1>3, ListPut
<1>7. \A q \in 1 .. Len(runs) : /\ runs'[q].plane = runs[q].plane
                                /\ runs'[q].steps = runs[q].steps
  BY <1>4, <1>5
<1>8. \A q \in 1 .. Len(runs) : Total(q)' = Total(q)
  BY <1>7 DEF Total
<1>9. \A q \in 1 .. Len(runs) :
         /\ Row(runs'[q]) /\ runs'[q].status \in Status
         /\ Total(q)' \in Nat \ {0}
         /\ runs'[q].state \in [1 .. Total(q)' -> StepState]
         /\ proposal'[q] \in [1 .. Total(q)' -> Outcome]
  <2> TAKE q \in 1 .. Len(runs)
  <2>0. /\ Row(runs[q]) /\ runs[q].status \in Status /\ Total(q) \in Nat \ {0}
        /\ runs[q].state \in [1 .. Total(q) -> StepState]
        /\ proposal[q] \in [1 .. Total(q) -> Outcome]
    BY DEF RowsOK
  <2>1. CASE q = r
    BY <1>4, <1>5, <1>6, <1>8, <2>0, <2>1
  <2>2. CASE q # r
    BY <1>1, <1>5, <1>6, <1>8, <2>0, <2>2
  <2> QED
    BY <2>1, <2>2
<1>10. RowsOK'
  BY <1>1, <1>5, <1>6, <1>9 DEF RowsOK
<1> QED
  BY <1>1, <1>4, <1>5, <1>6, <1>7, <1>8, <1>10

(* What the invariant says of the runs nobody rewrote, when the copies of  *)
(* those runs are what they were or are given up, and none is taken up.    *)
LEMMA OtherRuns ==
    ASSUME NEW q \in 1 .. Len(runs), RunOK(q), q \notin contested => AloneOK(q),
           runs'[q] = runs[q], proposal'[q] = proposal[q], contested \subseteq contested',
           \A f \in Executors : Holds(f, q)' => Holds(f, q) /\ exec'[f] = exec[f]
    PROVE  RunOK(q)' /\ (q \notin contested' => AloneOK(q)')
<1>1. Total(q)' = Total(q)
  BY DEF Total
<1>2. RunOK(q)'
  BY <1>1 DEF RunOK
<1>3. ASSUME q \notin contested'
      PROVE  AloneOK(q)'
  <2>1. AloneOK(q) /\ q \notin contested
    BY <1>3
  <2>2. \A i \in 1 .. Total(q) : StoppedAt(q, i) => StoppedAt(q, i)'
    BY <1>1 DEF StoppedAt
  <2> QED
    BY <1>1, <2>1, <2>2 DEF AloneOK
<1> QED
  BY <1>2, <1>3

(* No run opens beside another: an open run of a plane was open before.    *)
LEMMA NoneOpened ==
    ASSUME List(runs), List(runs)', OneOpenRun, Len(runs)' = Len(runs),
           contested \subseteq contested',
           \A q \in 1 .. Len(runs) :
              /\ runs'[q].plane = runs[q].plane
              /\ q \notin contested' /\ runs'[q].status \in OpenStatus
                 => runs[q].status \in OpenStatus
    PROVE  OneOpenRun'
<1>1. DOMAIN runs = 1 .. Len(runs) /\ DOMAIN runs' = 1 .. Len(runs)
  BY ListElements
<1> QED
  BY <1>1 DEF OneOpenRun
LEMMA RowParts ==
    ASSUME NEW x, Row(x), NEW a
    PROVE  [x EXCEPT !.state = a].status = x.status /\ [x EXCEPT !.state = x.state] = x
<1>1. PICK pl, st, sp, sa, re, fo :
        x = [plane |-> pl, status |-> st, steps |-> sp, state |-> sa, resumed |-> re, found |-> fo]
  BY DEF Row
<1> QED
  BY <1>1

-----------------------------------------------------------------------------
LEMMA OffIsCopy == Off \in Copy /\ CopyOK(Off)
<1>1. <<>> \in Seq(StepState)
  BY EmptySeq
<1> QED
  BY <1>1 DEF Off, Copy, CopyOK, Status, OpenStatus

LEMMA NothingPlanned == MaintenanceInit => MaintenanceInv
<1> SUFFICES ASSUME MaintenanceInit PROVE MaintenanceInv
  OBVIOUS
<1>1. runs = <<>> /\ proposal = <<>> /\ exec = [e \in Executors |-> Off]
  BY DEF MaintenanceInit
<1>2. <<>> \in [1 .. 0 -> {}]
  BY EmptySeq, LenProperties
<1>3. List(<<>>) /\ Len(<<>>) = 0 /\ DOMAIN <<>> = {}
  BY <1>2, FunctionIsList
<1>4. RowsOK
  BY <1>1, <1>3 DEF RowsOK
<1>5. exec \in [Executors -> Copy] /\ \A e \in Executors : CopyOK(exec[e])
  BY <1>1, OffIsCopy
<1>6. OneOpenRun
  BY <1>1, <1>3 DEF OneOpenRun
<1> QED
  BY <1>1, <1>3, <1>4, <1>5, <1>6 DEF MaintenanceInv

(* A process moves on with the copy it has, or drops it; the ledger is as  *)
(* it was.                                                                 *)
LEMMA ExecutorMoves ==
    ASSUME MaintenanceInv, NEW e \in Executors, NEW x \in Copy, CopyOK(x),
           exec' = [exec EXCEPT ![e] = x], UNCHANGED <<runs, proposal, contested>>,
           x.pc # "off" => /\ exec[e].pc # "off" /\ x.run = exec[e].run
                           /\ x.state = exec[e].state
    PROVE  MaintenanceInv'
<1>1. exec \in [Executors -> Copy]
  BY DEF MaintenanceInv
<1>2. exec' \in [Executors -> Copy] /\ exec'[e] = x
  BY <1>1
<1>3. \A f \in Executors : f # e => exec'[f] = exec[f]
  BY <1>1
<1>4. \A f \in Executors : CopyOK(exec[f])'
  <2>1. \A f \in Executors : CopyOK(exec'[f])
    BY <1>2, <1>3 DEF MaintenanceInv
  <2> QED
    BY <2>1 DEF CopyOK, Total
<1>5. \A q, f : f \in Executors /\ Holds(f, q)' =>
         Holds(f, q) /\ exec'[f].state = exec[f].state
  BY <1>2, <1>3 DEF Holds
<1>6. RowsOK' /\ OneOpenRun'
  BY DEF MaintenanceInv, RowsOK, OneOpenRun, List, Row, Total
<1>7. ASSUME NEW q \in 1 .. Len(runs)
      PROVE  RunOK(q)' /\ (q \notin contested => AloneOK(q)')
  <2>1. RunOK(q) /\ (q \notin contested => AloneOK(q))
    BY DEF MaintenanceInv
  <2>2. Total(q)' = Total(q) /\ \A i : StoppedAt(q, i)' <=> StoppedAt(q, i)
    BY DEF Total, StoppedAt
  <2>3. RunOK(q)'
    BY <2>1, <2>2 DEF RunOK
  <2>4. ASSUME AloneOK(q) PROVE AloneOK(q)'
    BY <1>5, <2>2, <2>4 DEF AloneOK
  <2> QED
    BY <2>1, <2>3, <2>4
<1> QED
  BY <1>2, <1>4, <1>6, <1>7 DEF MaintenanceInv

(* One run rewritten: the other runs and the other copies hold, and so it  *)
(* remains to say what the rewritten run and its writer's copy are.        *)
LEMMA LedgerMoves ==
    ASSUME MaintenanceInv, NEW r \in 1 .. Len(runs), NEW a \in [1 .. Total(r) -> StepState],
           NEW b \in Status, NEW p \in [1 .. Total(r) -> Outcome], Rewrites(r, a, b, p),
           exec' \in [Executors -> Copy], contested \subseteq contested',
           \A j \in 1 .. Total(r) : proposal[r][j] = "executed" => p[j] = "executed",
           \A f \in Executors : exec'[f] = exec[f] \/ CopyOK(exec[f])',
           \A q \in 1 .. Len(runs), f \in Executors :
              q # r /\ Holds(f, q)' => Holds(f, q) /\ exec'[f] = exec[f],
           r \notin contested' /\ b \in OpenStatus => runs[r].status \in OpenStatus,
           RunOK(r)', r \notin contested' => AloneOK(r)'
    PROVE  MaintenanceInv'
<1>1. /\ RowsOK' /\ Len(runs)' = Len(runs)
      /\ runs'[r].state = a /\ runs'[r].status = b /\ proposal'[r] = p
      /\ \A q \in 1 .. Len(runs) : /\ runs'[q].plane = runs[q].plane
                                   /\ Total(q)' = Total(q)
      /\ \A q \in 1 .. Len(runs) : q # r => /\ runs'[q] = runs[q]
                                            /\ proposal'[q] = proposal[q]
  BY RunRewritten DEF MaintenanceInv
<1>2. ASSUME NEW f \in Executors, exec'[f] = exec[f]
      PROVE  CopyOK(exec[f])'
  <2>1. CopyOK(exec[f])
    BY DEF MaintenanceInv
  <2>2. \A q \in 1 .. Len(runs) : \A j \in 1 .. Total(q) :
           proposal[q][j] = "executed" => proposal'[q][j] = "executed"
    BY <1>1
  <2> QED
    BY <1>1, <1>2, <2>1, <2>2 DEF CopyOK
<1>3. ASSUME NEW q \in 1 .. Len(runs)
      PROVE  RunOK(q)' /\ (q \notin contested' => AloneOK(q)')
  <2>1. CASE q = r
    BY <2>1
  <2>2. CASE q # r
    <3>1. RunOK(q) /\ (q \notin contested => AloneOK(q))
      BY DEF MaintenanceInv
    <3>2. runs'[q] = runs[q] /\ proposal'[q] = proposal[q]
      BY <1>1, <2>2
    <3>3. \A f \in Executors : Holds(f, q)' => Holds(f, q) /\ exec'[f] = exec[f]
      BY <2>2
    <3> QED
      BY <3>1, <3>2, <3>3, OtherRuns
  <2> QED
    BY <2>1, <2>2
<1>4. OneOpenRun'
  <2>1. \A q \in 1 .. Len(runs) :
           q \notin contested' /\ runs'[q].status \in OpenStatus
           => runs[q].status \in OpenStatus
    BY <1>1
  <2>2. List(runs) /\ List(runs)' /\ OneOpenRun
    BY <1>1 DEF MaintenanceInv, RowsOK
  <2> QED
    BY <1>1, <2>1, <2>2, NoneOpened
<1> QED
  BY <1>1, <1>2, <1>3, <1>4 DEF MaintenanceInv
-----------------------------------------------------------------------------
(* What is known of the copy of a process at work.                         *)
LEMMA CopyAtWork ==
    ASSUME MaintenanceInv, NEW e \in Executors, exec[e].pc # "off"
    PROVE  /\ exec[e] \in Copy /\ CopyOK(exec[e])
           /\ exec[e].run \in 1 .. Len(runs) /\ Total(exec[e].run) \in Nat \ {0}
           /\ exec[e].state \in [1 .. Total(exec[e].run) -> {"planned", "succeeded"}]
           /\ Len(exec[e].state) = Total(exec[e].run)
<1>1. exec[e] \in Copy /\ CopyOK(exec[e])
  BY DEF MaintenanceInv
<1>2. exec[e].run \in 1 .. Len(runs)
      /\ exec[e].state \in [1 .. Total(exec[e].run) -> {"planned", "succeeded"}]
  BY <1>1 DEF CopyOK
<1>3. Total(exec[e].run) \in Nat \ {0}
  BY <1>2 DEF MaintenanceInv, RowsOK
<1> QED
  BY <1>1, <1>2, <1>3, ListLength

LEMMA StartKeeps ==
    ASSUME MaintenanceInv, NEW e \in Executors, Start(e)
    PROVE  MaintenanceInv'
<1> DEFINE x == [[[exec[e] EXCEPT !.pc = "next"] EXCEPT !.i = 1] EXCEPT !.status = "running"]
<1>1. exec \in [Executors -> Copy] /\ exec[e].pc = "asking"
  BY DEF MaintenanceInv, Start
<1>2. /\ exec[e] \in Copy /\ CopyOK(exec[e])
      /\ Total(exec[e].run) \in Nat \ {0}
  BY <1>1, CopyAtWork
<1>3. x \in Copy /\ x.pc = "next" /\ x.i = 1 /\ x.run = exec[e].run /\ x.state = exec[e].state
  BY <1>2 DEF Copy, Status, OpenStatus
<1>4. exec' = [exec EXCEPT ![e] = x] /\ UNCHANGED <<runs, proposal, contested>>
  BY <1>1 DEF Start
<1> HIDE DEF x
<1>5. CopyOK(x)
  BY <1>1, <1>2, <1>3 DEF CopyOK
<1> QED
  BY <1>1, <1>3, <1>4, <1>5, ExecutorMoves

LEMMA TakeKeeps ==
    ASSUME MaintenanceInv, NEW e \in Executors, Take(e)
    PROVE  MaintenanceInv'
<1>1. exec \in [Executors -> Copy] /\ exec[e].pc = "next" /\ exec[e].i <= Len(exec[e].state)
  BY DEF MaintenanceInv, Take
<1>2. /\ exec[e] \in Copy /\ CopyOK(exec[e]) /\ Total(exec[e].run) \in Nat \ {0}
      /\ exec[e].state \in [1 .. Total(exec[e].run) -> {"planned", "succeeded"}]
      /\ Len(exec[e].state) = Total(exec[e].run)
  BY <1>1, CopyAtWork
<1>3. /\ exec[e].i \in 1 .. Total(exec[e].run)
      /\ \A j \in 1 .. Total(exec[e].run) : j < exec[e].i => exec[e].state[j] = "succeeded"
  BY <1>1, <1>2 DEF CopyOK
<1>4. UNCHANGED <<runs, proposal, contested>>
  BY DEF Take
<1> DEFINE x == [exec[e] EXCEPT !.i = exec[e].i + 1]
           y == [exec[e] EXCEPT !.pc = "acting"]
           z == [exec[e] EXCEPT !.pc = "acted", !.result = "failed"]
<1>5. /\ x \in Copy /\ x.pc = "next" /\ x.i = exec[e].i + 1 /\ x.run = exec[e].run
      /\ x.state = exec[e].state
  <2>1. exec[e].i + 1 \in Nat
    BY <1>2 DEF Copy
  <2> QED
    BY <1>1, <1>2, <2>1 DEF Copy
<1>6. /\ y \in Copy /\ y.pc = "acting" /\ y.i = exec[e].i /\ y.run = exec[e].run
      /\ y.state = exec[e].state
  BY <1>1, <1>2 DEF Copy
<1>7. /\ z \in Copy /\ z.pc = "acted" /\ z.i = exec[e].i /\ z.run = exec[e].run
      /\ z.state = exec[e].state
  BY <1>1, <1>2 DEF Copy
<1>8. \/ exec[e].state[exec[e].i] = "succeeded" /\ exec' = [exec EXCEPT ![e] = x]
      \/ exec[e].state[exec[e].i] # "succeeded" /\ exec' = [exec EXCEPT ![e] = y]
      \/ exec[e].state[exec[e].i] # "succeeded" /\ exec' = [exec EXCEPT ![e] = z]
  <2>1. PICK healthy \in BOOLEAN :
           exec' = [exec EXCEPT ![e] =
                    IF exec[e].state[exec[e].i] = "succeeded" THEN x
                    ELSE IF healthy /\ proposal[exec[e].run][exec[e].i] = "pending" THEN y ELSE z]
    BY DEF Take
  <2> QED
    BY <2>1
<1> HIDE DEF x, y, z
<1>9. CASE exec[e].state[exec[e].i] = "succeeded" /\ exec' = [exec EXCEPT ![e] = x]
  <2>1. CopyOK(x)
    BY <1>1, <1>2, <1>3, <1>5, <1>9 DEF CopyOK
  <2> QED
    BY <1>1, <1>4, <1>5, <1>9, <2>1, ExecutorMoves
<1>10. CASE exec[e].state[exec[e].i] # "succeeded" /\ exec' = [exec EXCEPT ![e] = y]
  <2>1. CopyOK(y)
    BY <1>1, <1>2, <1>3, <1>6, <1>10 DEF CopyOK
  <2> QED
    BY <1>1, <1>4, <1>6, <1>10, <2>1, ExecutorMoves
<1>11. CASE exec[e].state[exec[e].i] # "succeeded" /\ exec' = [exec EXCEPT ![e] = z]
  <2>1. CopyOK(z)
    BY <1>1, <1>2, <1>3, <1>7, <1>11 DEF CopyOK
  <2> QED
    BY <1>1, <1>4, <1>7, <1>11, <2>1, ExecutorMoves
<1> QED
  BY <1>8, <1>9, <1>10, <1>11

LEMMA ActKeeps ==
    ASSUME MaintenanceInv, NEW e \in Executors, Act(e)
    PROVE  MaintenanceInv'
<1>1. exec \in [Executors -> Copy] /\ exec[e].pc = "acting"
  BY DEF MaintenanceInv, Act
<1>2. exec[e] \in Copy /\ CopyOK(exec[e])
  BY <1>1, CopyAtWork
<1> DEFINE X(b) == [[exec[e] EXCEPT !.pc = "acted"] EXCEPT !.result = b]
<1>3. PICK b \in {"succeeded", "failed"} : exec' = [exec EXCEPT ![e] = X(b)]
  BY <1>1 DEF Act
<1>4. UNCHANGED <<runs, proposal, contested>>
  BY DEF Act
<1>5. /\ X(b) \in Copy /\ X(b).pc = "acted" /\ X(b).i = exec[e].i
      /\ X(b).run = exec[e].run /\ X(b).state = exec[e].state
  BY <1>2 DEF Copy
<1> HIDE DEF X
<1>6. CopyOK(X(b))
  BY <1>1, <1>2, <1>5 DEF CopyOK
<1> QED
  BY <1>1, <1>3, <1>4, <1>5, <1>6, ExecutorMoves

LEMMA CrashKeeps ==
    ASSUME MaintenanceInv, NEW e \in Executors, Crash(e)
    PROVE  MaintenanceInv'
<1>1. exec' = [exec EXCEPT ![e] = Off] /\ UNCHANGED <<runs, proposal, contested>>
  BY DEF Crash
<1> QED
  BY <1>1, OffIsCopy, ExecutorMoves DEF Off

(* A run loaded by a second process is contested from then on.             *)
LEMMA LoadKeeps ==
    ASSUME MaintenanceInv, NEW e \in Executors, NEW r \in DOMAIN runs, Load(e, r)
    PROVE  MaintenanceInv'
<1> DEFINE t == [Off EXCEPT !.pc = "asking"]
           u == [t EXCEPT !.run = r]
           v == [u EXCEPT !.status = runs[r].status]
           x == [v EXCEPT !.state = runs[r].state]
<1>1. exec \in [Executors -> Copy] /\ exec[e].pc = "off" /\ runs[r].status \in OpenStatus
  BY DEF MaintenanceInv, Load
<1>2. DOMAIN runs = 1 .. Len(runs) /\ r \in 1 .. Len(runs) /\ Len(runs) \in Nat
  BY ListElements DEF MaintenanceInv, RowsOK, List
<1>3. runs[r].status \in Status /\ runs[r].state \in [1 .. Total(r) -> StepState]
      /\ Total(r) \in Nat \ {0}
  BY <1>2 DEF MaintenanceInv, RowsOK
<1>4. runs[r].state \in Seq(StepState)
  BY <1>3, ListLength
<1>5. x \in Copy /\ x.pc = "asking" /\ x.run = r /\ x.state = runs[r].state
  <2>1. x = [pc |-> "asking", run |-> r, i |-> 0, status |-> runs[r].status,
             state |-> runs[r].state, result |-> "none"]
    <3>1. t = [pc |-> "asking", run |-> NoRun, i |-> 0,
             status |-> "planned", state |-> <<>>, result |-> "none"]
      BY DEF Off
    <3> HIDE DEF t
    <3>2. u = [pc |-> "asking", run |-> r, i |-> 0,
             status |-> "planned", state |-> <<>>, result |-> "none"]
      BY <3>1
    <3> HIDE DEF u
    <3>3. v = [pc |-> "asking", run |-> r, i |-> 0, status |-> runs[r].status,
               state |-> <<>>, result |-> "none"]
      BY <3>2
    <3> HIDE DEF v
    <3> QED
      BY <3>3
  <2> HIDE DEF x
  <2> QED
    BY <1>2, <1>3, <1>4, <2>1 DEF Copy
<1>6. exec' = [exec EXCEPT ![e] = x] /\ UNCHANGED <<runs, proposal>>
  BY Zenon DEF Load
<1> HIDE DEF x
<1>7. RunOK(r) /\ \A j \in 1 .. Total(r) : runs[r].state[j] \in {"planned", "succeeded"}
  BY <1>1, <1>2 DEF MaintenanceInv, RunOK
<1>8. CopyOK(x)
  BY <1>2, <1>3, <1>5, <1>7 DEF CopyOK, RunOK
<1>9. exec' \in [Executors -> Copy] /\ exec'[e] = x
      /\ \A f \in Executors : f # e => exec'[f] = exec[f]
  BY <1>1, <1>5, <1>6
<1>10. \A f \in Executors : CopyOK(exec[f])'
  <2>1. \A f \in Executors : CopyOK(exec'[f])
    BY <1>8, <1>9 DEF MaintenanceInv
  <2> QED
    BY <1>6, <2>1 DEF CopyOK, Total
<1>11. /\ contested \subseteq contested'
       /\ r \notin contested' => \A f \in Executors : ~ Holds(f, r)
  BY DEF Load, Holds
<1>12. RowsOK' /\ OneOpenRun'
  <2>1. RowsOK' /\ OneOpenRun
    BY <1>6 DEF MaintenanceInv, RowsOK, List, Row, Total
  <2> QED
    BY <1>6, <1>11, <2>1 DEF OneOpenRun
<1>13. ASSUME NEW q \in 1 .. Len(runs)
       PROVE  RunOK(q)' /\ (q \notin contested' => AloneOK(q)')
  <2>1. RunOK(q) /\ (q \notin contested => AloneOK(q))
    BY DEF MaintenanceInv
  <2>2. Total(q)' = Total(q) /\ \A i : StoppedAt(q, i)' <=> StoppedAt(q, i)
    BY <1>6 DEF Total, StoppedAt
  <2>3. RunOK(q)'
    BY <1>6, <2>1, <2>2 DEF RunOK
  <2>4. ASSUME q \notin contested'
        PROVE  AloneOK(q)'
    <3>1. AloneOK(q)
      BY <1>11, <2>1, <2>4
    <3>2. CASE q = r
      <4>1. \A f \in Executors : Holds(f, q)' => f = e
        BY <1>9, <1>11, <2>4, <3>2 DEF Holds
      <4>2. exec'[e].state = runs'[q].state /\ runs'[q].status \in OpenStatus
        BY <1>1, <1>5, <1>6, <1>9, <3>2
      <4> QED
        BY <1>6, <2>2, <3>1, <4>1, <4>2 DEF AloneOK
    <3>3. CASE q # r
      <4>1. \A f \in Executors : Holds(f, q)' => Holds(f, q) /\ exec'[f] = exec[f]
        BY <1>5, <1>9, <3>3 DEF Holds
      <4> QED
        BY <1>6, <2>2, <3>1, <4>1 DEF AloneOK
    <3> QED
      BY <3>2, <3>3
  <2> QED
    BY <2>3, <2>4
<1> QED
  BY <1>6, <1>9, <1>10, <1>12, <1>13 DEF MaintenanceInv
-----------------------------------------------------------------------------
LEMMA CommitStepKeeps ==
    ASSUME MaintenanceInv, NEW e \in Executors, CommitStep(e)
    PROVE  MaintenanceInv'
<1> PICK r : r = exec[e].run
  OBVIOUS
<1> PICK i : i = exec[e].i
  OBVIOUS
<1> PICK n : n = Total(r)
  OBVIOUS
<1> DEFINE a == [exec[e].state EXCEPT ![i] = "succeeded"]
           b == IF writer = e THEN "running" ELSE runs[r].status
           p == [proposal[r] EXCEPT ![i] = "executed"]
           x == [exec[e] EXCEPT !.pc = "next", !.i = exec[e].i + 1, !.state = a]
<1>1. /\ exec \in [Executors -> Copy] /\ exec[e].pc = "acted"
      /\ runs' = [runs EXCEPT ![r].state = a, ![r].status = IF writer = e THEN "running" ELSE @]
      /\ proposal' = [proposal EXCEPT ![r][i] = "executed"]
      /\ exec' = [exec EXCEPT ![e].pc = "next", ![e].i = @ + 1, ![e].state = a]
      /\ contested' = contested
  BY DEF MaintenanceInv, CommitStep
<1>2. /\ exec[e] \in Copy /\ CopyOK(exec[e]) /\ r \in 1 .. Len(runs) /\ n \in Nat \ {0}
      /\ exec[e].state \in [1 .. n -> {"planned", "succeeded"}]
  BY <1>1, CopyAtWork
<1>3. /\ i \in 1 .. n /\ exec[e].state[i] = "planned"
      /\ \A j \in 1 .. n : j < i => exec[e].state[j] = "succeeded"
      /\ \A j \in 1 .. n : exec[e].state[j] = "succeeded" => proposal[r][j] = "executed"
  BY <1>1, <1>2 DEF CopyOK
<1>4. /\ List(runs) /\ List(proposal) /\ Len(proposal) = Len(runs) /\ Row(runs[r])
      /\ runs[r].status \in Status /\ runs[r].state \in [1 .. n -> StepState]
      /\ proposal[r] \in [1 .. n -> Outcome]
  BY <1>2 DEF MaintenanceInv, RowsOK
<1>5. /\ a \in [1 .. n -> {"planned", "succeeded"}] /\ a[i] = "succeeded"
      /\ \A j \in 1 .. n : j # i => a[j] = exec[e].state[j]
  BY <1>2, <1>3
<1>6. /\ p \in [1 .. n -> Outcome] /\ p[i] = "executed"
      /\ \A j \in 1 .. n : j # i => p[j] = proposal[r][j]
  BY <1>3, <1>4 DEF Outcome
<1>7. b \in Status
  BY <1>4 DEF Status, OpenStatus
<1>8. a \in [1 .. n -> StepState] /\ a \in Seq(StepState)
  <2>1. a \in [1 .. n -> StepState]
    BY <1>5 DEF StepState
  <2> QED
    BY <1>2, <2>1, ListLength
<1>9. /\ x \in Copy /\ x.pc = "next" /\ x.i = i + 1 /\ x.run = r /\ x.state = a
  <2>1. i + 1 \in Nat
    BY <1>3
  <2> HIDE DEF a
  <2> QED
    BY <1>2, <1>8, <2>1 DEF Copy
<1>a. exec \in [Executors -> Copy]
  BY <1>1
<1>10. /\ exec' = [exec EXCEPT ![e] = x] /\ exec' \in [Executors -> Copy] /\ exec'[e] = x
       /\ \A f \in Executors : f # e => exec'[f] = exec[f]
  <2>1. exec' = [exec EXCEPT ![e] = x]
    BY <1>1, <1>2
  <2> HIDE DEF x
  <2> QED
    BY <1>a, <1>9, <2>1
<1> HIDE DEF x, a
<1>11. Rewrites(r, a, b, p)
  <2>1. DOMAIN proposal = 1 .. Len(runs)
    BY <1>4, ListElements
  <2>2. proposal' = Put(proposal, r, p)
    BY <1>1, <1>2, <2>1 DEF Put
  <2>3. DOMAIN runs = 1 .. Len(runs) /\ [runs[r] EXCEPT !.state = a].status = runs[r].status
    BY <1>4, ListElements, RowParts
  <2>4. runs' = Put(runs, r, Rewritten(runs[r], a, b))
    BY <1>1, <1>2, <2>3 DEF Put, Rewritten
  <2> QED
    BY <2>2, <2>4 DEF Rewrites
<1> HIDE DEF p, b
<1>12. /\ RowsOK' /\ Len(runs)' = Len(runs)
       /\ runs'[r].state = a /\ runs'[r].status = b /\ proposal'[r] = p
       /\ Total(r)' = n /\ \A q \in 1 .. Len(runs) : Total(q)' = Total(q)
  BY <1>2, <1>6, <1>7, <1>8, <1>11, RunRewritten DEF MaintenanceInv
<1>13. CopyOK(exec[e])'
  <2>1. i + 1 \in 1 .. n + 1
    BY <1>2, <1>3
  <2>2. \A j \in 1 .. n : a[j] = "succeeded" => p[j] = "executed"
    BY <1>3, <1>5, <1>6
  <2>3. \A j \in 1 .. n : j < i + 1 => j < i \/ j = i
    BY <1>2, <1>3
  <2>4. \A j \in 1 .. n : j < i + 1 => a[j] = "succeeded"
    BY <1>3, <1>5, <2>3
  <2> QED
    BY <1>2, <1>5, <1>9, <1>10, <1>12, <2>1, <2>2, <2>4 DEF CopyOK
<1>14. b \in OpenStatus \/ b = runs[r].status
  BY DEF b, OpenStatus
<1>15. RunOK(r)'
  <2>1. RunOK(r)
    BY <1>2 DEF MaintenanceInv
  <2>2. b = "aborted" => runs[r].status = "aborted"
    BY DEF b
  <2>3. \A j \in 1 .. n : a[j] = "succeeded" => p[j] = "executed"
    BY <1>3, <1>5, <1>6
  <2>4. b = "aborted" => \A j \in 1 .. n : p[j] # "pending"
    BY <1>6, <2>1, <2>2 DEF RunOK
  <2> QED
    BY <1>5, <1>12, <2>3, <2>4 DEF RunOK
<1>16. ASSUME r \notin contested'
       PROVE  AloneOK(r)' /\ runs[r].status \in OpenStatus
  <2>1. AloneOK(r) /\ Holds(e, r)
    BY <1>1, <1>2, <1>16 DEF MaintenanceInv, Holds
  <2>2. exec[e].state = runs[r].state /\ runs[r].status \in OpenStatus
    BY <2>1 DEF AloneOK
  <2>3. b \in OpenStatus
    BY <1>14, <2>2
  <2>4. \A f \in Executors : Holds(f, r)' => f = e
    BY <1>10, <2>1 DEF AloneOK, Holds
  <2>5. /\ \A j \in 1 .. n : a[j] = "planned" => p[j] = "pending"
        /\ \A j, k \in 1 .. n : j < k /\ a[k] = "succeeded" => a[j] = "succeeded"
    BY <1>3, <1>5, <1>6, <2>1, <2>2 DEF AloneOK
  <2>6. b # "succeeded" /\ b # "failed"
    BY <2>3 DEF OpenStatus
  <2>7. exec'[e].state = runs'[r].state /\ runs'[r].status \in OpenStatus
    BY <1>9, <1>10, <1>12, <2>3
  <2> QED
    BY <1>12, <2>2, <2>3, <2>4, <2>5, <2>6, <2>7 DEF AloneOK
<1>17. \A q \in 1 .. Len(runs), f \in Executors :
          q # r /\ Holds(f, q)' => Holds(f, q) /\ exec'[f] = exec[f]
  BY <1>9, <1>10 DEF Holds
<1>18. \A f \in Executors : exec'[f] = exec[f] \/ CopyOK(exec[f])'
  BY <1>10, <1>13
<1>19. \A j \in 1 .. n : proposal[r][j] = "executed" => p[j] = "executed"
  BY <1>6
<1> QED
  BY <1>1, <1>2, <1>6, <1>7, <1>8, <1>10, <1>11, <1>15, <1>16, <1>17, <1>18, <1>19, LedgerMoves
LEMMA StopRunKeeps ==
    ASSUME MaintenanceInv, NEW e \in Executors, StopRun(e)
    PROVE  MaintenanceInv'
<1> PICK r : r = exec[e].run
  OBVIOUS
<1> PICK i : i = exec[e].i
  OBVIOUS
<1> PICK n : n = Total(r)
  OBVIOUS
<1> DEFINE c == exec[e].state
           a == SkipFrom([c EXCEPT ![i] = "failed"], i + 1)
           p == RejectFrom(proposal[r], c, i + 1)
<1>1. exec \in [Executors -> Copy] /\ exec[e].pc = "acted"
  BY DEF MaintenanceInv, StopRun
<1>2. /\ runs' = [runs EXCEPT ![r].state = a, ![r].status = "failed"]
      /\ proposal' = [proposal EXCEPT ![r] = p]
      /\ exec' = [exec EXCEPT ![e] = Off] /\ contested' = contested
  BY DEF StopRun
<1>3. /\ CopyOK(exec[e]) /\ r \in 1 .. Len(runs) /\ n \in Nat \ {0}
      /\ c \in [1 .. n -> {"planned", "succeeded"}]
  BY <1>1, CopyAtWork
<1>4. /\ i \in 1 .. n /\ c[i] = "planned"
      /\ \A j \in 1 .. n : j < i => c[j] = "succeeded"
      /\ \A j \in 1 .. n : c[j] = "succeeded" => proposal[r][j] = "executed"
  BY <1>1, <1>3 DEF CopyOK
<1>5. /\ List(runs) /\ List(proposal) /\ Len(proposal) = Len(runs) /\ Row(runs[r])
      /\ proposal[r] \in [1 .. n -> Outcome]
  BY <1>3 DEF MaintenanceInv, RowsOK
<1> HIDE DEF c
<1>6. /\ a \in [1 .. n -> StepState] /\ a[i] = "failed"
      /\ \A j \in 1 .. n : j < i => a[j] = c[j]
      /\ \A j \in 1 .. n : j > i => a[j] = IF c[j] = "planned" THEN "skipped" ELSE c[j]
  BY <1>3, <1>4 DEF SkipFrom, StepState
<1>7. /\ p \in [1 .. n -> Outcome]
      /\ \A j \in 1 .. n : p[j] = IF j > i /\ c[j] = "planned" /\ proposal[r][j] = "pending"
                                  THEN "rejected" ELSE proposal[r][j]
  BY <1>3, <1>4, <1>5 DEF RejectFrom, Outcome
<1> HIDE DEF a, p
<1>8. Rewrites(r, a, "failed", p)
  <2>1. DOMAIN proposal = 1 .. Len(runs) /\ DOMAIN runs = 1 .. Len(runs)
    BY <1>5, ListElements
  <2> QED
    BY <1>2, <1>3, <2>1 DEF Put, Rewritten, Rewrites
<1>9. "failed" \in Status
  BY DEF Status
<1>10. /\ runs'[r].state = a /\ runs'[r].status = "failed" /\ proposal'[r] = p
       /\ Total(r)' = n
  <2>1. RowsOK /\ n = Total(r)
    BY DEF MaintenanceInv
  <2>2. /\ r \in 1 .. Len(runs) /\ a \in [1 .. Total(r) -> StepState]
        /\ p \in [1 .. Total(r) -> Outcome] /\ "failed" \in Status
        /\ Rewrites(r, a, "failed", p)
    BY <1>3, <1>6, <1>7, <1>8, <1>9
  <2>3. /\ runs'[r].state = a /\ runs'[r].status = "failed" /\ proposal'[r] = p
        /\ Total(r)' = Total(r)
    BY <2>1, <2>2, RunRewritten
  <2> QED
    BY <2>1, <2>3
<1>11. /\ exec' \in [Executors -> Copy] /\ exec'[e] = Off
       /\ \A f \in Executors : f # e => exec'[f] = exec[f]
  BY <1>1, <1>2, OffIsCopy
<1>12. CopyOK(exec[e])'
  BY <1>11 DEF CopyOK, Off
<1>13. RunOK(r)'
  <2>1. \A j \in 1 .. n : a[j] = "succeeded" => p[j] = "executed"
    BY <1>3, <1>4, <1>6, <1>7
  <2> QED
    BY <1>10, <2>1 DEF RunOK, OpenStatus
<1>14. ASSUME r \notin contested'
       PROVE  AloneOK(r)'
  <2>1. AloneOK(r) /\ Holds(e, r)
    BY <1>1, <1>2, <1>3, <1>14 DEF MaintenanceInv, Holds
  <2>2. c = runs[r].state /\ runs[r].status \in OpenStatus
    BY <2>1 DEF AloneOK, c
  <2>3. /\ \A j \in 1 .. n : c[j] = "planned" => proposal[r][j] = "pending"
        /\ \A j \in 1 .. n : j > i => c[j] = "planned"
    <3>1. \A j \in 1 .. n :
             /\ c[j] = "planned" => proposal[r][j] = "pending"
             /\ \A k \in 1 .. n : j < k /\ c[k] = "succeeded" => c[j] = "succeeded"
      BY <2>1, <2>2 DEF AloneOK
    <3>2. ASSUME NEW j \in 1 .. n, j > i
          PROVE  c[j] # "succeeded"
      BY <1>3, <1>4, <3>1, <3>2
    <3> QED
      BY <1>3, <3>1, <3>2
  <2>4. StoppedAt(r, i)'
    BY <1>3, <1>4, <1>6, <1>7, <1>10, <2>3 DEF StoppedAt
  <2>5. \A f \in Executors : ~ Holds(f, r)'
    BY <1>11, <2>1 DEF AloneOK, Holds, Off
  <2> QED
    BY <1>4, <1>10, <2>4, <2>5 DEF AloneOK, OpenStatus
<1>15. \A q \in 1 .. Len(runs), f \in Executors :
          q # r /\ Holds(f, q)' => Holds(f, q) /\ exec'[f] = exec[f]
  BY <1>11 DEF Holds, Off
<1>16. \A f \in Executors : exec'[f] = exec[f] \/ CopyOK(exec[f])'
  BY <1>11, <1>12
<1>17. \A j \in 1 .. n : proposal[r][j] = "executed" => p[j] = "executed"
  BY <1>7
<1>18. "failed" \notin OpenStatus
  BY DEF OpenStatus
<1> QED
  BY <1>2, <1>3, <1>6, <1>7, <1>8, <1>9, <1>11, <1>13, <1>14, <1>15, <1>16, <1>17, <1>18,
     LedgerMoves

LEMMA FinishKeeps ==
    ASSUME MaintenanceInv, NEW e \in Executors, Finish(e)
    PROVE  MaintenanceInv'
<1> PICK r : r = exec[e].run
  OBVIOUS
<1> PICK n : n = Total(r)
  OBVIOUS
<1> PICK a : a = runs[r].state
  OBVIOUS
<1> PICK p : p = proposal[r]
  OBVIOUS
<1>1. exec \in [Executors -> Copy] /\ exec[e].pc = "next" /\ exec[e].i > Len(exec[e].state)
  BY DEF MaintenanceInv, Finish
<1>2. /\ runs' = [runs EXCEPT ![r].status = "succeeded"] /\ proposal' = proposal
      /\ exec' = [exec EXCEPT ![e] = Off] /\ contested' = contested
  BY DEF Finish
<1>3. /\ CopyOK(exec[e]) /\ r \in 1 .. Len(runs) /\ n \in Nat \ {0}
      /\ Len(exec[e].state) = n
  BY <1>1, CopyAtWork
<1>4. \A j \in 1 .. n : exec[e].state[j] = "succeeded"
  <2>1. /\ exec[e].i \in 1 .. n + 1
        /\ \A j \in 1 .. n : j < exec[e].i => exec[e].state[j] = "succeeded"
    BY <1>1, <1>3 DEF CopyOK
  <2> QED
    BY <1>1, <1>3, <2>1
<1>5. /\ List(runs) /\ List(proposal) /\ Len(proposal) = Len(runs) /\ Row(runs[r])
      /\ p \in [1 .. n -> Outcome] /\ a \in [1 .. n -> StepState]
  BY <1>3 DEF MaintenanceInv, RowsOK
<1>6. Rewrites(r, a, "succeeded", p)
  <2>1. DOMAIN proposal = 1 .. Len(runs) /\ DOMAIN runs = 1 .. Len(runs)
    BY <1>5, ListElements
  <2>2. proposal' = Put(proposal, r, p)
    BY <1>2, <1>3, <1>5, <2>1, ListElements DEF Put
  <2>3. [runs[r] EXCEPT !.state = a] = runs[r]
    BY <1>5, RowParts
  <2> QED
    BY <1>2, <1>3, <2>1, <2>2, <2>3 DEF Put, Rewritten, Rewrites
<1>7. "succeeded" \in Status /\ "succeeded" \notin OpenStatus
  BY DEF Status, OpenStatus
<1>8. /\ runs'[r].state = a /\ runs'[r].status = "succeeded" /\ proposal'[r] = p
      /\ Total(r)' = n
  <2>1. RowsOK /\ n = Total(r)
    BY DEF MaintenanceInv
  <2>2. /\ r \in 1 .. Len(runs) /\ a \in [1 .. Total(r) -> StepState]
        /\ p \in [1 .. Total(r) -> Outcome] /\ "succeeded" \in Status
        /\ Rewrites(r, a, "succeeded", p)
    BY <1>3, <1>5, <1>6, <1>7
  <2>3. /\ runs'[r].state = a /\ runs'[r].status = "succeeded" /\ proposal'[r] = p
        /\ Total(r)' = Total(r)
    BY <2>1, <2>2, RunRewritten
  <2> QED
    BY <2>1, <2>3
<1>9. /\ exec' \in [Executors -> Copy] /\ exec'[e] = Off
      /\ \A f \in Executors : f # e => exec'[f] = exec[f]
  BY <1>1, <1>2, OffIsCopy
<1>10. CopyOK(exec[e])'
  BY <1>9 DEF CopyOK, Off
<1>11. RunOK(r)'
  <2>1. RunOK(r)
    BY <1>3 DEF MaintenanceInv
  <2> QED
    BY <1>8, <2>1 DEF RunOK, OpenStatus
<1>12. ASSUME r \notin contested'
       PROVE  AloneOK(r)'
  <2>1. AloneOK(r) /\ Holds(e, r)
    BY <1>1, <1>2, <1>3, <1>12 DEF MaintenanceInv, Holds
  <2>2. exec[e].state = a
    BY <2>1 DEF AloneOK
  <2>3. \A f \in Executors : ~ Holds(f, r)'
    BY <1>9, <2>1 DEF AloneOK, Holds, Off
  <2> QED
    BY <1>4, <1>8, <2>2, <2>3 DEF AloneOK, OpenStatus
<1>13. \A q \in 1 .. Len(runs), f \in Executors :
          q # r /\ Holds(f, q)' => Holds(f, q) /\ exec'[f] = exec[f]
  BY <1>9 DEF Holds, Off
<1>14. \A f \in Executors : exec'[f] = exec[f] \/ CopyOK(exec[f])'
  BY <1>9, <1>10
<1> QED
  BY <1>2, <1>3, <1>5, <1>6, <1>7, <1>9, <1>11, <1>12, <1>13, <1>14, LedgerMoves

LEMMA AbortKeeps ==
    ASSUME MaintenanceInv, NEW r \in DOMAIN runs, Abort(r)
    PROVE  MaintenanceInv'
<1> PICK n : n = Total(r)
  OBVIOUS
<1> DEFINE a == SkipFrom(runs[r].state, 1)
           p == RejectFrom(proposal[r], runs[r].state, 1)
<1>1. /\ List(runs) /\ List(proposal) /\ Len(proposal) = Len(runs)
      /\ DOMAIN runs = 1 .. Len(runs) /\ DOMAIN proposal = 1 .. Len(runs)
  BY ListElements DEF MaintenanceInv, RowsOK
<1>2. /\ r \in 1 .. Len(runs) /\ n \in Nat \ {0} /\ Row(runs[r])
      /\ runs[r].state \in [1 .. n -> StepState] /\ proposal[r] \in [1 .. n -> Outcome]
  BY <1>1 DEF MaintenanceInv, RowsOK
<1>3. /\ runs[r].status \in OpenStatus /\ exec' = exec
      /\ runs' = [runs EXCEPT ![r].state = a, ![r].status = "aborted"]
      /\ proposal' = [proposal EXCEPT ![r] = p]
      /\ contested \subseteq contested'
      /\ r \notin contested' => \A f \in Executors : ~ Holds(f, r)
  BY <1>1 DEF Abort, Holds
<1>4. /\ RunOK(r)
      /\ \A j \in 1 .. n : runs[r].state[j] \in {"planned", "succeeded"}
      /\ \A j \in 1 .. n : runs[r].state[j] = "succeeded" => proposal[r][j] = "executed"
  BY <1>2, <1>3 DEF MaintenanceInv, RunOK
<1>5. /\ a \in [1 .. n -> StepState]
      /\ \A j \in 1 .. n : a[j] = IF runs[r].state[j] = "planned" THEN "skipped"
                                                             ELSE runs[r].state[j]
  BY <1>2 DEF SkipFrom, StepState
<1>6. /\ p \in [1 .. n -> Outcome]
      /\ \A j \in 1 .. n :
            p[j] = IF runs[r].state[j] = "planned" /\ proposal[r][j] = "pending"
                   THEN "rejected" ELSE proposal[r][j]
  BY <1>2 DEF RejectFrom, Outcome
<1> HIDE DEF a, p
<1>7. Rewrites(r, a, "aborted", p)
  BY <1>1, <1>2, <1>3 DEF Put, Rewritten, Rewrites
<1>8. "aborted" \in Status /\ "aborted" \notin OpenStatus
  BY DEF Status, OpenStatus
<1>9. /\ runs'[r].state = a /\ runs'[r].status = "aborted" /\ proposal'[r] = p
      /\ Total(r)' = n
  <2>1. RowsOK /\ n = Total(r)
    BY DEF MaintenanceInv
  <2>2. /\ r \in 1 .. Len(runs) /\ a \in [1 .. Total(r) -> StepState]
        /\ p \in [1 .. Total(r) -> Outcome] /\ "aborted" \in Status
        /\ Rewrites(r, a, "aborted", p)
    BY <1>2, <1>5, <1>6, <1>7, <1>8
  <2>3. /\ runs'[r].state = a /\ runs'[r].status = "aborted" /\ proposal'[r] = p
        /\ Total(r)' = Total(r)
    BY <2>1, <2>2, RunRewritten
  <2> QED
    BY <2>1, <2>3
<1>10. RunOK(r)'
  <2>1. \A j \in 1 .. n : a[j] = "succeeded" => p[j] = "executed"
    BY <1>4, <1>5, <1>6
  <2>2. \A j \in 1 .. n : p[j] # "pending"
    BY <1>4, <1>6
  <2> QED
    BY <1>8, <1>9, <2>1, <2>2 DEF RunOK
<1>11. r \notin contested' => AloneOK(r)'
  BY <1>3, <1>8, <1>9 DEF AloneOK, Holds
<1>12. exec' \in [Executors -> Copy] /\ \A f \in Executors : exec'[f] = exec[f]
  BY <1>3 DEF MaintenanceInv
<1>13. \A q \in 1 .. Len(runs), f \in Executors : Holds(f, q)' => Holds(f, q)
  BY <1>3 DEF Holds
<1>14. \A j \in 1 .. n : proposal[r][j] = "executed" => p[j] = "executed"
  BY <1>6
<1> QED
  BY <1>2, <1>3, <1>5, <1>6, <1>7, <1>8, <1>10, <1>11, <1>12, <1>13, <1>14, LedgerMoves
(* A run is drafted when no other of its plane is open, and every row of   *)
(* the ledger is as it was.                                                *)
LEMMA DraftKeeps ==
    ASSUME MaintenanceInv, NEW plane, NEW steps, NEW resumed, DraftRun(plane, steps, resumed)
    PROVE  MaintenanceInv'
<1> PICK n : n = Len(runs)
  OBVIOUS
<1> PICK m : m = Len(steps)
  OBVIOUS
<1> DEFINE s == [i \in 1 .. m |-> "planned"]
           p == [i \in 1 .. m |-> "pending"]
           x == [plane |-> plane, status |-> "planned", steps |-> steps, state |-> s,
                 resumed |-> resumed, found |-> Running]
<1>1. /\ List(runs) /\ List(proposal) /\ Len(proposal) = n /\ n \in Nat
      /\ DOMAIN runs = 1 .. n
  BY ListElements DEF MaintenanceInv, RowsOK, List
<1>2. /\ NodeIsFree(plane) /\ m \in Nat \ {0} /\ runs' = Append(runs, x)
      /\ proposal' = Append(proposal, p) /\ exec' = exec /\ contested' = contested
  BY DEF DraftRun, Proposals
<1>3. /\ s \in [1 .. m -> StepState] /\ \A j \in 1 .. m : s[j] = "planned"
      /\ p \in [1 .. m -> Outcome] /\ \A j \in 1 .. m : p[j] = "pending"
  BY DEF StepState, Outcome
<1>4. /\ Row(x) /\ x.state = s /\ x.status = "planned" /\ x.steps = steps
      /\ x.plane = plane
  BY DEF Row
<1> HIDE DEF s, p, x
<1>5. /\ List(runs') /\ Len(runs') = n + 1 /\ runs'[n + 1] = x
      /\ \A q \in 1 .. n : runs'[q] = runs[q]
  BY <1>1, <1>2, ListAppended
<1>6. /\ List(proposal') /\ Len(proposal') = n + 1 /\ proposal'[n + 1] = p
      /\ \A q \in 1 .. n : proposal'[q] = proposal[q]
  BY <1>1, <1>2, ListAppended
<1>7. /\ \A q \in 1 .. n : Total(q)' = Total(q)
      /\ Total(n + 1)' = m
  BY <1>4, <1>5 DEF Total
<1>8. \A q \in 1 .. n + 1 : q \in 1 .. n \/ q = n + 1
  BY <1>1
<1>9. RowsOK'
  <2>1. ASSUME NEW q \in 1 .. n
        PROVE  /\ Row(runs'[q]) /\ runs'[q].status \in Status
               /\ Total(q)' \in Nat \ {0}
               /\ runs'[q].state \in [1 .. Total(q)' -> StepState]
               /\ proposal'[q] \in [1 .. Total(q)' -> Outcome]
    BY <1>5, <1>6, <1>7 DEF MaintenanceInv, RowsOK
  <2>2. /\ Row(runs'[n + 1]) /\ runs'[n + 1].status \in Status
        /\ Total(n + 1)' \in Nat \ {0}
        /\ runs'[n + 1].state \in [1 .. Total(n + 1)' -> StepState]
        /\ proposal'[n + 1] \in [1 .. Total(n + 1)' -> Outcome]
    BY <1>2, <1>3, <1>4, <1>5, <1>6, <1>7 DEF Status, OpenStatus
  <2> QED
    BY <1>5, <1>6, <1>8, <2>1, <2>2 DEF RowsOK
<1>10. exec' \in [Executors -> Copy]
  BY <1>2 DEF MaintenanceInv
<1>11. ASSUME NEW f \in Executors
       PROVE  CopyOK(exec[f])'
  <2>1. CopyOK(exec[f])
    BY DEF MaintenanceInv
  <2>2. \A q \in 1 .. n : q \in 1 .. n + 1
    BY <1>1
  <2> QED
    BY <1>2, <1>5, <1>6, <1>7, <2>1, <2>2 DEF CopyOK
<1>12. \A f \in Executors : ~ Holds(f, n + 1)'
  <2>1. n + 1 \notin 1 .. n
    BY <1>1
  <2> QED
    BY <1>2, <2>1 DEF MaintenanceInv, CopyOK, Holds
<1>13. ASSUME NEW q \in 1 .. n
       PROVE  RunOK(q)' /\ (q \notin contested' => AloneOK(q)')
  <2>1. RunOK(q) /\ (q \notin contested => AloneOK(q))
    BY DEF MaintenanceInv
  <2>2. runs'[q] = runs[q] /\ proposal'[q] = proposal[q]
    BY <1>5, <1>6
  <2>3. \A f \in Executors : Holds(f, q)' => Holds(f, q) /\ exec'[f] = exec[f]
    BY <1>2 DEF Holds
  <2> QED
    BY <1>2, <2>1, <2>2, <2>3, OtherRuns
<1>14. RunOK(n + 1)' /\ AloneOK(n + 1)'
  <2>1. RunOK(n + 1)'
    BY <1>3, <1>4, <1>5, <1>6, <1>7 DEF RunOK
  <2>2. AloneOK(n + 1)'
    BY <1>3, <1>4, <1>5, <1>6, <1>7, <1>12 DEF AloneOK
  <2> QED
    BY <2>1, <2>2
<1>15. OneOpenRun'
  <2>1. DOMAIN runs' = 1 .. n + 1
    BY <1>5, ListElements
  <2>2. \A q \in 1 .. n : runs'[q].plane = plane => runs'[q].status \notin OpenStatus
    BY <1>1, <1>2, <1>5 DEF NodeIsFree
  <2>3. \A q, t \in 1 .. n : /\ q \notin contested' /\ t \notin contested'
                            /\ runs'[q].status \in OpenStatus /\ runs'[t].status \in OpenStatus
                            /\ runs'[q].plane = runs'[t].plane => q = t
    BY <1>1, <1>2, <1>5 DEF MaintenanceInv, OneOpenRun
  <2> QED
    BY <1>4, <1>5, <1>8, <2>1, <2>2, <2>3 DEF OneOpenRun
<1> QED
  BY <1>5, <1>8, <1>9, <1>10, <1>11, <1>13, <1>14, <1>15 DEF MaintenanceInv

LEMMA UntouchedKeeps ==
    ASSUME MaintenanceInv, UNCHANGED <<runs, proposal, exec, contested>>
    PROVE  MaintenanceInv'
<1>1. RowsOK' /\ OneOpenRun' /\ exec' \in [Executors -> Copy]
  BY DEF MaintenanceInv, RowsOK, OneOpenRun, List, Row, Total
<1>2. \A f \in Executors : CopyOK(exec[f])'
  BY DEF MaintenanceInv, CopyOK, Total
<1>3. ASSUME NEW q \in 1 .. Len(runs)
      PROVE  RunOK(q)' /\ (q \notin contested' => AloneOK(q)')
  <2>1. RunOK(q) /\ (q \notin contested => AloneOK(q))
    BY DEF MaintenanceInv
  <2>2. \A f \in Executors : Holds(f, q)' => Holds(f, q) /\ exec'[f] = exec[f]
    BY DEF Holds
  <2> QED
    BY <2>1, <2>2, OtherRuns
<1> QED
  BY <1>1, <1>2, <1>3 DEF MaintenanceInv

LEMMA MaintenanceStep == MaintenanceInv /\ [MaintenanceNext]_maintenanceVars => MaintenanceInv'
<1> SUFFICES ASSUME MaintenanceInv, [MaintenanceNext]_maintenanceVars
             PROVE  MaintenanceInv'
  OBVIOUS
<1>1. ASSUME NEW named \in Nodes \cup {NoNode}, NEW resumed \in DOMAIN runs \cup {NoRun},
             PlanNode(named, resumed)
      PROVE  MaintenanceInv'
  BY <1>1, DraftKeeps DEF PlanNode
<1>2. ASSUME NEW kubernetes \in BOOLEAN, PlanTalos(kubernetes)
      PROVE  MaintenanceInv'
  BY <1>2, DraftKeeps DEF PlanTalos
<1>3. ASSUME NEW e \in Executors, NEW r \in DOMAIN runs, Load(e, r)
      PROVE  MaintenanceInv'
  BY <1>3, LoadKeeps
<1>4. ASSUME NEW e \in Executors, ExecutorStep(e)
      PROVE  MaintenanceInv'
  BY <1>4, StartKeeps, TakeKeeps, ActKeeps, CommitStepKeeps, StopRunKeeps, FinishKeeps
     DEF ExecutorStep
<1>5. ASSUME NEW e \in Executors, Crash(e)
      PROVE  MaintenanceInv'
  BY <1>5, CrashKeeps
<1>6. ASSUME NEW r \in DOMAIN runs, Abort(r)
      PROVE  MaintenanceInv'
  BY <1>6, AbortKeeps
<1>7. ASSUME NEW g \in Guests, TaskEnds(g) \/ MoveByHand(g)
      PROVE  MaintenanceInv'
  <2>1. UNCHANGED <<runs, proposal, exec, contested>>
    BY <1>7 DEF TaskEnds, MoveByHand
  <2> QED
    BY <2>1, UntouchedKeeps
<1>8. CASE UNCHANGED maintenanceVars
  <2>1. UNCHANGED <<runs, proposal, exec, contested>>
    BY <1>8 DEF maintenanceVars
  <2> QED
    BY <2>1, UntouchedKeeps
<1> QED
  BY <1>1, <1>2, <1>3, <1>4, <1>5, <1>6, <1>7, <1>8 DEF MaintenanceNext

LEMMA MaintenanceHolds == MaintenanceSpec => []MaintenanceInv
<1> QED
  BY NothingPlanned, MaintenanceStep, PTL DEF MaintenanceSpec
-----------------------------------------------------------------------------
(* However many processes execute a run, load it twice, die or abort it:   *)
(* no step is claimed that was not executed; a run that one of them had to *)
(* itself stopped at its first failure, with every later step skipped and  *)
(* its proposal rejected; and a node has one unfinished run.               *)
(* (engine/maintenance.py, execute_maintenance and abort_maintenance.)     *)
THEOREM StopsAtFirst == MaintenanceSpec => []StopsAtFirstFailure
<1>1. ASSUME MaintenanceInv PROVE StopsAtFirstFailure
  <2>1. List(runs) /\ DOMAIN runs = 1 .. Len(runs)
    BY <1>1, ListElements DEF MaintenanceInv, RowsOK
  <2>2. ASSUME NEW r \in DOMAIN runs
        PROVE  /\ DOMAIN runs[r].state = 1 .. Total(r) /\ Total(r) \in Nat \ {0}
               /\ RunOK(r) /\ (r \notin contested => AloneOK(r))
    BY <1>1, <2>1 DEF MaintenanceInv, RowsOK
  <2>3. LedgerMatchesProposals
    BY <2>2 DEF LedgerMatchesProposals, RunOK
  <2>4. StopsWhole
    <3>1. ASSUME NEW r \in DOMAIN runs \ contested, runs[r].status = "succeeded"
          PROVE  Range(runs[r].state) = {"succeeded"}
      <4>1. 1 \in DOMAIN runs[r].state
        BY <2>2
      <4>2. \A j \in DOMAIN runs[r].state : runs[r].state[j] = "succeeded"
        BY <2>2, <3>1 DEF AloneOK
      <4> QED
        BY <4>1, <4>2 DEF Range
    <3>2. ASSUME NEW r \in DOMAIN runs \ contested, runs[r].status = "failed"
          PROVE  \E i \in DOMAIN runs[r].state :
                    /\ runs[r].state[i] = "failed"
                    /\ \A j \in DOMAIN runs[r].state :
                          /\ j < i => runs[r].state[j] = "succeeded"
                          /\ j > i => runs[r].state[j] = "skipped" /\ proposal[r][j] = "rejected"
      BY <2>2, <3>2 DEF AloneOK, StoppedAt
    <3> QED
      BY <3>1, <3>2 DEF StopsWhole
  <2>5. OneOpenRun
    BY <1>1 DEF MaintenanceInv
  <2> QED
    BY <2>3, <2>4, <2>5 DEF StopsAtFirstFailure
<1> QED
  BY <1>1, MaintenanceHolds, PTL

(* Every proposal of an aborted run is decided in the commit of the abort, *)
(* and a step is begun only of a proposal found pending: so none is begun, *)
(* by a process that had loaded the run before the abort either.           *)
THEOREM AbortIsHeld == MaintenanceSpec => AbortHolds
<1>1. ASSUME MaintenanceInv, [MaintenanceNext]_maintenanceVars
      PROVE  AbortHoldsStep
  <2> SUFFICES ASSUME NEW e \in Executors, exec[e].pc = "next", exec'[e].pc = "acting"
               PROVE  runs[exec[e].run].status # "aborted"
    BY DEF AbortHoldsStep
  <2>1. exec \in [Executors -> Copy]
    BY <1>1 DEF MaintenanceInv
  <2>2. ASSUME NEW f \in Executors,
               \/ \E r \in DOMAIN runs : Load(f, r)
               \/ Start(f) \/ Act(f) \/ CommitStep(f) \/ StopRun(f) \/ Finish(f) \/ Crash(f)
        PROVE  FALSE
    <3>1. f = e => exec'[e] = Off
      BY <2>1, <2>2 DEF Load, Start, Act, CommitStep, StopRun, Finish, Crash
    <3>2. f # e => exec'[e] = exec[e]
      BY <2>1, <2>2 DEF Load, Start, Act, CommitStep, StopRun, Finish, Crash
    <3> QED
      BY <3>1, <3>2 DEF Off
  <2>3. exec' # exec
    OBVIOUS
  <2>4. ~ UNCHANGED maintenanceVars
    BY <2>3 DEF maintenanceVars
  <2>5. \E f \in Executors : Take(f)
    <3>0. \A plane, steps, resumed : ~ DraftRun(plane, steps, resumed)
      BY <2>3, Zenon DEF DraftRun
    <3>1. \A named, resumed : ~ PlanNode(named, resumed)
      BY <3>0, Zenon DEF PlanNode
    <3>2. \A kubernetes : ~ PlanTalos(kubernetes)
      BY <3>0, Zenon DEF PlanTalos
    <3>3. \A g : ~ TaskEnds(g) /\ ~ MoveByHand(g)
      BY <2>3 DEF TaskEnds, MoveByHand
    <3>4. \A r : ~ Abort(r)
      BY <2>3 DEF Abort
    <3> QED
      BY <1>1, <2>2, <2>4, <3>1, <3>2, <3>3, <3>4 DEF MaintenanceNext, ExecutorStep
  <2>6. PICK f \in Executors : Take(f)
    BY <2>5
  <2>7. f = e
    BY <2>1, <2>6 DEF Take
  <2>8. CopyOK(exec[e]) /\ exec[e].run \in 1 .. Len(runs)
        /\ Len(exec[e].state) = Total(exec[e].run)
    BY <1>1, CopyAtWork
  <2>9. proposal[exec[e].run][exec[e].i] = "pending" /\ exec[e].i <= Len(exec[e].state)
    <3>1. exec[e].i <= Len(exec[e].state)
      BY <2>6, <2>7 DEF Take
    <3>2. PICK healthy \in BOOLEAN : exec' = [exec EXCEPT ![e] =
             IF exec[e].state[exec[e].i] = "succeeded" THEN [exec[e] EXCEPT !.i = exec[e].i + 1]
             ELSE IF healthy /\ proposal[exec[e].run][exec[e].i] = "pending"
                  THEN [exec[e] EXCEPT !.pc = "acting"]
                  ELSE [exec[e] EXCEPT !.pc = "acted", !.result = "failed"]]
      BY <2>6, <2>7 DEF Take
    <3>3. exec[e] \in Copy
      BY <2>1
    <3>4. /\ [exec[e] EXCEPT !.i = exec[e].i + 1].pc = "next"
          /\ [exec[e] EXCEPT !.pc = "acted", !.result = "failed"].pc = "acted"
      BY <3>3 DEF Copy
    <3> QED
      BY <2>1, <3>1, <3>2, <3>4
  <2>10. exec[e].i \in 1 .. Total(exec[e].run)
    BY <2>8, <2>9 DEF CopyOK
  <2> QED
    BY <1>1, <2>8, <2>9, <2>10 DEF MaintenanceInv, RunOK
<1> QED
  BY <1>1, MaintenanceHolds, PTL DEF MaintenanceSpec, AbortHolds
-----------------------------------------------------------------------------
Start0(room) == [steps |-> <<>>, room |-> room, ok |-> TRUE]

(* The fold of a plan's drain, as a function of how many guests are placed. *)
IsFold(f, n, guests, room, open, named) ==
    f = [k \in 0 .. n |-> IF k = 0 THEN Start0(room)
                          ELSE Drained(f[k - 1], guests[k], open, named)]

LEMMA DrainUnfolds ==
    ASSUME NEW guests, NEW room, NEW open, NEW named
    PROVE  Drain(guests, room, open, named)
           = (CHOOSE f : IsFold(f, Len(guests), guests, room, open, named))[Len(guests)]
  BY DEF Drain, IsFold, Start0

(* A least number without a property.                                      *)
LEMMA LeastWithout ==
    ASSUME NEW S \in SUBSET Nat, S # {}
    PROVE  \E n \in S : \A m \in S : n <= m
<1>1. PICK n \in S : \A m \in S : <<m, n>> \notin OpToRel(<, Nat)
  BY NatLessThanWellFounded, WFMin
<1>2. \A m \in S : ~ (m < n)
  BY <1>1 DEF OpToRel
<1> QED
  BY <1>2

LEMMA FoldExists ==
    ASSUME NEW guests, NEW room, NEW open, NEW named, NEW n \in Nat
    PROVE  \E f : IsFold(f, n, guests, room, open, named)
<1> DEFINE Has(k) == \E f : IsFold(f, k, guests, room, open, named)
           S == {k \in Nat : ~ Has(k)}
<1> SUFFICES ASSUME S # {} PROVE FALSE
  OBVIOUS
<1>1. PICK k \in S : \A m \in S : k <= m
  BY LeastWithout
<1>2. k # 0
  <2> DEFINE f == [j \in 0 .. 0 |-> Start0(room)]
  <2>1. IsFold(f, 0, guests, room, open, named)
    BY DEF IsFold
  <2> QED
    BY <2>1
<1>3. k - 1 \in Nat /\ k - 1 \notin S
  BY <1>1, <1>2
<1>4. PICK f : IsFold(f, k - 1, guests, room, open, named)
  BY <1>3
<1> DEFINE h == [j \in 0 .. k |-> IF j < k THEN f[j] ELSE Drained(f[k - 1], guests[k], open, named)]
<1>5. f = [j \in 0 .. k - 1 |-> IF j = 0 THEN Start0(room) ELSE Drained(f[j - 1], guests[j], open, named)]
  BY <1>4 DEF IsFold
<1>6. ASSUME NEW j \in 0 .. k
      PROVE  h[j] = IF j = 0 THEN Start0(room) ELSE Drained(h[j - 1], guests[j], open, named)
  <2>1. CASE j = k
    BY <1>2, <2>1
  <2>2. CASE j < k
    <3>1. f[j] = IF j = 0 THEN Start0(room) ELSE Drained(f[j - 1], guests[j], open, named)
      BY <1>5, <2>2
    <3>2. j # 0 => h[j - 1] = f[j - 1]
      BY <2>2
    <3> QED
      BY <2>2, <3>1, <3>2
  <2> QED
    BY <2>1, <2>2
<1>7. IsFold(h, k, guests, room, open, named)
  BY <1>6 DEF IsFold
<1> QED
  BY <1>7

(* What Drain returns when every guest found a place: one step for each.   *)
DrainStepOf(s, g) ==
    IF g \in LocalDisk THEN s = Step("drain-shutdown", g, Node, NoNode)
    ELSE \E to : s = Step("drain-migrate", g, Node, to)

Placed(acc, guests, k) ==
    \E st, rm, ok :
       /\ acc = [steps |-> st, room |-> rm, ok |-> ok]
       /\ ok = TRUE \/ ok = FALSE
       /\ ok = TRUE => /\ \E T : st \in [1 .. k -> T]
                       /\ \A j \in 1 .. k : DrainStepOf(st[j], guests[j])

LEMMA PlacesOne ==
    ASSUME NEW guests, NEW k \in Nat, NEW acc, Placed(acc, guests, k), NEW open, NEW named
    PROVE  Placed(Drained(acc, guests[k + 1], open, named), guests, k + 1)
<1> DEFINE g == guests[k + 1]
           to == PickTarget(g, acc.room, open, named)
<1>1. PICK st, rm, ok :
         /\ acc = [steps |-> st, room |-> rm, ok |-> ok]
         /\ ok = TRUE \/ ok = FALSE
         /\ ok = TRUE => /\ \E T : st \in [1 .. k -> T]
                         /\ \A j \in 1 .. k : DrainStepOf(st[j], guests[j])
  BY DEF Placed
<1>2. ASSUME NEW s, DrainStepOf(s, g), NEW rm2
      PROVE  Placed([steps |-> Append(st, s), room |-> rm2, ok |-> ok], guests, k + 1)
  <2>1. ASSUME ok = TRUE
        PROVE  /\ \E T : Append(st, s) \in [1 .. k + 1 -> T]
               /\ \A j \in 1 .. k + 1 : DrainStepOf(Append(st, s)[j], guests[j])
    <3>1. PICK T : st \in [1 .. k -> T]
      BY <1>1, <2>1
    <3> PICK t : t = Append(st, s)
      OBVIOUS
    <3> DEFINE U == T \cup {s}
    <3>2. st \in [1 .. k -> U] /\ s \in U
      BY <3>1
    <3>3. st \in Seq(U) /\ Len(st) = k
      BY <3>2, ListLength
    <3> HIDE DEF U
    <3>4. /\ t \in Seq(U) /\ Len(t) = k + 1 /\ t[k + 1] = s
          /\ \A j \in 1 .. k : t[j] = st[j]
      BY <3>2, <3>3
    <3>5. t \in [1 .. k + 1 -> U]
      BY <3>4, LenProperties
    <3>6. \A j \in 1 .. k + 1 : DrainStepOf(t[j], guests[j])
      BY <1>1, <1>2, <2>1, <3>4
    <3> QED
      BY <3>5, <3>6
  <2> QED
    BY <1>1, <2>1 DEF Placed
<1>a. acc.steps = st
  BY <1>1
<1>b. ASSUME NEW t, NEW v
      PROVE  /\ [acc EXCEPT !.steps = t] = [steps |-> t, room |-> rm, ok |-> ok]
             /\ [[acc EXCEPT !.steps = t] EXCEPT !.room = v] = [steps |-> t, room |-> v, ok |-> ok]
  <2>1. [acc EXCEPT !.steps = t] = [steps |-> t, room |-> rm, ok |-> ok]
    BY <1>1
  <2>2. [[steps |-> t, room |-> rm, ok |-> ok] EXCEPT !.room = v] = [steps |-> t, room |-> v, ok |-> ok]
    OBVIOUS
  <2> QED
    BY <2>1, <2>2
<1>3. CASE g \in LocalDisk
  <2> DEFINE s == Step("drain-shutdown", g, Node, NoNode)
  <2>1. DrainStepOf(s, g)
    BY <1>3 DEF DrainStepOf
  <2>2. Drained(acc, g, open, named) = [acc EXCEPT !.steps = Append(acc.steps, s)]
    BY <1>3 DEF Drained
  <2> HIDE DEF s
  <2> PICK t : t = Append(st, s)
    OBVIOUS
  <2>3. Drained(acc, g, open, named) = [steps |-> t, room |-> rm, ok |-> ok]
    BY <1>a, <1>b, <2>2
  <2>4. Placed([steps |-> t, room |-> rm, ok |-> ok], guests, k + 1)
    BY <1>2, <2>1
  <2> QED
    BY <2>3, <2>4
<1>4. CASE g \notin LocalDisk /\ to = NoNode
  <2>1. Drained(acc, g, open, named) = [acc EXCEPT !.ok = FALSE]
    BY <1>4 DEF Drained
  <2>2. \A v : [acc EXCEPT !.ok = v] = [steps |-> st, room |-> rm, ok |-> v]
    BY <1>1
  <2>3. Placed([steps |-> st, room |-> rm, ok |-> FALSE], guests, k + 1)
    BY DEF Placed
  <2> QED
    BY <2>1, <2>2, <2>3
<1>5. CASE g \notin LocalDisk /\ to # NoNode
  <2> DEFINE s == Step("drain-migrate", g, Node, to)
             mid == [acc EXCEPT !.steps = Append(acc.steps, s)]
  <2>1. DrainStepOf(s, g)
    BY <1>5 DEF DrainStepOf
  <2>2. Drained(acc, g, open, named)
        = [mid EXCEPT !.room = [mid.room EXCEPT ![to] = mid.room[to] - MaxMem[g]]]
    BY <1>5 DEF Drained
  <2> HIDE DEF s
  <2> PICK t : t = Append(st, s)
    OBVIOUS
  <2> PICK v : v = [mid.room EXCEPT ![to] = mid.room[to] - MaxMem[g]]
    OBVIOUS
  <2>3. Drained(acc, g, open, named) = [[acc EXCEPT !.steps = t] EXCEPT !.room = v]
    BY <1>a, <2>2, Zenon
  <2>4. Drained(acc, g, open, named) = [steps |-> t, room |-> v, ok |-> ok]
    BY <1>b, <2>3, ZenonT(40)
  <2>5. Placed([steps |-> t, room |-> v, ok |-> ok], guests, k + 1)
    BY <1>2, <2>1
  <2> QED
    BY <2>4, <2>5
<1> QED
  BY <1>3, <1>4, <1>5

(* Every guest of the order gets its step, when the plan holds.            *)
LEMMA DrainSteps ==
    ASSUME NEW guests, Len(guests) \in Nat, NEW room, NEW open, NEW named,
           Drain(guests, room, open, named).ok
    PROVE  LET s == Drain(guests, room, open, named).steps IN
              /\ List(s) /\ Len(s) = Len(guests)
              /\ \A j \in 1 .. Len(guests) : DrainStepOf(s[j], guests[j])
<1> PICK n : n = Len(guests)
  OBVIOUS
<1> DEFINE f == CHOOSE h : IsFold(h, n, guests, room, open, named)
<1>1. IsFold(f, n, guests, room, open, named)
  BY FoldExists
<1>2. Drain(guests, room, open, named) = f[n]
  BY DrainUnfolds
<1> HIDE DEF f
<1> DEFINE S == {k \in 0 .. n : ~ Placed(f[k], guests, k)}
<1>3. S = {}
  <2> SUFFICES ASSUME S # {} PROVE FALSE
    OBVIOUS
  <2>1. S \in SUBSET Nat
    OBVIOUS
  <2>2. PICK k \in S : \A m \in S : k <= m
    BY <2>1, LeastWithout
  <2>3. f = [j \in 0 .. n |-> IF j = 0 THEN Start0(room) ELSE Drained(f[j - 1], guests[j], open, named)]
    BY <1>1 DEF IsFold
  <2>4. CASE k = 0
    <3>1. f[0] = [steps |-> <<>>, room |-> room, ok |-> TRUE]
      BY <2>2, <2>3, <2>4 DEF Start0
    <3>2. <<>> \in [1 .. 0 -> {}]
      BY EmptySeq, LenProperties
    <3>3. Placed(f[0], guests, 0)
      BY <3>1, <3>2 DEF Placed
    <3> QED
      BY <2>2, <2>4, <3>3
  <2>5. CASE k # 0
    <3>1. k - 1 \in Nat /\ k - 1 \in 0 .. n /\ k - 1 \notin S /\ (k - 1) + 1 = k
      BY <2>2, <2>5
    <3>2. Placed(f[k - 1], guests, k - 1)
      BY <3>1
    <3>3. Placed(Drained(f[k - 1], guests[(k - 1) + 1], open, named), guests, (k - 1) + 1)
      BY <3>1, <3>2, PlacesOne
    <3>4. f[k] = Drained(f[k - 1], guests[k], open, named)
      BY <2>2, <2>3, <2>5
    <3> QED
      BY <2>2, <3>1, <3>3, <3>4
  <2> QED
    BY <2>4, <2>5
<1>4. Placed(f[n], guests, n)
  BY <1>3
<1> PICK d : d = Drain(guests, room, open, named)
  OBVIOUS
<1>5. PICK st, rm, ok :
         /\ d = [steps |-> st, room |-> rm, ok |-> ok]
         /\ ok = TRUE \/ ok = FALSE
         /\ ok = TRUE => /\ \E T : st \in [1 .. n -> T]
                         /\ \A j \in 1 .. n : DrainStepOf(st[j], guests[j])
  BY <1>2, <1>4 DEF Placed
<1>6. ok = TRUE /\ d.steps = st
  BY <1>5
<1>7. List(st) /\ Len(st) = n
  BY <1>5, <1>6, FunctionIsList
<1> QED
  BY <1>5, <1>6, <1>7

(* A sequence of a finite set's elements has every one of them, once.      *)
LEMMA SequencesOfSet ==
    ASSUME NEW S, IsFiniteSet(S), NEW s \in SetToSeqs(S)
    PROVE  /\ List(s) /\ \A i \in 1 .. Len(s) : s[i] \in S
           /\ \A i, j \in 1 .. Len(s) : s[i] = s[j] => i = j
           /\ \A x \in S : \E i \in 1 .. Len(s) : s[i] = x
<1> PICK n : n = Cardinality(S)
  OBVIOUS
<1>1. n \in Nat
  BY FS_CardinalityType
<1>2. s \in [1 .. n -> S] /\ \A i, j \in 1 .. n : i # j => s[i] # s[j]
  BY DEF SetToSeqs
<1>3. List(s) /\ Len(s) = n
  BY <1>1, <1>2, FunctionIsList
<1>4. s \in Injection(1 .. n, S)
  BY <1>2 DEF Injection, IsInjective
<1>5. Cardinality(1 .. n) = n
  BY <1>1, FS_Interval
<1>6. s \in Surjection(1 .. n, S)
  BY <1>4, <1>5, FS_Injection
<1> QED
  BY <1>2, <1>3, <1>6 DEF Surjection

LEMMA Joined ==
    ASSUME NEW s, List(s), NEW t, List(t)
    PROVE  /\ List(s \o t) /\ Len(s \o t) = Len(s) + Len(t)
           /\ \A i \in 1 .. Len(s) : (s \o t)[i] = s[i]
           /\ \A i \in 1 .. Len(t) : (s \o t)[Len(s) + i] = t[i]
<1> PICK m, n : m = Len(s) /\ n = Len(t)
  OBVIOUS
<1> PICK u : u = s \o t
  OBVIOUS
<1> DEFINE T == {s[i] : i \in 1 .. m} \cup {t[i] : i \in 1 .. n}
<1>1. /\ m \in Nat /\ s \in [1 .. m -> {s[i] : i \in 1 .. m}]
      /\ n \in Nat /\ t \in [1 .. n -> {t[i] : i \in 1 .. n}]
  BY ListElements DEF List
<1>2. s \in [1 .. m -> T] /\ t \in [1 .. n -> T]
  BY <1>1
<1> HIDE DEF T
<1>3. s \in Seq(T) /\ t \in Seq(T)
  BY <1>1, <1>2, ListLength
<1>4. /\ u \in Seq(T) /\ Len(u) = m + n
      /\ \A i \in 1 .. m + n : u[i] = IF i <= m THEN s[i] ELSE t[i - m]
  BY <1>3, ConcatProperties
<1>a. m \in Nat /\ n \in Nat
  BY <1>1
<1>5. u \in [1 .. m + n -> T] /\ m + n \in Nat
  BY <1>a, <1>4, LenProperties
<1>6. List(u)
  BY <1>5, FunctionIsList
<1>7. \A i \in 1 .. m : u[i] = s[i]
  BY <1>a, <1>4
<1>8. \A i \in 1 .. n : u[m + i] = t[i]
  <2> TAKE i \in 1 .. n
  <2>1. m + i \in 1 .. m + n /\ ~ (m + i <= m) /\ (m + i) - m = i
    BY <1>a
  <2> QED
    BY <1>4, <2>1
<1> QED
  BY <1>4, <1>6, <1>7, <1>8

(* The return leg: of every step of the drain, one that takes it back.     *)
LEMMA ReturnLeg ==
    ASSUME NEW drain, List(drain)
    PROVE  /\ List(ReturnSteps(drain)) /\ Len(ReturnSteps(drain)) = Len(drain)
           /\ \A i \in 1 .. Len(drain) : \E j \in 1 .. Len(drain) :
                 ReturnSteps(drain)[i] = Return(drain[j])
           /\ \A j \in 1 .. Len(drain) : \E i \in 1 .. Len(drain) :
                 ReturnSteps(drain)[i] = Return(drain[j])
<1> PICK n : n = Len(drain)
  OBVIOUS
<1> PICK s : s = ReturnSteps(drain)
  OBVIOUS
<1> DEFINE back == [i \in 1 .. n |-> Return(drain[i])]
           T == {Return(drain[i]) : i \in 1 .. n}
<1>1. n \in Nat
  BY DEF List
<1>2. back \in [1 .. n -> T]
  OBVIOUS
<1> HIDE DEF T
<1>3. Len(back) = n
  BY <1>1, <1>2, ListLength
<1>4. s = [i \in 1 .. n |-> back[(n - i) + 1]]
  BY <1>3 DEF ReturnSteps, Reverse
<1>5. s \in [1 .. n -> T]
  BY <1>1, <1>2, <1>4
<1>6. List(s) /\ Len(s) = n
  BY <1>1, <1>5, FunctionIsList
<1>7. ASSUME NEW i \in 1 .. n
      PROVE  (n - i) + 1 \in 1 .. n /\ s[i] = Return(drain[(n - i) + 1])
  BY <1>1, <1>4
<1>8. ASSUME NEW j \in 1 .. n
      PROVE  \E i \in 1 .. n : s[i] = Return(drain[j])
  <2>1. (n - j) + 1 \in 1 .. n /\ (n - ((n - j) + 1)) + 1 = j
    BY <1>1
  <2> QED
    BY <1>7, <2>1
<1> QED
  BY <1>6, <1>7, <1>8

Updating == <<Step("node-update", Node, NoNode, NoNode), Step("node-reboot", Node, NoNode, NoNode)>>

LEMMA UpdatingList ==
    /\ List(Updating) /\ Len(Updating) = 2
    /\ Updating[1].kind = "node-update" /\ Updating[2].kind = "node-reboot"
<1>1. Updating \in [1 .. 2 -> {Updating[1], Updating[2]}]
  BY DEF Updating
<1>2. List(Updating) /\ Len(Updating) = 2
  BY <1>1, FunctionIsList
<1> QED
  BY <1>2 DEF Updating, Step

(* A plan: the drain, the node's own two steps, and a return of everything *)
(* drained or displaced.                                                   *)
Departures(drain, displaced) ==
    {drain[j] : j \in 1 .. Len(drain)} \cup {displaced[j] : j \in 1 .. Len(displaced)}

LEMMA PlanShape ==
    ASSUME NEW drain, List(drain), NEW displaced, List(displaced)
    PROVE  LET s == NodeSteps(drain, displaced) IN
           /\ List(s) /\ Len(drain) <= Len(s)
           /\ \A i \in 1 .. Len(drain) : s[i] = drain[i]
           /\ \A i \in 1 .. Len(s) :
                 i > Len(drain) => \/ s[i].kind \in {"node-update", "node-reboot"}
                                   \/ \E d \in Departures(drain, displaced) : s[i] = Return(d)
           /\ \A d \in Departures(drain, displaced) :
                 \E i \in 1 .. Len(s) : i > Len(drain) /\ s[i] = Return(d)
<1>a. PICK m, k : m = Len(drain) /\ k = Len(displaced)
  OBVIOUS
<1>b. PICK s : s = NodeSteps(drain, displaced)
  OBVIOUS
<1>c. PICK Out : Out = Departures(drain, displaced)
  OBVIOUS
<1>d. Out = {drain[j] : j \in 1 .. m} \cup {displaced[j] : j \in 1 .. k}
  BY <1>a, <1>c DEF Departures
<1>1. m \in Nat /\ k \in Nat
  BY <1>a DEF List
<1>p. PICK out : out = drain \o displaced
  OBVIOUS
<1>2. /\ List(out) /\ Len(out) = m + k
      /\ \A i \in 1 .. m : out[i] = drain[i]
      /\ \A i \in 1 .. k : out[m + i] = displaced[i]
  <2>1. /\ List(drain \o displaced) /\ Len(drain \o displaced) = Len(drain) + Len(displaced)
        /\ \A i \in 1 .. Len(drain) : (drain \o displaced)[i] = drain[i]
        /\ \A i \in 1 .. Len(displaced) : (drain \o displaced)[Len(drain) + i] = displaced[i]
    BY Joined
  <2> QED
    BY <1>a, <1>p, <2>1
<1>q. PICK back : back = ReturnSteps(out)
  OBVIOUS
<1>3. /\ List(back) /\ Len(back) = m + k
      /\ \A i \in 1 .. m + k : \E j \in 1 .. m + k : back[i] = Return(out[j])
      /\ \A j \in 1 .. m + k : \E i \in 1 .. m + k : back[i] = Return(out[j])
  <2>1. List(out)
    BY <1>2
  <2>2. /\ List(back) /\ Len(back) = Len(out)
        /\ \A i \in 1 .. Len(out) : \E j \in 1 .. Len(out) : back[i] = Return(out[j])
        /\ \A j \in 1 .. Len(out) : \E i \in 1 .. Len(out) : back[i] = Return(out[j])
    BY <1>q, <2>1, ReturnLeg
  <2> QED
    BY <1>2, <2>2
<1>r. PICK u : u = Updating
  OBVIOUS
<1>4. List(u) /\ Len(u) = 2 /\ u[1].kind = "node-update" /\ u[2].kind = "node-reboot"
  BY <1>r, UpdatingList
<1>s. PICK front : front = drain \o u
  OBVIOUS
<1>5. /\ List(front) /\ Len(front) = m + 2
      /\ \A i \in 1 .. m : front[i] = drain[i]
      /\ \A i \in 1 .. 2 : front[m + i] = u[i]
  <2>1. List(u)
    BY <1>4
  <2>2. /\ List(drain \o u) /\ Len(drain \o u) = Len(drain) + Len(u)
        /\ \A i \in 1 .. Len(drain) : (drain \o u)[i] = drain[i]
        /\ \A i \in 1 .. Len(u) : (drain \o u)[Len(drain) + i] = u[i]
    BY <2>1, Joined
  <2> QED
    BY <1>4, <1>a, <1>s, <2>2
<1>6. /\ List(s) /\ Len(s) = (m + 2) + (m + k)
      /\ \A i \in 1 .. m + 2 : s[i] = front[i]
      /\ \A i \in 1 .. m + k : s[(m + 2) + i] = back[i]
  <2>1. List(front) /\ List(back)
    BY <1>3, <1>5
  <2>2. s = front \o back
    BY <1>b, <1>p, <1>q, <1>r, <1>s DEF NodeSteps, Updating
  <2>3. /\ List(front \o back) /\ Len(front \o back) = Len(front) + Len(back)
        /\ \A i \in 1 .. Len(front) : (front \o back)[i] = front[i]
        /\ \A i \in 1 .. Len(back) : (front \o back)[Len(front) + i] = back[i]
    BY <2>1, Joined
  <2> QED
    BY <1>3, <1>5, <2>2, <2>3
<1>8. \A j \in 1 .. m + k : out[j] \in Out
  <2> TAKE j \in 1 .. m + k
  <2>1. CASE j <= m
    BY <1>1, <1>2, <1>d, <2>1
  <2>2. CASE j > m
    <3>1. j - m \in 1 .. k /\ m + (j - m) = j
      BY <1>1, <2>2
    <3> QED
      BY <1>2, <1>d, <3>1
  <2> QED
    BY <1>1, <2>1, <2>2
<1>9. ASSUME NEW d \in Out
      PROVE  \E j \in 1 .. m + k : out[j] = d
  <2>1. CASE d \in {drain[j] : j \in 1 .. m}
    BY <1>1, <1>2, <2>1
  <2>2. CASE d \in {displaced[j] : j \in 1 .. k}
    <3>1. PICK j \in 1 .. k : d = displaced[j]
      BY <2>2
    <3>2. m + j \in 1 .. m + k
      BY <1>1
    <3> QED
      BY <1>2, <3>1, <3>2
  <2> QED
    BY <1>d, <2>1, <2>2
<1>10. \A i \in 1 .. m : s[i] = drain[i]
  BY <1>1, <1>5, <1>6
<1>11. ASSUME NEW i \in 1 .. Len(s), i > m
       PROVE  \/ s[i].kind \in {"node-update", "node-reboot"}
              \/ \E d \in Out : s[i] = Return(d)
  <2>1. CASE i <= m + 2
    <3>1. i = m + 1 \/ i = m + 2
      BY <1>1, <1>6, <1>11, <2>1
    <3>2. s[m + 1] = u[1] /\ s[m + 2] = u[2]
      BY <1>1, <1>5, <1>6
    <3> QED
      BY <1>4, <3>1, <3>2
  <2>2. CASE i > m + 2
    <3>1. PICK h \in 1 .. m + k : (m + 2) + h = i
      <4>1. i - (m + 2) \in 1 .. m + k /\ (m + 2) + (i - (m + 2)) = i
        BY <1>1, <1>6, <2>2
      <4> QED
        BY <4>1
    <3>2. s[i] = back[h]
      BY <1>6, <3>1
    <3>3. PICK j \in 1 .. m + k : s[i] = Return(out[j])
      BY <1>3, <3>1, <3>2
    <3> QED
      BY <1>8, <3>3
  <2> QED
    BY <1>1, <1>6, <2>1, <2>2
<1>12. ASSUME NEW d \in Out
       PROVE  \E i \in 1 .. Len(s) : i > m /\ s[i] = Return(d)
  <2>1. PICK j \in 1 .. m + k : out[j] = d
    BY <1>9
  <2>2. PICK i \in 1 .. m + k : back[i] = Return(d)
    BY <1>3, <2>1
  <2>3. (m + 2) + i \in 1 .. Len(s) /\ (m + 2) + i > m
    BY <1>1, <1>6
  <2> QED
    BY <1>6, <2>2, <2>3
<1>13. m <= Len(s)
  BY <1>1, <1>6
<1> QED
  BY <1>6, <1>10, <1>11, <1>12, <1>13, <1>a, <1>b, <1>c
-----------------------------------------------------------------------------
(* A step that takes a guest off the node, and one that brings one back.   *)
DrainStep(s) ==
    /\ s.kind \in DrainKinds /\ s.what \in Guests /\ s.from = Node
    /\ s.kind = "drain-shutdown" => s.what \in LocalDisk
    /\ s.kind = "drain-migrate" => s.what \notin LocalDisk /\ up[s.what]

ReturnStep(s) ==
    /\ s.kind \in ReturnKinds /\ s.what \in Guests
    /\ s.kind = "return-start" => s.what \in LocalDisk /\ s.from = Node
    /\ s.kind = "return-migrate" => s.what \notin LocalDisk /\ s.to = Node /\ up[s.what]

OtherKinds == {"node-update", "node-reboot", "talos-upgrade", "k8s-upgrade"}

At(r, i) == runs[r].steps[i]

Returns(r, g) == \E j \in 1 .. Total(r) : At(r, j).kind \in ReturnKinds /\ At(r, j).what = g

(* A plan: each guest leaves once, every return comes after every          *)
(* departure, and whoever was found on the node is brought back.           *)
StepsOK(r) ==
    /\ List(runs[r].steps)
    /\ \A i \in 1 .. Total(r) :
          \/ At(r, i).kind \in OtherKinds
          \/ runs[r].plane = "proxmox" /\ (DrainStep(At(r, i)) \/ ReturnStep(At(r, i)))
    /\ \A i, j \in 1 .. Total(r) :
          At(r, i).kind \in DrainKinds =>
             /\ At(r, j).kind \in ReturnKinds => i < j
             /\ At(r, j).kind \in DrainKinds /\ At(r, i).what = At(r, j).what => i = j
    /\ runs[r].plane = "proxmox" => \A g \in runs[r].found : Returns(r, g)

(* A step that took effect: in the ledger, or not committed yet.           *)
Acted(e, r, i) ==
    Holds(e, r) /\ exec[e].pc = "acted" /\ exec[e].result = "succeeded" /\ exec[e].i = i

Done(r, i) == runs[r].state[i] = "succeeded" \/ \E e \in Executors : Acted(e, r, i)

(* Where a guest on a local disk, and any other, may be, and what may be   *)
(* under way.                                                              *)
TasksOK ==
    /\ DOMAIN where = Guests /\ DOMAIN task = Guests /\ up \in [Guests -> BOOLEAN]
    /\ \A g \in Guests : task[g] = NoTask \/ task[g].kind \in {"migrate", "stop", "start"}
    /\ \A g \in Guests : /\ g \in LocalDisk => where[g] = Node /\ task[g].kind # "migrate"
                         /\ g \notin LocalDisk => task[g].kind \notin {"stop", "start"}

(* A guest that a run migrated away: back home, where the run put it, or   *)
(* on its way there.                                                       *)
Away(s) == \/ Home(s.what)
           \/ where[s.what] = s.to /\ task[s.what] = NoTask
           \/ where[s.what] = Node /\ task[s.what].kind = "migrate" /\ task[s.what].to = s.to

(* What the last run of the node resumed is in its plan, or is home and    *)
(* none of its business.                                                   *)
TakenOver(r, g) ==
    \/ Returns(r, g)
    \/ Home(g) /\ \A j \in 1 .. Total(r) : At(r, j).kind \in GuestKinds => At(r, j).what # g

Brought(r) == \A i \in 1 .. Total(r) :
                 Done(r, i) /\ At(r, i).kind \in ReturnKinds => Home(At(r, i).what)

Left(r) == \A i \in 1 .. Total(r) :
              Done(r, i) /\ At(r, i).kind = "drain-migrate" => Away(At(r, i))

Inherited(r) ==
    \A q \in 1 .. Len(runs) :
       q = runs[r].resumed /\ NothingBetween(q, r) =>
          \A i \in 1 .. Total(q) :
             Done(q, i) /\ At(q, i).kind \in DrainKinds => TakenOver(r, At(q, i).what)

RunReturns(r) ==
    /\ StepsOK(r)
    /\ runs[r].resumed = NoRun \/ runs[r].resumed \in 1 .. r - 1
    /\ runs[r].plane = "proxmox" /\ runs[r].status \in OpenStatus => LatestOfNode(r)
    /\ LatestOfNode(r) => Brought(r) /\ Left(r) /\ Inherited(r)

ReturnInv ==
    /\ mishaps \in Nat
    /\ Quiet => TasksOK /\ \A r \in 1 .. Len(runs) : RunReturns(r)

LEMMA LatestOne ==
    ASSUME List(runs), NEW r \in 1 .. Len(runs), NEW q \in 1 .. Len(runs),
           LatestOfNode(r), LatestOfNode(q)
    PROVE  r = q
<1>1. DOMAIN runs = 1 .. Len(runs) /\ Len(runs) \in Nat
  BY ListElements DEF List
<1>2. ~ (q > r) /\ ~ (r > q)
  BY <1>1 DEF LatestOfNode
<1> QED
  BY <1>1, <1>2

LEMMA KindsApart ==
    /\ DrainKinds = {"drain-migrate", "drain-shutdown"}
    /\ ReturnKinds = {"return-start", "return-migrate"}
    /\ GuestKinds = DrainKinds \cup ReturnKinds
    /\ \A k \in OtherKinds : k \notin GuestKinds
    /\ \A k \in DrainKinds : k \notin ReturnKinds
  BY DEF DrainKinds, ReturnKinds, GuestKinds, OtherKinds

(* Nothing happened to a guest, no run was drafted, and no step about a    *)
(* guest took effect.                                                      *)
LEMMA Settles ==
    ASSUME List(runs), List(runs'), Len(runs)' = Len(runs),
           TasksOK, \A r \in 1 .. Len(runs) : RunReturns(r),
           UNCHANGED <<where, up, task>>,
           \A r \in 1 .. Len(runs) :
              /\ runs'[r].plane = runs[r].plane /\ runs'[r].steps = runs[r].steps
              /\ runs'[r].resumed = runs[r].resumed /\ runs'[r].found = runs[r].found
              /\ runs'[r].status \in OpenStatus => runs[r].status \in OpenStatus
              /\ \A i \in 1 .. Total(r) : Done(r, i)' /\ At(r, i).kind \in GuestKinds => Done(r, i)
    PROVE  TasksOK' /\ \A r \in 1 .. Len(runs)' : RunReturns(r)'
<1>1. TasksOK' /\ \A g : Home(g)' <=> Home(g)
  BY DEF TasksOK, Home
<1>2. DOMAIN runs = 1 .. Len(runs) /\ DOMAIN runs' = 1 .. Len(runs)
  BY ListElements
<1>3. ASSUME NEW r \in 1 .. Len(runs)
      PROVE  /\ Total(r)' = Total(r) /\ \A i : At(r, i)' = At(r, i)
             /\ LatestOfNode(r)' <=> LatestOfNode(r)
             /\ \A q : NothingBetween(q, r)' <=> NothingBetween(q, r)
  BY <1>2 DEF Total, At, LatestOfNode, NothingBetween
<1>4. ASSUME NEW r \in 1 .. Len(runs)
      PROVE  RunReturns(r)'
  <2>1. RunReturns(r)
    OBVIOUS
  <2>2. StepsOK(r)'
    <3>1. StepsOK(r)
      BY <2>1 DEF RunReturns
    <3>2. \A g : Returns(r, g)' <=> Returns(r, g)
      BY <1>3 DEF Returns
    <3>3. \A i : /\ DrainStep(At(r, i))' <=> DrainStep(At(r, i))
                 /\ ReturnStep(At(r, i))' <=> ReturnStep(At(r, i))
      BY <1>3 DEF DrainStep, ReturnStep
    <3> QED
      BY SMTT(30), <1>3, <3>1, <3>2, <3>3 DEF StepsOK, List
  <2>3. ASSUME LatestOfNode(r)'
        PROVE  Brought(r)' /\ Left(r)' /\ Inherited(r)'
    <3>1. Brought(r) /\ Left(r) /\ Inherited(r)
      BY <1>3, <2>1, <2>3 DEF RunReturns
    <3>2. Brought(r)'
      BY <1>1, <1>3, <3>1, KindsApart DEF Brought
    <3>3. Left(r)'
      <4>1. \A i : Away(At(r, i))' <=> Away(At(r, i))
        BY <1>1, <1>3 DEF Away
      <4> QED
        BY <1>3, <3>1, <4>1, KindsApart DEF Left
    <3>4. Inherited(r)'
      <4>1. \A g : TakenOver(r, g)' <=> TakenOver(r, g)
        BY <1>1, <1>3 DEF TakenOver, Returns
      <4> QED
        BY <1>3, <3>1, <4>1, KindsApart DEF Inherited
    <3> QED
      BY <3>2, <3>3, <3>4
  <2> QED
    BY <1>3, <2>1, <2>2, <2>3 DEF RunReturns
<1> QED
  BY <1>1, <1>4

(* An executor that moves on, but not to a step that took effect.          *)
LEMMA NothingActed ==
    ASSUME exec \in [Executors -> Copy], NEW e \in Executors, NEW x,
           exec' = [exec EXCEPT ![e] = x], x.pc # "acted" \/ x.result # "succeeded"
    PROVE  \A f \in Executors : \A r, i : Acted(f, r, i)' => Acted(f, r, i)
<1>1. exec'[e] = x /\ \A f \in Executors : f # e => exec'[f] = exec[f]
  OBVIOUS
<1>2. ASSUME NEW f \in Executors, NEW r, NEW i, Acted(f, r, i)'
      PROVE  Acted(f, r, i)
  <2>1. CASE f = e
    BY <1>1, <1>2, <2>1 DEF Acted
  <2>2. CASE f # e
    BY <1>1, <1>2, <2>2 DEF Acted, Holds
  <2> QED
    BY <2>1, <2>2
<1> QED
  BY <1>2

QuietInv == TasksOK /\ \A r \in 1 .. Len(runs) : RunReturns(r)

(* Such a move changes nothing in the ledger.                              *)
LEMMA ExecutorSettles ==
    ASSUME MaintenanceInv, QuietInv, NEW e \in Executors, NEW x,
           exec' = [exec EXCEPT ![e] = x], x.pc # "acted" \/ x.result # "succeeded",
           UNCHANGED <<where, up, task, runs>>
    PROVE  QuietInv'
<1>1. List(runs) /\ List(runs') /\ Len(runs)' = Len(runs) /\ exec \in [Executors -> Copy]
  BY DEF MaintenanceInv, RowsOK
<1>2. \A f \in Executors : \A r, i : Acted(f, r, i)' => Acted(f, r, i)
  BY <1>1, NothingActed
<1>3. \A r, i : Done(r, i)' => Done(r, i)
  BY <1>2 DEF Done
<1> QED
  BY <1>1, <1>3, Settles DEF QuietInv

LEMMA LoadSettles ==
    ASSUME MaintenanceInv, QuietInv, NEW e \in Executors, NEW r, Load(e, r)
    PROVE  QuietInv'
<1> DEFINE x == [Off EXCEPT !.pc = "asking", !.run = r, !.status = runs[r].status,
                            !.state = runs[r].state]
<1>1. exec' = [exec EXCEPT ![e] = x] /\ UNCHANGED <<where, up, task, runs>>
  BY DEF Load
<1>2. x.pc # "acted"
  BY DEF Off
<1> HIDE DEF x
<1> QED
  BY <1>1, <1>2, ExecutorSettles

LEMMA StartSettles ==
    ASSUME MaintenanceInv, QuietInv, NEW e \in Executors, Start(e)
    PROVE  QuietInv'
<1> DEFINE x == [[[exec[e] EXCEPT !.pc = "next"] EXCEPT !.i = 1] EXCEPT !.status = "running"]
<1>1. exec \in [Executors -> Copy]
  BY DEF MaintenanceInv
<1>2. exec' = [exec EXCEPT ![e] = x] /\ UNCHANGED <<where, up, task, runs>>
  BY <1>1 DEF Start
<1>3. x.pc # "acted"
  BY <1>1 DEF Copy
<1> HIDE DEF x
<1> QED
  BY <1>2, <1>3, ExecutorSettles

LEMMA TakeSettles ==
    ASSUME MaintenanceInv, QuietInv, NEW e \in Executors, Take(e)
    PROVE  QuietInv'
<1>1. exec \in [Executors -> Copy] /\ exec[e].pc = "next"
  BY DEF MaintenanceInv, Take
<1> DEFINE x == [exec[e] EXCEPT !.i = exec[e].i + 1]
           y == [exec[e] EXCEPT !.pc = "acting"]
           z == [exec[e] EXCEPT !.pc = "acted", !.result = "failed"]
<1>2. x.pc # "acted" /\ y.pc # "acted" /\ z.result # "succeeded"
  BY <1>1 DEF Copy
<1>3. UNCHANGED <<where, up, task, runs>>
  BY DEF Take
<1>4. \E w \in {x, y, z} : exec' = [exec EXCEPT ![e] = w]
  BY DEF Take
<1>5. PICK w : exec' = [exec EXCEPT ![e] = w] /\ (w.pc # "acted" \/ w.result # "succeeded")
  BY <1>2, <1>4
<1> QED
  BY <1>3, <1>5, ExecutorSettles

LEMMA CrashSettles ==
    ASSUME MaintenanceInv, QuietInv, NEW e \in Executors, Crash(e)
    PROVE  QuietInv'
<1>1. exec' = [exec EXCEPT ![e] = Off] /\ UNCHANGED <<where, up, task, runs>>
  BY DEF Crash
<1>2. Off.pc # "acted"
  BY DEF Off
<1> QED
  BY <1>1, <1>2, ExecutorSettles

(* One row of the ledger rewritten: the plan is as it was.                 *)
LEMMA RowStays ==
    ASSUME List(runs), NEW r \in 1 .. Len(runs), Row(runs[r]), NEW a, NEW b,
           runs' = Put(runs, r, Rewritten(runs[r], a, b))
    PROVE  /\ List(runs') /\ Len(runs') = Len(runs)
           /\ runs'[r].state = a /\ runs'[r].status = b
           /\ \A q \in 1 .. Len(runs) : q # r => runs'[q] = runs[q]
           /\ \A q \in 1 .. Len(runs) :
                 /\ runs'[q].plane = runs[q].plane /\ runs'[q].steps = runs[q].steps
                 /\ runs'[q].resumed = runs[q].resumed /\ runs'[q].found = runs[q].found
<1> DEFINE y == Rewritten(runs[r], a, b)
<1>1. PICK pl, st, sp, sa, re, fo :
        runs[r] = [plane |-> pl, status |-> st, steps |-> sp, state |-> sa, resumed |-> re, found |-> fo]
  BY DEF Row
<1>2. y = [plane |-> pl, status |-> b, steps |-> sp, state |-> a, resumed |-> re, found |-> fo]
  <2> DEFINE z == [plane |-> pl, status |-> st, steps |-> sp, state |-> a,
                   resumed |-> re, found |-> fo]
  <2>1. [runs[r] EXCEPT !.state = a] = z
    BY <1>1
  <2>2. [z EXCEPT !.status = b] = [plane |-> pl, status |-> b, steps |-> sp, state |-> a,
                                   resumed |-> re, found |-> fo]
    OBVIOUS
  <2> QED
    BY <2>1, <2>2 DEF Rewritten
<1>3. /\ y.state = a /\ y.status = b /\ y.plane = runs[r].plane /\ y.steps = runs[r].steps
      /\ y.resumed = runs[r].resumed /\ y.found = runs[r].found
  BY <1>1, <1>2
<1> HIDE DEF y
<1>4. /\ List(runs') /\ Len(runs') = Len(runs) /\ runs'[r] = y
      /\ \A q \in 1 .. Len(runs) : q # r => runs'[q] = runs[q]
  BY ListPut DEF y
<1> QED
  BY <1>3, <1>4

(* The ledger of one run rewritten by who holds it, or by an abort: what   *)
(* it then says succeeded had taken effect.                                *)
LEMMA LedgerSettles ==
    ASSUME MaintenanceInv, QuietInv, NEW r \in 1 .. Len(runs), NEW a, NEW b,
           runs' = Put(runs, r, Rewritten(runs[r], a, b)),
           b \in OpenStatus => runs[r].status \in OpenStatus,
           \A i \in 1 .. Total(r) : a[i] = "succeeded" => Done(r, i),
           \A f \in Executors : \A q, i : Acted(f, q, i)' => Acted(f, q, i),
           UNCHANGED <<where, up, task>>
    PROVE  QuietInv'
<1>1. List(runs) /\ Row(runs[r])
  BY DEF MaintenanceInv, RowsOK
<1>2. /\ List(runs') /\ Len(runs') = Len(runs)
      /\ runs'[r].state = a /\ runs'[r].status = b
      /\ \A q \in 1 .. Len(runs) : q # r => runs'[q] = runs[q]
      /\ \A q \in 1 .. Len(runs) :
            /\ runs'[q].plane = runs[q].plane /\ runs'[q].steps = runs[q].steps
            /\ runs'[q].resumed = runs[q].resumed /\ runs'[q].found = runs[q].found
  BY <1>1, RowStays
<1>3. \A q \in 1 .. Len(runs) :
         /\ runs'[q].status \in OpenStatus => runs[q].status \in OpenStatus
         /\ \A i \in 1 .. Total(q) : Done(q, i)' => Done(q, i)
  BY <1>2 DEF Done
<1> QED
  BY <1>1, <1>2, <1>3, Settles DEF QuietInv

(* The process that holds a run nobody else touched: its copy is the       *)
(* ledger, and the run is open.                                            *)
LEMMA Alone ==
    ASSUME MaintenanceInv, contested = {}, NEW e \in Executors, exec[e].pc # "off"
    PROVE  /\ exec[e].run \in 1 .. Len(runs) /\ AloneOK(exec[e].run)
           /\ exec[e].state = runs[exec[e].run].state
           /\ runs[exec[e].run].status \in OpenStatus
           /\ \A f \in Executors : Holds(f, exec[e].run) => f = e
<1>1. exec[e].run \in 1 .. Len(runs)
  BY CopyAtWork
<1>2. AloneOK(exec[e].run)
  BY <1>1 DEF MaintenanceInv
<1>3. Holds(e, exec[e].run)
  BY DEF Holds
<1> QED
  BY <1>1, <1>2, <1>3 DEF AloneOK

LEMMA CommitSettles ==
    ASSUME MaintenanceInv, QuietInv, contested = {}, NEW e \in Executors, CommitStep(e)
    PROVE  QuietInv'
<1> PICK r : r = exec[e].run
  OBVIOUS
<1> PICK i : i = exec[e].i
  OBVIOUS
<1> DEFINE a == [exec[e].state EXCEPT ![i] = "succeeded"]
           b == IF writer = e THEN "running" ELSE runs[r].status
           x == [exec[e] EXCEPT !.pc = "next", !.i = exec[e].i + 1, !.state = a]
<1>1. /\ exec \in [Executors -> Copy] /\ exec[e].pc = "acted" /\ exec[e].result = "succeeded"
      /\ runs' = [runs EXCEPT ![r].state = a, ![r].status = IF writer = e THEN "running" ELSE @]
      /\ exec' = [exec EXCEPT ![e].pc = "next", ![e].i = @ + 1, ![e].state = a]
      /\ UNCHANGED <<where, up, task>>
  BY DEF MaintenanceInv, CommitStep
<1>2. /\ r \in 1 .. Len(runs) /\ exec[e].state = runs[r].state /\ runs[r].status \in OpenStatus
  BY <1>1, Alone
<1>3. List(runs) /\ Row(runs[r]) /\ runs[r].state \in [1 .. Total(r) -> StepState]
  BY <1>2 DEF MaintenanceInv, RowsOK
<1>4. exec' = [exec EXCEPT ![e] = x] /\ x.pc = "next"
  BY <1>1 DEF Copy
<1>5. \A j \in 1 .. Total(r) : a[j] = "succeeded" => Done(r, j)
  <2>1. Acted(e, r, i)
    BY <1>1 DEF Acted, Holds
  <2>2. \A j \in 1 .. Total(r) : j # i => a[j] = runs[r].state[j]
    BY <1>2, <1>3
  <2> QED
    BY <2>1, <2>2 DEF Done
<1> HIDE DEF a, x
<1>6. runs' = Put(runs, r, Rewritten(runs[r], a, b))
  <2>1. DOMAIN runs = 1 .. Len(runs) /\ [runs[r] EXCEPT !.state = a].status = runs[r].status
    BY <1>3, ListElements, RowParts
  <2> QED
    BY <1>1, <1>2, <2>1 DEF Put, Rewritten
<1>7. b \in OpenStatus => runs[r].status \in OpenStatus
  BY <1>2
<1>8. \A f \in Executors : \A q, j : Acted(f, q, j)' => Acted(f, q, j)
  BY <1>1, <1>4, NothingActed
<1> HIDE DEF b
<1>9. r \in 1 .. Len(runs) /\ UNCHANGED <<where, up, task>>
  BY <1>1, <1>2
<1> QED
  BY <1>5, <1>6, <1>7, <1>8, <1>9, LedgerSettles

LEMMA StopSettles ==
    ASSUME MaintenanceInv, QuietInv, contested = {}, NEW e \in Executors, StopRun(e)
    PROVE  QuietInv'
<1>b. PICK b : b = "failed"
  OBVIOUS
<1> PICK r : r = exec[e].run
  OBVIOUS
<1> PICK i : i = exec[e].i
  OBVIOUS
<1> DEFINE a == SkipFrom([exec[e].state EXCEPT ![i] = "failed"], i + 1)
<1>1. /\ exec \in [Executors -> Copy] /\ exec[e].pc = "acted"
      /\ runs' = [runs EXCEPT ![r].state = a, ![r].status = "failed"]
      /\ exec' = [exec EXCEPT ![e] = Off]
      /\ UNCHANGED <<where, up, task>>
  BY DEF MaintenanceInv, StopRun
<1>2. r \in 1 .. Len(runs) /\ exec[e].state = runs[r].state /\ runs[r].status \in OpenStatus
  BY <1>1, Alone
<1>3. List(runs) /\ Row(runs[r]) /\ runs[r].state \in [1 .. Total(r) -> StepState]
  BY <1>2 DEF MaintenanceInv, RowsOK
<1>5. \A j \in 1 .. Total(r) : a[j] = "succeeded" => Done(r, j)
  BY <1>2, <1>3 DEF Done, SkipFrom
<1> HIDE DEF a
<1>6. runs' = Put(runs, r, Rewritten(runs[r], a, b))
  <2>1. DOMAIN runs = 1 .. Len(runs)
    BY <1>3, ListElements
  <2> QED
    BY <1>1, <1>2, <1>b, <2>1 DEF Put, Rewritten
<1>7. Off.pc # "acted" /\ b \notin OpenStatus
  BY <1>b DEF Off, OpenStatus
<1>8. \A f \in Executors : \A q, j : Acted(f, q, j)' => Acted(f, q, j)
  BY <1>1, <1>7, NothingActed
<1>9. (b \in OpenStatus => runs[r].status \in OpenStatus) /\ UNCHANGED <<where, up, task>>
  BY <1>1, <1>7
<1> QED
  BY <1>2, <1>5, <1>6, <1>8, <1>9, LedgerSettles

LEMMA FinishSettles ==
    ASSUME MaintenanceInv, QuietInv, contested = {}, NEW e \in Executors, Finish(e)
    PROVE  QuietInv'
<1>b. PICK b : b = "succeeded"
  OBVIOUS
<1> PICK r : r = exec[e].run
  OBVIOUS
<1> PICK a : a = runs[r].state
  OBVIOUS
<1>1. /\ exec \in [Executors -> Copy] /\ exec[e].pc = "next"
      /\ runs' = [runs EXCEPT ![r].status = "succeeded"]
      /\ exec' = [exec EXCEPT ![e] = Off]
      /\ UNCHANGED <<where, up, task>>
  BY DEF MaintenanceInv, Finish
<1>2. r \in 1 .. Len(runs) /\ runs[r].status \in OpenStatus
  BY <1>1, Alone
<1>3. List(runs) /\ Row(runs[r])
  BY <1>2 DEF MaintenanceInv, RowsOK
<1>5. \A j \in 1 .. Total(r) : a[j] = "succeeded" => Done(r, j)
  BY DEF Done
<1>6. runs' = Put(runs, r, Rewritten(runs[r], a, b))
  <2>1. DOMAIN runs = 1 .. Len(runs) /\ [runs[r] EXCEPT !.state = a] = runs[r]
    BY <1>3, ListElements, RowParts
  <2> QED
    BY <1>1, <1>2, <1>b, <2>1 DEF Put, Rewritten
<1>7. Off.pc # "acted" /\ b \notin OpenStatus
  BY <1>b DEF Off, OpenStatus
<1>8. \A f \in Executors : \A q, j : Acted(f, q, j)' => Acted(f, q, j)
  BY <1>1, <1>7, NothingActed
<1>9. (b \in OpenStatus => runs[r].status \in OpenStatus) /\ UNCHANGED <<where, up, task>>
  BY <1>1, <1>7
<1> QED
  BY <1>2, <1>5, <1>6, <1>8, <1>9, LedgerSettles

LEMMA AbortSettles ==
    ASSUME MaintenanceInv, QuietInv, NEW r \in DOMAIN runs, Abort(r)
    PROVE  QuietInv'
<1>b. PICK b : b = "aborted"
  OBVIOUS
<1> DEFINE a == SkipFrom(runs[r].state, 1)
<1>1. /\ runs' = [runs EXCEPT ![r].state = a, ![r].status = "aborted"]
      /\ UNCHANGED <<where, up, task, exec>>
  BY DEF Abort
<1>2. DOMAIN runs = 1 .. Len(runs) /\ r \in 1 .. Len(runs)
  BY ListElements DEF MaintenanceInv, RowsOK
<1>3. List(runs) /\ Row(runs[r]) /\ runs[r].state \in [1 .. Total(r) -> StepState]
  BY <1>2 DEF MaintenanceInv, RowsOK
<1>5. \A j \in 1 .. Total(r) : a[j] = "succeeded" => Done(r, j)
  BY <1>3 DEF Done, SkipFrom
<1> HIDE DEF a
<1>6. runs' = Put(runs, r, Rewritten(runs[r], a, b))
  BY <1>1, <1>2, <1>b DEF Put, Rewritten
<1>7. b \notin OpenStatus
  BY <1>b DEF OpenStatus
<1>8. \A f \in Executors : \A q, j : Acted(f, q, j)' => Acted(f, q, j)
  BY <1>1 DEF Acted, Holds
<1>9. (b \in OpenStatus => runs[r].status \in OpenStatus) /\ UNCHANGED <<where, up, task>>
  BY <1>1, <1>7
<1> QED
  BY <1>2, <1>5, <1>6, <1>8, <1>9, LedgerSettles

(* A step's effect.                                                        *)
LEMMA ActSettles ==
    ASSUME MaintenanceInv, QuietInv, contested = {}, NEW e \in Executors, Act(e)
    PROVE  QuietInv'
<1> PICK r : r = exec[e].run
  OBVIOUS
<1> PICK i : i = exec[e].i
  OBVIOUS
<1> PICK s : s = At(r, i)
  OBVIOUS
<1>1. exec \in [Executors -> Copy] /\ exec[e].pc = "acting" /\ UNCHANGED <<where, up, runs>>
  BY DEF MaintenanceInv, Act
<1>2. /\ r \in 1 .. Len(runs) /\ AloneOK(r) /\ exec[e].state = runs[r].state
      /\ runs[r].status \in OpenStatus /\ \A f \in Executors : Holds(f, r) => f = e
  BY <1>1, Alone
<1>3. i \in 1 .. Total(r) /\ Total(r) \in Nat /\ runs[r].state[i] = "planned"
  <2>1. CopyOK(exec[e]) /\ Total(r) \in Nat \ {0}
    BY <1>1, CopyAtWork
  <2> QED
    BY <1>1, <1>2, <2>1 DEF CopyOK
<1>4. List(runs) /\ List(runs') /\ Len(runs)' = Len(runs) /\ RunReturns(r) /\ StepsOK(r)
  BY <1>1, <1>2 DEF MaintenanceInv, RowsOK, QuietInv, RunReturns
<1>5. CASE exec' = [exec EXCEPT ![e].pc = "acted", ![e].result = "failed"] /\ UNCHANGED task
  <2> DEFINE x == [exec[e] EXCEPT !.pc = "acted", !.result = "failed"]
  <2>1. exec' = [exec EXCEPT ![e] = x] /\ x.result # "succeeded"
    BY <1>1, <1>5 DEF Copy
  <2> HIDE DEF x
  <2> QED
    BY <1>1, <1>5, <2>1, ExecutorSettles
<1> DEFINE y == [exec[e] EXCEPT !.pc = "acted", !.result = "succeeded"]
<1>6. ASSUME exec' = [exec EXCEPT ![e].pc = "acted", ![e].result = "succeeded"]
      PROVE  \A q, j : Done(q, j)' => Done(q, j) \/ (q = r /\ j = i)
  <2>1. exec' = [exec EXCEPT ![e] = y] /\ y.run = r /\ y.i = i
    BY <1>1, <1>6 DEF Copy
  <2> HIDE DEF y
  <2>2. exec'[e] = y /\ \A f \in Executors : f # e => exec'[f] = exec[f]
    BY <1>1, <2>1
  <2>3. ASSUME NEW f \in Executors, NEW q, NEW j, Acted(f, q, j)'
        PROVE  Acted(f, q, j) \/ (q = r /\ j = i)
    <3>1. CASE f = e
      BY <2>1, <2>2, <2>3, <3>1 DEF Acted, Holds
    <3>2. CASE f # e
      BY <2>2, <2>3, <3>2 DEF Acted, Holds
    <3> QED
      BY <3>1, <3>2
  <2> QED
    BY <1>1, <2>3 DEF Done
<1>7. CASE /\ exec' = [exec EXCEPT ![e].pc = "acted", ![e].result = "succeeded"]
           /\ s.kind \in OtherKinds /\ Succeeds(s)
  <2>1. UNCHANGED task
    <3>1. s.kind \notin GuestKinds
      BY <1>7, KindsApart
    <3> QED
      BY <1>7, <3>1 DEF Succeeds, OtherKinds
  <2>2. \A q, j : Done(q, j)' /\ At(q, j).kind \in GuestKinds => Done(q, j)
    BY <1>6, <1>7, KindsApart
  <2> QED
    BY <1>1, <1>4, <2>1, <2>2, Settles DEF QuietInv
<1>8. CASE /\ exec' = [exec EXCEPT ![e].pc = "acted", ![e].result = "succeeded"]
           /\ s.kind \notin OtherKinds /\ Succeeds(s)
  <2>1. runs[r].plane = "proxmox" /\ (DrainStep(s) \/ ReturnStep(s))
    BY <1>3, <1>4, <1>8 DEF StepsOK
  <2>2. LatestOfNode(r)
    BY <1>2, <1>4, <2>1 DEF RunReturns
  <2>3. Brought(r) /\ Left(r) /\ Inherited(r)
    BY <1>4, <2>2 DEF RunReturns
  <2>4. /\ s.kind \in GuestKinds /\ s.what \in Guests
        /\ where[s.what] = s.from /\ task[s.what] = NoTask
        /\ task' = [task EXCEPT ![s.what] = [kind |-> TaskKind(s.kind), to |-> s.to]]
    <3>1. s.kind \in GuestKinds /\ s.what \in Guests
      BY <2>1, KindsApart DEF DrainStep, ReturnStep
    <3> QED
      BY <1>8, <3>1 DEF Succeeds, Accepts, GuestKinds, ReturnKinds, DrainKinds
  <2>5. TasksOK
    BY DEF QuietInv
  <2>6. /\ task'[s.what] = [kind |-> TaskKind(s.kind), to |-> s.to] /\ DOMAIN task' = Guests
        /\ \A g \in Guests : g # s.what => task'[g] = task[g]
    BY <2>4, <2>5 DEF TasksOK
  <2>7. /\ ReturnStep(s) => Home(s.what)'
        /\ s.kind = "drain-migrate" => Away(s)'
        /\ s.what \in LocalDisk => TaskKind(s.kind) \in {"stop", "start"}
        /\ s.what \notin LocalDisk => TaskKind(s.kind) = "migrate"
    BY <1>1, <2>1, <2>4, <2>6 DEF ReturnStep, DrainStep, Home, Away, TaskKind, ReturnKinds, DrainKinds
  <2>8. TasksOK'
    BY <1>1, <2>5, <2>6, <2>7 DEF TasksOK
  <2>9. \A g \in Guests : g # s.what => (Home(g)' <=> Home(g))
    BY <1>1, <2>6 DEF Home
  <2>10. /\ \A q : Total(q)' = Total(q) /\ (LatestOfNode(q)' <=> LatestOfNode(q))
         /\ \A q, j : At(q, j)' = At(q, j)
         /\ \A q, g : Returns(q, g)' <=> Returns(q, g)
         /\ \A q, g : NothingBetween(q, g)' <=> NothingBetween(q, g)
    BY <1>1 DEF Total, LatestOfNode, At, Returns, NothingBetween
  <2>11. \A q : StepsOK(q) => StepsOK(q)'
    <3>1. \A t : (DrainStep(t)' <=> DrainStep(t)) /\ (ReturnStep(t)' <=> ReturnStep(t))
      BY <1>1 DEF DrainStep, ReturnStep
    <3> QED
      BY <1>1, <2>10, <3>1 DEF StepsOK
  (* While a guest leaves, nothing has been brought back.                  *)
  <2>12. ASSUME NEW j \in 1 .. Total(r), Done(r, j), At(r, j).kind \in ReturnKinds
         PROVE  ~ DrainStep(s)
    <3>1. runs[r].state[j] = "succeeded"
      BY <1>1, <1>2, <2>12 DEF Done, Acted
    <3>2. ~ (i < j)
      BY <1>2, <1>3, <3>1 DEF AloneOK
    <3> QED
      BY <1>3, <1>4, <2>12, <3>2 DEF StepsOK, DrainStep
  <2>13. Brought(r)'
    <3> SUFFICES ASSUME NEW j \in 1 .. Total(r), Done(r, j)', At(r, j).kind \in ReturnKinds
                 PROVE  Home(At(r, j).what)'
      BY <2>10 DEF Brought
    <3>1. CASE j = i
      BY <2>1, <2>7, <2>10, <3>1, KindsApart DEF DrainStep
    <3>2. CASE j # i
      <4>1. Done(r, j) /\ Home(At(r, j).what)
        BY <1>6, <1>8, <2>3, <3>2 DEF Brought
      <4>2. ReturnStep(s)
        BY <2>1, <2>12, <4>1
      <4>3. At(r, j).what \in Guests
        BY <1>4, KindsApart DEF StepsOK, DrainStep, ReturnStep
      <4> QED
        BY <2>7, <2>9, <2>10, <4>1, <4>2, <4>3
    <3> QED
      BY <3>1, <3>2
  <2>14. Left(r)'
    <3> SUFFICES ASSUME NEW j \in 1 .. Total(r), Done(r, j)', At(r, j).kind = "drain-migrate"
                 PROVE  Away(At(r, j))'
      BY <2>10 DEF Left, Away
    <3>1. CASE j = i
      BY <2>7, <2>10, <3>1
    <3>2. CASE j # i
      <4>1. Done(r, j) /\ Away(At(r, j))
        BY <1>6, <1>8, <2>3, <3>2 DEF Left
      <4>2. At(r, j).what \in Guests
        BY <1>4, KindsApart DEF StepsOK, DrainStep, ReturnStep
      <4>3. CASE At(r, j).what = s.what
        <5>1. ReturnStep(s)
          BY <1>3, <1>4, <2>1, <3>2, <4>3, KindsApart DEF StepsOK, DrainStep
        <5> QED
          BY <2>7, <2>10, <4>3, <5>1 DEF Away
      <4>4. CASE At(r, j).what # s.what
        BY <1>1, <2>6, <2>9, <2>10, <4>1, <4>2, <4>4 DEF Away
      <4> QED
        BY <4>3, <4>4
    <3> QED
      BY <3>1, <3>2
  <2>15. Inherited(r)'
    <3> SUFFICES ASSUME NEW q \in 1 .. Len(runs), q = runs[r].resumed, NothingBetween(q, r),
                        NEW j \in 1 .. Total(q), Done(q, j)', At(q, j).kind \in DrainKinds
                 PROVE  TakenOver(r, At(q, j).what)'
      BY <1>1, <2>10 DEF Inherited
    <3>1. q # r
      <4>1. runs[r].resumed \in 1 .. r - 1
        BY <1>4, MaintenanceAssumption DEF RunReturns, List
      <4> QED
        BY <1>2, <1>4, <4>1 DEF List
    <3>2. Done(q, j) /\ TakenOver(r, At(q, j).what)
      BY <1>6, <1>8, <2>3, <3>1 DEF Inherited
    <3>3. At(q, j).what \in Guests
      <4>1. StepsOK(q)
        BY DEF QuietInv, RunReturns
      <4> QED
        BY <4>1, KindsApart DEF StepsOK, DrainStep, ReturnStep
    <3>4. CASE Returns(r, At(q, j).what)
      BY <2>10, <3>4 DEF TakenOver
    <3>5. CASE /\ Home(At(q, j).what)
               /\ \A k \in 1 .. Total(r) : At(r, k).kind \in GuestKinds => At(r, k).what # At(q, j).what
      <4>1. At(q, j).what # s.what
        BY <1>3, <2>4, <3>5
      <4> QED
        BY <2>9, <2>10, <3>3, <3>5, <4>1 DEF TakenOver
    <3> QED
      BY <3>2, <3>4, <3>5 DEF TakenOver
  <2>16. ASSUME NEW q \in 1 .. Len(runs)
         PROVE  RunReturns(q)'
    <3>1. RunReturns(q)
      BY DEF QuietInv
    <3>2. LatestOfNode(q) => q = r
      BY <1>2, <1>4, <2>2, LatestOne
    <3> QED
      BY <1>1, <2>10, <2>11, <2>13, <2>14, <2>15, <3>1, <3>2 DEF RunReturns
  <2> QED
    BY <1>4, <2>8, <2>16 DEF QuietInv
<1>9. s = StepOf(e)
  BY DEF At, StepOf, Mine
<1> QED
  BY <1>5, <1>7, <1>8, <1>9 DEF Act

(* A task ends as it should: its guest is home if it was on its way home,  *)
(* and where its run put it if it was on its way there.                    *)
LEMMA TaskSettles ==
    ASSUME MaintenanceInv, QuietInv, mishaps = 0, mishaps' = 0, NEW g \in Guests, TaskEnds(g)
    PROVE  QuietInv'
<1>1. TasksOK
  BY DEF QuietInv
<1>2. /\ task[g] # NoTask /\ task' = [task EXCEPT ![g] = NoTask] /\ UNCHANGED <<runs, exec>>
      /\ \/ task[g].kind = "migrate" /\ where' = [where EXCEPT ![g] = task[g].to] /\ UNCHANGED up
         \/ /\ task[g].kind # "migrate" /\ UNCHANGED where
            /\ up' = [up EXCEPT ![g] = (task[g].kind = "start")]
  BY DEF TaskEnds
<1>3. /\ DOMAIN task' = Guests /\ DOMAIN where' = Guests /\ up' \in [Guests -> BOOLEAN]
      /\ task'[g] = NoTask
      /\ \A h \in Guests : h # g => /\ task'[h] = task[h] /\ where'[h] = where[h]
                                    /\ up'[h] = up[h]
  BY <1>1, <1>2 DEF TasksOK
<1>4. /\ task[g].kind = "migrate" => where'[g] = task[g].to /\ up'[g] = up[g] /\ g \notin LocalDisk
      /\ task[g].kind # "migrate" => /\ where'[g] = where[g] /\ g \in LocalDisk
                                     /\ up'[g] <=> task[g].kind = "start"
  BY <1>1, <1>2 DEF TasksOK
<1>5. TasksOK'
  BY <1>1, <1>3, <1>4 DEF TasksOK, NoTask
<1>6. \A h \in Guests \ LocalDisk : up'[h] = up[h]
  BY <1>3, <1>4
<1>7. \A h \in Guests : Home(h) => Home(h)'
  <2> SUFFICES ASSUME NEW h \in Guests, Home(h) PROVE Home(h)'
    OBVIOUS
  <2>1. CASE h # g
    BY <1>3, <2>1 DEF Home
  <2>2. CASE h = g
    BY <1>2, <1>3, <1>4, <2>2 DEF Home
  <2> QED
    BY <2>1, <2>2
<1>8. \A t : t.what \in Guests /\ Away(t) => Away(t)'
  <2> SUFFICES ASSUME NEW t, t.what \in Guests, Away(t) PROVE Away(t)'
    OBVIOUS
  <2>1. CASE t.what # g
    BY <1>3, <1>7, <2>1 DEF Away
  <2>2. CASE t.what = g
    BY <1>2, <1>3, <1>4, <1>7, <2>2 DEF Away
  <2> QED
    BY <2>1, <2>2
<1>9. /\ \A q : Total(q)' = Total(q) /\ (LatestOfNode(q)' <=> LatestOfNode(q))
      /\ \A q, j : At(q, j)' = At(q, j) /\ (Done(q, j)' <=> Done(q, j))
      /\ \A q, h : Returns(q, h)' <=> Returns(q, h)
      /\ \A q, h : NothingBetween(q, h)' <=> NothingBetween(q, h)
  BY <1>2 DEF Total, LatestOfNode, At, Returns, NothingBetween, Done, Acted, Holds
<1>10. ASSUME NEW r \in 1 .. Len(runs)
       PROVE  RunReturns(r)'
  <2>1. RunReturns(r) /\ StepsOK(r)
    BY DEF QuietInv, RunReturns
  <2>2. StepsOK(r)'
    <3>1. \A t : (DrainStep(t) => DrainStep(t)') /\ (ReturnStep(t) => ReturnStep(t)')
      BY <1>6 DEF DrainStep, ReturnStep
    <3> QED
      BY <1>2, <1>9, <2>1, <3>1 DEF StepsOK
  <2>3. ASSUME NEW q \in 1 .. Len(runs), NEW j \in 1 .. Total(q), At(q, j).kind \in GuestKinds
        PROVE  At(q, j).what \in Guests
    <3>1. StepsOK(q)
      BY DEF QuietInv, RunReturns
    <3> QED
      BY <2>3, <3>1, KindsApart DEF StepsOK, DrainStep, ReturnStep
  <2>4. ASSUME LatestOfNode(r)
        PROVE  Brought(r)' /\ Left(r)' /\ Inherited(r)'
    <3>1. Brought(r) /\ Left(r) /\ Inherited(r)
      BY <2>1, <2>4 DEF RunReturns
    <3>2. Brought(r)'
      BY <1>7, <1>9, <2>3, <3>1, KindsApart DEF Brought
    <3>3. Left(r)'
      <4> SUFFICES ASSUME NEW j \in 1 .. Total(r), Done(r, j), At(r, j).kind = "drain-migrate"
                   PROVE  Away(At(r, j))'
        BY <1>9 DEF Left, Away
      <4>1. Away(At(r, j)) /\ At(r, j).what \in Guests
        BY <2>3, <3>1, KindsApart DEF Left
      <4> QED
        BY <1>8, <1>9, <4>1 DEF Away
    <3>4. Inherited(r)'
      <4> SUFFICES ASSUME NEW q \in 1 .. Len(runs), q = runs[r].resumed, NothingBetween(q, r),
                          NEW j \in 1 .. Total(q), Done(q, j), At(q, j).kind \in DrainKinds
                   PROVE  TakenOver(r, At(q, j).what)'
        BY <1>2, <1>9 DEF Inherited
      <4>1. TakenOver(r, At(q, j).what) /\ At(q, j).what \in Guests
        BY <2>3, <3>1, KindsApart DEF Inherited
      <4> QED
        BY <1>7, <1>9, <4>1 DEF TakenOver
    <3> QED
      BY <3>2, <3>3, <3>4
  <2> QED
    BY <1>2, <1>9, <2>1, <2>2, <2>4 DEF RunReturns
<1> QED
  BY <1>2, <1>5, <1>10 DEF QuietInv

(* What a draft does to the ledger, and what it leaves.                    *)
LEMMA DraftSettles ==
    ASSUME MaintenanceInv, QuietInv, NEW plane, NEW steps, NEW resumed,
           DraftRun(plane, steps, resumed), NEW n, n = Len(runs) + 1,
           StepsOK(n)',
           plane = "proxmox" => /\ resumed = NoRun \/ resumed \in 1 .. Len(runs)
                                /\ Inherited(n)',
           plane # "proxmox" => resumed = NoRun
    PROVE  QuietInv'
<1> PICK m : m = Len(runs)
  OBVIOUS
<1> PICK x : x = [plane |-> plane, status |-> "planned", steps |-> steps,
                  state |-> [i \in 1 .. Len(steps) |-> "planned"],
                  resumed |-> resumed, found |-> Running]
  OBVIOUS
<1>1. /\ NodeIsFree(plane) /\ Len(steps) \in Nat /\ runs' = Append(runs, x)
      /\ UNCHANGED <<where, up, task, exec>>
  BY DEF DraftRun
<1>2. List(runs) /\ DOMAIN runs = 1 .. m /\ m \in Nat /\ n = m + 1
  BY ListElements DEF MaintenanceInv, RowsOK, List
<1>3. /\ x.plane = plane /\ x.steps = steps /\ x.resumed = resumed /\ x.found = Running
      /\ x.state = [i \in 1 .. Len(steps) |-> "planned"]
  OBVIOUS
<1>4. /\ List(runs') /\ Len(runs') = n /\ runs'[n] = x
      /\ \A q \in 1 .. m : runs'[q] = runs[q]
  BY <1>1, <1>2, ListAppended
<1>5. DOMAIN runs' = 1 .. n /\ 1 .. n = (1 .. m) \cup {n}
  <2>1. DOMAIN runs' = 1 .. n
    BY <1>4, ListElements
  <2> QED
    BY <1>2, <2>1
<1>6. TasksOK' /\ \A g : Home(g)' <=> Home(g)
  BY <1>1 DEF QuietInv, TasksOK, Home
<1>7. /\ \A q \in 1 .. m : Total(q)' = Total(q) /\ (\A j : At(q, j)' = At(q, j))
      /\ \A q \in 1 .. m : \A j : Done(q, j)' <=> Done(q, j)
      /\ \A q \in 1 .. m : \A g : Returns(q, g)' <=> Returns(q, g)
      /\ Total(n)' = Len(steps)
  BY <1>1, <1>3, <1>4 DEF Total, At, Done, Acted, Holds, Returns
<1>8. \A j \in 1 .. Total(n)' : ~ Done(n, j)'
  <2>1. \A f \in Executors : ~ Holds(f, n)'
    BY <1>1, <1>2 DEF MaintenanceInv, CopyOK, Holds
  <2> QED
    BY <1>3, <1>4, <1>7, <2>1 DEF Done, Acted
<1>9. ASSUME NEW r \in 1 .. m
      PROVE  RunReturns(r)'
  <2>1. RunReturns(r) /\ StepsOK(r)
    BY DEF QuietInv, RunReturns
  <2>2. StepsOK(r)'
    <3>1. \A t : (DrainStep(t)' <=> DrainStep(t)) /\ (ReturnStep(t)' <=> ReturnStep(t))
      BY <1>1 DEF DrainStep, ReturnStep
    <3>2. /\ runs'[r] = runs[r] /\ Total(r)' = Total(r) /\ \A j : At(r, j)' = At(r, j)
          /\ \A g : Returns(r, g)' <=> Returns(r, g)
      BY <1>4, <1>7
    <3> QED
      BY <2>1, <3>1, <3>2 DEF StepsOK
  <2>3. CASE plane = "proxmox"
    <3>1. ~ LatestOfNode(r)'
      BY SMTT(30), <1>2, <1>3, <1>4, <1>5, <2>3 DEF LatestOfNode
    <3>2. runs[r].plane = "proxmox" => runs[r].status \notin OpenStatus
      BY <1>1, <1>2, <2>3 DEF NodeIsFree
    <3> QED
      BY <1>4, <2>1, <2>2, <3>1, <3>2 DEF RunReturns
  <2>4. CASE plane # "proxmox"
    <3>1. LatestOfNode(r)' <=> LatestOfNode(r)
      BY <1>2, <1>3, <1>4, <1>5, <2>4 DEF LatestOfNode
    <3>2. \A q \in 1 .. m : NothingBetween(q, r)' => NothingBetween(q, r)
      BY <1>2, <1>4, <1>5 DEF NothingBetween
    <3>3. ASSUME LatestOfNode(r)
          PROVE  Brought(r)' /\ Left(r)' /\ Inherited(r)'
      <4>1. Brought(r) /\ Left(r) /\ Inherited(r)
        BY <2>1, <3>3 DEF RunReturns
      <4>2. Brought(r)'
        BY <1>6, <1>7, <4>1 DEF Brought
      <4>3. Left(r)'
        <5>1. \A j : Away(At(r, j))' <=> Away(At(r, j))
          BY <1>1, <1>6, <1>7 DEF Away
        <5> QED
          BY <1>7, <4>1, <5>1 DEF Left
      <4>4. Inherited(r)'
        <5> SUFFICES ASSUME NEW q \in 1 .. n, q = runs'[r].resumed, NothingBetween(q, r)',
                            NEW j \in 1 .. Total(q)', Done(q, j)', At(q, j)'.kind \in DrainKinds
                     PROVE  TakenOver(r, At(q, j).what)'
          BY <1>4 DEF Inherited
        <5>1. q \in 1 .. m
          <6>1. runs[r].resumed \in 1 .. r - 1
            BY <1>2, <1>4, <2>1, MaintenanceAssumption DEF RunReturns
          <6> QED
            BY <1>2, <1>4, <6>1
        <5>2. TakenOver(r, At(q, j).what)
          BY <1>4, <1>7, <3>2, <4>1, <5>1 DEF Inherited
        <5> QED
          BY <1>6, <1>7, <5>1, <5>2 DEF TakenOver
      <4> QED
        BY <4>2, <4>3, <4>4
    <3> QED
      BY <1>4, <2>1, <2>2, <3>1, <3>3 DEF RunReturns
  <2> QED
    BY <2>3, <2>4
<1>10. RunReturns(n)'
  <2>1. Brought(n)' /\ Left(n)'
    BY <1>8 DEF Brought, Left
  <2>2. plane = "proxmox" => LatestOfNode(n)'
    BY <1>2, <1>3, <1>4, <1>5 DEF LatestOfNode
  <2>3. plane # "proxmox" => ~ LatestOfNode(n)' /\ runs'[n].plane # "proxmox"
    BY <1>3, <1>4 DEF LatestOfNode
  <2>4. runs'[n].resumed = NoRun \/ runs'[n].resumed \in 1 .. n - 1
    BY <1>2, <1>3, <1>4
  <2> QED
    BY <2>1, <2>2, <2>3, <2>4 DEF RunReturns
<1> QED
  BY <1>4, <1>5, <1>6, <1>9, <1>10 DEF QuietInv
-----------------------------------------------------------------------------
(* A Talos plan is about no guest.                                         *)
LEMMA TalosPlan ==
    ASSUME NEW members, List(members), NEW kubernetes \in BOOLEAN
    PROVE  LET s == TalosSteps(members, kubernetes) IN
              List(s) /\ \A i \in 1 .. Len(s) : s[i].kind \in OtherKinds
<1> PICK n : n = Len(members)
  OBVIOUS
<1> DEFINE T == {Step("talos-upgrade", members[i], NoNode, NoNode) : i \in 1 .. n}
           U == {Step("k8s-upgrade", Node, NoNode, NoNode)}
<1>1. PICK a : a = [i \in 1 .. n |-> Step("talos-upgrade", members[i], NoNode, NoNode)]
  OBVIOUS
<1>2. PICK b : b = IF kubernetes THEN <<Step("k8s-upgrade", Node, NoNode, NoNode)>> ELSE <<>>
  OBVIOUS
<1>3. List(a) /\ Len(a) = n
  <2>1. a \in [1 .. n -> T] /\ n \in Nat
    BY <1>1 DEF List
  <2> HIDE DEF T
  <2> QED
    BY <2>1, FunctionIsList
<1>4. \E k \in Nat : b \in [1 .. k -> U]
  <2>1. CASE kubernetes
    <3>1. b \in [1 .. 1 -> U]
      BY <1>2, <2>1
    <3> QED
      BY <3>1
  <2>2. CASE ~ kubernetes
    <3>1. b \in [1 .. 0 -> U]
      BY <1>2, <2>2, EmptySeq, LenProperties
    <3> QED
      BY <3>1
  <2> QED
    BY <2>1, <2>2
<1>5. PICK k \in Nat : b \in [1 .. k -> U]
  BY <1>4
<1>6. List(b) /\ Len(b) = k
  <2> HIDE DEF U
  <2> QED
    BY <1>5, FunctionIsList
<1>7. /\ \A i \in 1 .. n : a[i].kind = "talos-upgrade"
      /\ \A i \in 1 .. k : b[i].kind = "k8s-upgrade"
  BY <1>1, <1>5 DEF Step
<1>8. PICK s : s = a \o b
  OBVIOUS
<1>9. /\ List(s) /\ Len(s) = n + k
      /\ \A i \in 1 .. n : s[i] = a[i]
      /\ \A i \in 1 .. k : s[n + i] = b[i]
  <2>1. List(a) /\ List(b)
    BY <1>3, <1>6
  <2>2. /\ List(a \o b) /\ Len(a \o b) = Len(a) + Len(b)
        /\ \A i \in 1 .. Len(a) : (a \o b)[i] = a[i]
        /\ \A i \in 1 .. Len(b) : (a \o b)[Len(a) + i] = b[i]
    BY <2>1, Joined
  <2> QED
    BY <1>3, <1>6, <1>8, <2>2
<1>10. n \in Nat
  BY DEF List
<1>11. ASSUME NEW i \in 1 .. n + k
       PROVE  s[i].kind \in OtherKinds
  <2>1. CASE i <= n
    BY <1>7, <1>9, <1>10, <2>1 DEF OtherKinds
  <2>2. CASE i > n
    <3>1. PICK j : j = i - n
      OBVIOUS
    <3>2. j \in 1 .. k /\ n + j = i
      BY <1>10, <2>2, <3>1
    <3>3. s[i] = b[j]
      BY <1>9, <3>2
    <3> QED
      BY <1>7, <3>2, <3>3 DEF OtherKinds
  <2> QED
    BY <1>10, <2>1, <2>2
<1>12. s = TalosSteps(members, kubernetes)
  BY <1>1, <1>2, <1>8 DEF TalosSteps
<1> QED
  BY <1>9, <1>11, <1>12

(* The row a draft appends.                                                *)
LEMMA Drafted ==
    ASSUME MaintenanceInv, NEW plane, NEW steps, NEW resumed, DraftRun(plane, steps, resumed),
           NEW n, n = Len(runs) + 1
    PROVE  /\ n \in Nat \ {0} /\ Len(runs') = n
           /\ runs'[n].plane = plane /\ runs'[n].steps = steps
           /\ runs'[n].resumed = resumed /\ runs'[n].found = Running
           /\ \A r \in 1 .. Len(runs) : runs'[r] = runs[r]
           /\ UNCHANGED <<where, up, task, exec>>
<1> PICK x : x = [plane |-> plane, status |-> "planned", steps |-> steps,
                  state |-> [i \in 1 .. Len(steps) |-> "planned"],
                  resumed |-> resumed, found |-> Running]
  OBVIOUS
<1>1. /\ runs' = Append(runs, x) /\ UNCHANGED <<where, up, task, exec>>
  BY DEF DraftRun
<1>2. List(runs) /\ Len(runs) \in Nat
  BY DEF MaintenanceInv, RowsOK, List
<1>3. /\ Len(runs') = n /\ runs'[n] = x
      /\ \A q \in 1 .. Len(runs) : runs'[q] = runs[q]
  BY <1>1, <1>2, ListAppended
<1> QED
  BY <1>1, <1>2, <1>3

MembersBehind == {k \in DOMAIN Members : Members[k] \in behind}

(* A list in some order is a list of the whole set.                        *)
LEMMA TalosOrder ==
    ASSUME NEW kubernetes, PlanTalos(kubernetes)
    PROVE  \E places \in SetToSeqs(MembersBehind) :
              DraftRun("talos",
                       TalosSteps([k \in 1 .. Len(places) |-> Members[places[k]]], kubernetes),
                       NoRun)
  BY Zenon DEF PlanTalos, Orders, MembersBehind

LEMMA NodeOrder ==
    /\ LargestFirst \subseteq SetToSeqs(Running)
    /\ \A r : r # NoRun => LeftBehind(r) \subseteq SetToSeqs(Displaced(r))
    /\ LeftBehind(NoRun) = {<<>>}
  BY Zenon DEF LargestFirst, LeftBehind, Orders

LEMMA PlanTalosSettles ==
    ASSUME MaintenanceInv, QuietInv, NEW kubernetes \in BOOLEAN, PlanTalos(kubernetes)
    PROVE  QuietInv'
<1>1. PICK places \in SetToSeqs(MembersBehind) :
         DraftRun("talos",
                  TalosSteps([k \in 1 .. Len(places) |-> Members[places[k]]], kubernetes), NoRun)
  BY TalosOrder
<1>2. IsFiniteSet(MembersBehind)
  <2>1. DOMAIN Members = 1 .. Len(Members) /\ Len(Members) \in Nat
    BY MaintenanceAssumption, LenProperties
  <2>2. IsFiniteSet(1 .. Len(Members))
    BY <2>1, FS_Interval
  <2>3. MembersBehind \subseteq 1 .. Len(Members)
    BY <2>1 DEF MembersBehind
  <2> QED
    BY <2>2, <2>3, FS_Subset
<1>3. List(places)
  BY <1>2, SequencesOfSet
<1>4. PICK members : members = [k \in 1 .. Len(places) |-> Members[places[k]]]
  OBVIOUS
<1>5. List(members)
  <2> DEFINE T == {Members[places[k]] : k \in 1 .. Len(places)}
  <2>1. members \in [1 .. Len(places) -> T] /\ Len(places) \in Nat
    BY <1>3, <1>4 DEF List
  <2> HIDE DEF T
  <2> QED
    BY <2>1, FunctionIsList
<1>6. PICK steps : steps = TalosSteps(members, kubernetes)
  OBVIOUS
<1>7. List(steps) /\ \A i \in 1 .. Len(steps) : steps[i].kind \in OtherKinds
  BY <1>5, <1>6, TalosPlan
<1>8. DraftRun("talos", steps, NoRun)
  BY <1>1, <1>4, <1>6
<1>9. PICK plane, n : plane = "talos" /\ n = Len(runs) + 1
  OBVIOUS
<1>10. DraftRun(plane, steps, NoRun) /\ plane # "proxmox"
  BY <1>8, <1>9
<1>11. runs'[n].plane = plane /\ runs'[n].steps = steps
  BY <1>9, <1>10, Drafted
<1>12. StepsOK(n)'
  <2>1. Total(n)' = Len(steps) /\ \A j : At(n, j)' = steps[j]
    BY <1>11 DEF Total, At
  <2>2. \A k \in OtherKinds : k \notin DrainKinds /\ k \notin ReturnKinds
    BY KindsApart
  <2> QED
    BY <1>7, <1>10, <1>11, <2>1, <2>2 DEF StepsOK
<1>13. n = Len(runs) + 1
  BY <1>9
<1> QED
  BY <1>10, <1>12, <1>13, DraftSettles

(* A departure's return.                                                   *)
LEMMA ReturnOfDrain ==
    ASSUME NEW d, DrainStep(d)
    PROVE  ReturnStep(Return(d)) /\ Return(d).what = d.what
<1>1. CASE d.kind = "drain-shutdown"
  BY <1>1 DEF DrainStep, Return, Step, ReturnStep, ReturnKinds
<1>2. CASE d.kind = "drain-migrate"
  BY <1>2 DEF DrainStep, Return, Step, ReturnStep, ReturnKinds
<1> QED
  BY <1>1, <1>2, KindsApart DEF DrainStep

LEMMA DrainOfRunning ==
    ASSUME NEW g \in Running, NEW s, DrainStepOf(s, g)
    PROVE  DrainStep(s) /\ s.what = g
<1>1. g \in Guests /\ up[g]
  BY DEF Running
<1>2. CASE g \in LocalDisk
  BY <1>1, <1>2 DEF DrainStepOf, DrainStep, Step, DrainKinds
<1>3. CASE g \notin LocalDisk
  <2>1. PICK to : s = Step("drain-migrate", g, Node, to)
    BY <1>3 DEF DrainStepOf
  <2> QED
    BY <1>1, <1>3, <2>1 DEF DrainStep, Step, DrainKinds
<1> QED
  BY <1>2, <1>3

(* The steps of a run that stopped whose guests the next plan takes over.  *)
LEMMA DisplacedSteps ==
    ASSUME MaintenanceInv, QuietInv, NEW q \in 1 .. Len(runs), NEW left \in SetToSeqs(Displaced(q)),
           NEW displaced, displaced = [k \in 1 .. Len(left) |-> runs[q].steps[left[k]]]
    PROVE  /\ List(displaced)
           /\ \A k \in 1 .. Len(displaced) : DrainStep(displaced[k])
           /\ \A i \in Displaced(q) : \E k \in 1 .. Len(displaced) : displaced[k] = At(q, i)
<1>1. StepsOK(q) /\ DOMAIN runs[q].steps = 1 .. Total(q) /\ Total(q) \in Nat
  <2>1. StepsOK(q) /\ List(runs[q].steps)
    BY DEF QuietInv, RunReturns, StepsOK
  <2> QED
    BY <2>1, ListElements DEF Total, List
<1>2. \A i \in Displaced(q) : i \in 1 .. Total(q) /\ At(q, i).kind \in DrainKinds
  BY <1>1 DEF Displaced, Succeeded, At
<1>3. IsFiniteSet(Displaced(q))
  <2>1. IsFiniteSet(1 .. Total(q))
    BY <1>1, FS_Interval
  <2> QED
    BY <1>2, <2>1, FS_Subset
<1>4. /\ List(left) /\ \A i \in 1 .. Len(left) : left[i] \in Displaced(q)
      /\ \A x \in Displaced(q) : \E i \in 1 .. Len(left) : left[i] = x
  BY <1>3, SequencesOfSet
<1>5. List(displaced) /\ Len(displaced) = Len(left)
  <2> DEFINE T == {runs[q].steps[left[k]] : k \in 1 .. Len(left)}
  <2>1. displaced \in [1 .. Len(left) -> T] /\ Len(left) \in Nat
    BY <1>4 DEF List
  <2> HIDE DEF T
  <2> QED
    BY <2>1, FunctionIsList
<1>6. \A k \in 1 .. Len(left) : displaced[k] = At(q, left[k])
  BY DEF At
<1>7. \A i \in Displaced(q) : DrainStep(At(q, i))
  BY <1>1, <1>2, KindsApart DEF StepsOK, ReturnStep
<1> QED
  BY <1>4, <1>5, <1>6, <1>7

(* What a plan of the node is made of: m steps of its drain, then the      *)
(* rest.                                                                   *)
NodePlanned(m, steps, resumed) ==
    /\ DraftRun("proxmox", steps, resumed)
    /\ List(steps) /\ m <= Len(steps)
    /\ \A i \in 1 .. m : DrainStep(steps[i]) /\ steps[i].what \in Running
    /\ \A i, j \in 1 .. m : steps[i].what = steps[j].what => i = j
    /\ \A i \in 1 .. Len(steps) :
          i > m => steps[i].kind \in OtherKinds \/ ReturnStep(steps[i])
    /\ \A g \in Running : \E i \in 1 .. Len(steps) :
          i > m /\ ReturnStep(steps[i]) /\ steps[i].what = g
    /\ resumed # NoRun =>
          /\ resumed \in 1 .. Len(runs) /\ runs[resumed].plane = "proxmox"
          /\ runs[resumed].status \notin OpenStatus
          /\ \A k \in Displaced(resumed) : \E i \in 1 .. Len(steps) :
                i > m /\ ReturnStep(steps[i]) /\ steps[i].what = At(resumed, k).what

LEMMA NodePlan ==
    ASSUME MaintenanceInv, QuietInv, NEW named, NEW resumed \in DOMAIN runs \cup {NoRun},
           PlanNode(named, resumed)
    PROVE  \E m \in Nat : \E steps : NodePlanned(m, steps, resumed)
<1>1. PICK order \in LargestFirst, left \in LeftBehind(resumed) :
         LET d == Drain(order, Room, Nodes \ NoNewGuests, named)
             displaced == [k \in 1 .. Len(left) |-> runs[resumed].steps[left[k]]]
         IN  /\ resumed # NoRun => /\ runs[resumed].plane = "proxmox"
                                   /\ runs[resumed].status \notin OpenStatus
             /\ d.ok
             /\ DraftRun("proxmox", NodeSteps(d.steps, displaced), resumed)
  BY DEF PlanNode
<1>2. PICK drain : drain = Drain(order, Room, Nodes \ NoNewGuests, named).steps
  OBVIOUS
<1>3. PICK displaced : displaced = [k \in 1 .. Len(left) |-> runs[resumed].steps[left[k]]]
  OBVIOUS
<1>4. PICK steps : steps = NodeSteps(drain, displaced)
  OBVIOUS
<1>5. /\ resumed # NoRun => runs[resumed].plane = "proxmox" /\ runs[resumed].status \notin OpenStatus
      /\ Drain(order, Room, Nodes \ NoNewGuests, named).ok
      /\ DraftRun("proxmox", steps, resumed)
  BY <1>1, <1>2, <1>3, <1>4
<1>6. /\ List(order) /\ \A i \in 1 .. Len(order) : order[i] \in Running
      /\ \A i, j \in 1 .. Len(order) : order[i] = order[j] => i = j
      /\ \A g \in Running : \E i \in 1 .. Len(order) : order[i] = g
  <2>1. IsFiniteSet(Running)
    <3>1. Running \subseteq Guests /\ IsFiniteSet(Guests)
      BY MaintenanceAssumption DEF Running
    <3> QED
      BY <3>1, FS_Subset
  <2>2. order \in SetToSeqs(Running)
    BY <1>1, NodeOrder
  <2> QED
    BY <2>1, <2>2, SequencesOfSet
<1>7. PICK m : m = Len(drain)
  OBVIOUS
<1>8. /\ List(drain) /\ m = Len(order) /\ m \in Nat
      /\ \A j \in 1 .. m : DrainStepOf(drain[j], order[j])
  <2>1. Len(order) \in Nat
    BY <1>6 DEF List
  <2>2. LET s == Drain(order, Room, Nodes \ NoNewGuests, named).steps IN
           /\ List(s) /\ Len(s) = Len(order)
           /\ \A j \in 1 .. Len(order) : DrainStepOf(s[j], order[j])
    BY <1>5, <2>1, DrainSteps
  <2> QED
    BY <1>2, <1>7, <2>1, <2>2
<1>9. \A j \in 1 .. m : DrainStep(drain[j]) /\ drain[j].what = order[j]
  BY <1>6, <1>8, DrainOfRunning
<1>10. resumed # NoRun => resumed \in 1 .. Len(runs)
  BY ListElements DEF MaintenanceInv, RowsOK
<1>11. /\ List(displaced) /\ \A k \in 1 .. Len(displaced) : DrainStep(displaced[k])
       /\ resumed # NoRun =>
             \A i \in Displaced(resumed) : \E k \in 1 .. Len(displaced) : displaced[k] = At(resumed, i)
  <2>1. CASE resumed = NoRun
    <3>1. left = <<>> /\ Len(left) = 0
      BY <1>1, <2>1, NodeOrder
    <3>2. displaced \in [1 .. 0 -> {}]
      BY <1>3, <3>1
    <3>3. List(displaced) /\ Len(displaced) = 0
      BY <3>2, FunctionIsList
    <3> QED
      BY <2>1, <3>3
  <2>2. CASE resumed # NoRun
    <3>1. left \in SetToSeqs(Displaced(resumed)) /\ resumed \in 1 .. Len(runs)
      BY <1>1, <1>10, <2>2, NodeOrder
    <3> QED
      BY <1>3, <3>1, DisplacedSteps
  <2> QED
    BY <2>1, <2>2
<1>12. PICK k : k = Len(displaced)
  OBVIOUS
<1>e. PICK Out : Out = Departures(drain, displaced)
  OBVIOUS
<1>13. Out = {drain[j] : j \in 1 .. m} \cup {displaced[j] : j \in 1 .. k}
  BY <1>7, <1>12, <1>e DEF Departures
<1>14. /\ List(steps) /\ m <= Len(steps)
       /\ \A i \in 1 .. m : steps[i] = drain[i]
       /\ \A i \in 1 .. Len(steps) :
             i > m => \/ steps[i].kind \in {"node-update", "node-reboot"}
                      \/ \E d \in Out : steps[i] = Return(d)
       /\ \A d \in Out : \E i \in 1 .. Len(steps) : i > m /\ steps[i] = Return(d)
  <2>1. List(drain) /\ List(displaced)
    BY <1>8, <1>11
  <2>2. LET s == NodeSteps(drain, displaced) IN
        /\ List(s) /\ Len(drain) <= Len(s)
        /\ \A i \in 1 .. Len(drain) : s[i] = drain[i]
        /\ \A i \in 1 .. Len(s) :
              i > Len(drain) => \/ s[i].kind \in {"node-update", "node-reboot"}
                                \/ \E d \in Departures(drain, displaced) : s[i] = Return(d)
        /\ \A d \in Departures(drain, displaced) :
              \E i \in 1 .. Len(s) : i > Len(drain) /\ s[i] = Return(d)
    BY <2>1, PlanShape
  <2> QED
    BY <1>4, <1>7, <1>e, <2>2
<1>15. \A d \in Out : ReturnStep(Return(d)) /\ Return(d).what = d.what
  <2>1. \A d \in Out : DrainStep(d)
    BY <1>9, <1>11, <1>12, <1>13
  <2> QED
    BY <2>1, ReturnOfDrain
<1>16. \A i \in 1 .. m : DrainStep(steps[i]) /\ steps[i].what \in Running
  BY <1>6, <1>8, <1>9, <1>14
<1>17. \A i, j \in 1 .. m : steps[i].what = steps[j].what => i = j
  BY <1>6, <1>8, <1>9, <1>14
<1>18. \A i \in 1 .. Len(steps) : i > m => steps[i].kind \in OtherKinds \/ ReturnStep(steps[i])
  BY <1>14, <1>15 DEF OtherKinds
<1>19. \A d \in Out : \E i \in 1 .. Len(steps) : i > m /\ ReturnStep(steps[i]) /\ steps[i].what = d.what
  BY <1>14, <1>15
<1>20. \A g \in Running : \E i \in 1 .. Len(steps) : i > m /\ ReturnStep(steps[i]) /\ steps[i].what = g
  <2> TAKE g \in Running
  <2>1. PICK j \in 1 .. m : order[j] = g
    BY <1>6, <1>8
  <2>2. drain[j] \in Out /\ drain[j].what = g
    BY <1>9, <1>13, <2>1
  <2> QED
    BY <1>19, <2>2
<1>21. ASSUME resumed # NoRun, NEW i \in Displaced(resumed)
       PROVE  \E j \in 1 .. Len(steps) :
                 j > m /\ ReturnStep(steps[j]) /\ steps[j].what = At(resumed, i).what
  <2>1. PICK j \in 1 .. k : displaced[j] = At(resumed, i)
    BY <1>11, <1>12, <1>21
  <2>2. displaced[j] \in Out
    BY <1>13, <2>1
  <2> QED
    BY <1>19, <2>1, <2>2
<1>22. List(steps) /\ m <= Len(steps) /\ m \in Nat
  BY <1>8, <1>14
<1>23. NodePlanned(m, steps, resumed)
  BY <1>5, <1>10, <1>16, <1>17, <1>18, <1>20, <1>21, <1>22 DEF NodePlanned
<1> QED
  BY <1>22, <1>23

LEMMA PlanNodeSettles ==
    ASSUME MaintenanceInv, QuietInv, contested = {}, NEW named,
           NEW resumed \in DOMAIN runs \cup {NoRun}, PlanNode(named, resumed)
    PROVE  QuietInv'
<1>p. PICK m \in Nat : \E steps : NodePlanned(m, steps, resumed)
  BY NodePlan
<1>q. PICK steps : NodePlanned(m, steps, resumed)
  BY <1>p
<1>1. /\ DraftRun("proxmox", steps, resumed)
      /\ List(steps) /\ m <= Len(steps)
      /\ \A i \in 1 .. m : DrainStep(steps[i]) /\ steps[i].what \in Running
      /\ \A i, j \in 1 .. m : steps[i].what = steps[j].what => i = j
      /\ \A i \in 1 .. Len(steps) :
            i > m => steps[i].kind \in OtherKinds \/ ReturnStep(steps[i])
      /\ \A g \in Running : \E i \in 1 .. Len(steps) :
            i > m /\ ReturnStep(steps[i]) /\ steps[i].what = g
      /\ resumed # NoRun =>
            /\ resumed \in 1 .. Len(runs) /\ runs[resumed].plane = "proxmox"
            /\ runs[resumed].status \notin OpenStatus
            /\ \A k \in Displaced(resumed) : \E i \in 1 .. Len(steps) :
                  i > m /\ ReturnStep(steps[i]) /\ steps[i].what = At(resumed, k).what
  BY <1>q DEF NodePlanned
<1>2. PICK plane, n : plane = "proxmox" /\ n = Len(runs) + 1
  OBVIOUS
<1>3. DraftRun(plane, steps, resumed) /\ n = Len(runs) + 1
  BY <1>1, <1>2
<1>4. /\ n \in Nat \ {0} /\ Len(runs') = n
      /\ runs'[n].plane = plane /\ runs'[n].steps = steps
      /\ runs'[n].resumed = resumed /\ runs'[n].found = Running
      /\ \A r \in 1 .. Len(runs) : runs'[r] = runs[r]
      /\ UNCHANGED <<where, up, task, exec>>
  BY <1>3, Drafted
<1>5. /\ Total(n)' = Len(steps) /\ \A j : At(n, j)' = steps[j]
      /\ \A s : (DrainStep(s)' <=> DrainStep(s)) /\ (ReturnStep(s)' <=> ReturnStep(s))
      /\ Len(steps) \in Nat
  BY <1>1, <1>4 DEF Total, At, DrainStep, ReturnStep, List
<1>6. ASSUME NEW i \in 1 .. Len(steps)
      PROVE  /\ steps[i].kind \in DrainKinds => i \in 1 .. m
             /\ steps[i].kind \in ReturnKinds => i > m
             /\ steps[i].kind \in OtherKinds \/ DrainStep(steps[i]) \/ ReturnStep(steps[i])
  <2>1. CASE i > m
    BY <1>1, <2>1, KindsApart DEF ReturnStep
  <2>2. CASE i \in 1 .. m
    BY <1>1, <2>2, KindsApart DEF DrainStep
  <2> QED
    BY <2>1, <2>2
<1>7. \A g : Returns(n, g)' <=> \E i \in 1 .. Len(steps) :
                                   steps[i].kind \in ReturnKinds /\ steps[i].what = g
  BY <1>5 DEF Returns
<1>8. \A g \in Running : Returns(n, g)'
  BY <1>1, <1>7 DEF ReturnStep
<1>9. StepsOK(n)'
  <2>1. ASSUME NEW i \in 1 .. Len(steps), NEW j \in 1 .. Len(steps), steps[i].kind \in DrainKinds
        PROVE  /\ steps[j].kind \in ReturnKinds => i < j
               /\ steps[j].kind \in DrainKinds /\ steps[i].what = steps[j].what => i = j
    BY <1>1, <1>6, <2>1
  <2>2. /\ List(runs'[n].steps) /\ runs'[n].plane = "proxmox"
        /\ \A g \in runs'[n].found : Returns(n, g)'
    BY <1>1, <1>2, <1>4, <1>8
  <2>3. \A i \in 1 .. Total(n)' :
           \/ At(n, i)'.kind \in OtherKinds
           \/ DrainStep(At(n, i))' \/ ReturnStep(At(n, i))'
    <3>1. \A i : /\ DrainStep(At(n, i))' <=> DrainStep(steps[i])
                 /\ ReturnStep(At(n, i))' <=> ReturnStep(steps[i])
      BY <1>4, <1>5 DEF DrainStep, ReturnStep
    <3> QED
      BY <1>5, <1>6, <3>1
  <2>4. \A i, j \in 1 .. Total(n)' :
           At(n, i)'.kind \in DrainKinds =>
              /\ At(n, j)'.kind \in ReturnKinds => i < j
              /\ At(n, j)'.kind \in DrainKinds /\ At(n, i)'.what = At(n, j)'.what => i = j
    BY <1>5, <2>1
  <2> QED
    BY <2>2, <2>3, <2>4 DEF StepsOK
(* What the run resumed had drained is on the list, or home.               *)
<1>10. ASSUME NEW q \in 1 .. n, q = resumed, NothingBetween(q, n)',
              NEW i \in 1 .. Total(q)', Done(q, i)', At(q, i)'.kind \in DrainKinds
       PROVE  TakenOver(n, At(q, i).what)'
  <2>1. /\ q \in 1 .. Len(runs) /\ resumed # NoRun
        /\ runs[q].plane = "proxmox" /\ runs[q].status \notin OpenStatus
    BY <1>1, <1>4, <1>10, MaintenanceAssumption
  <2>2. List(runs) /\ DOMAIN runs = 1 .. Len(runs) /\ DOMAIN runs' = 1 .. n
    <3>1. List(runs) /\ List(runs')
      BY <1>1, DraftKeeps DEF MaintenanceInv, RowsOK
    <3> QED
      BY <1>4, <3>1, ListElements
  <2>3. LatestOfNode(q)
    BY <1>3, <1>4, <1>10, <2>1, <2>2 DEF LatestOfNode, NothingBetween
  <2>4. Brought(q) /\ Left(q) /\ StepsOK(q)
    BY <2>1, <2>3 DEF QuietInv, RunReturns
  <2>5. /\ Total(q)' = Total(q) /\ At(q, i)' = At(q, i)
        /\ Done(q, i)' <=> Done(q, i)
    BY <1>4, <2>1 DEF Total, At, Done, Acted, Holds
  <2>6. PICK s : s = At(q, i)
    OBVIOUS
  <2>7. i \in 1 .. Total(q) /\ Done(q, i) /\ s.kind \in DrainKinds /\ DrainStep(s)
    BY <1>10, <2>4, <2>5, <2>6, KindsApart DEF StepsOK, ReturnStep
  <2>8. \A j \in 1 .. Total(q) : Done(q, j) <=> runs[q].state[j] = "succeeded"
    <3>1. \A e \in Executors : ~ Holds(e, q)
      BY <2>1 DEF MaintenanceInv, AloneOK
    <3> QED
      BY <3>1 DEF Done, Acted
  <2>9. DOMAIN runs[q].steps = 1 .. Total(q)
    BY <2>4, ListElements DEF StepsOK, Total
  <2>10. Returns(n, s.what)' \/ Home(s.what)
    <3>1. CASE \E j \in Succeeded(q, ReturnKinds) : runs[q].steps[j].what = s.what
      <4>1. PICK j \in 1 .. Total(q) : /\ At(q, j).kind \in ReturnKinds /\ Done(q, j)
                                       /\ At(q, j).what = s.what
        BY <2>8, <2>9, <3>1 DEF Succeeded, At
      <4> QED
        BY <2>4, <4>1 DEF Brought
    <3>2. CASE /\ \A j \in Succeeded(q, ReturnKinds) : runs[q].steps[j].what # s.what
               /\ StillParked(s)
      <4>1. i \in Displaced(q)
        BY <2>6, <2>7, <2>8, <2>9, <3>2 DEF Displaced, Succeeded, At
      <4> QED
        BY <1>1, <1>7, <1>10, <2>1, <2>6, <4>1 DEF ReturnStep
    <3>3. CASE ~ StillParked(s)
      <4>1. TasksOK
        BY DEF QuietInv
      <4>2. s.kind = "drain-migrate" /\ where[s.what] # s.to
        BY <2>7, <3>3, <4>1, KindsApart DEF StillParked, DrainStep, TasksOK
      <4>3. Away(s)
        BY <2>4, <2>6, <2>7, <4>2 DEF Left
      <4>4. Home(s.what) \/ where[s.what] = Node
        BY <4>2, <4>3 DEF Away
      <4>5. where[s.what] = Node => s.what \in Running
        BY <2>7, <4>2 DEF DrainStep, Running
      <4> QED
        BY <1>8, <4>4, <4>5
    <3> QED
      BY <3>1, <3>2, <3>3
  <2>11. Home(s.what)' <=> Home(s.what)
    BY <1>4 DEF Home
  <2>12. \/ Returns(n, s.what)'
         \/ \A j \in 1 .. Len(steps) : steps[j].kind \in GuestKinds => steps[j].what # s.what
    <3> SUFFICES ASSUME NEW j \in 1 .. Len(steps), steps[j].kind \in GuestKinds,
                        steps[j].what = s.what
                 PROVE  Returns(n, s.what)'
      OBVIOUS
    <3>1. CASE steps[j].kind \in DrainKinds
      <4>1. s.what \in Running
        BY <1>1, <1>6, <3>1
      <4> QED
        BY <1>8, <4>1
    <3>2. CASE steps[j].kind \in ReturnKinds
      BY <1>7, <3>2
    <3> QED
      BY <3>1, <3>2, KindsApart
  <2> QED
    BY <1>5, <2>5, <2>6, <2>10, <2>11, <2>12 DEF TakenOver
<1>11. Inherited(n)'
  BY <1>4, <1>10 DEF Inherited
<1>12. resumed = NoRun \/ resumed \in 1 .. Len(runs)
  BY <1>1
<1>13. plane = "proxmox"
  BY <1>2
<1> QED
  BY <1>3, <1>9, <1>11, <1>12, <1>13, DraftSettles

LEMMA ReturnInit == MaintenanceInit => ReturnInv
<1> SUFFICES ASSUME MaintenanceInit PROVE ReturnInv
  OBVIOUS
<1>1. mishaps = 0 /\ Len(runs) = 0
  BY EmptySeq, LenProperties DEF MaintenanceInit
<1>2. TasksOK
  BY MaintenanceAssumption DEF MaintenanceInit, TasksOK, NoTask
<1> QED
  BY <1>1, <1>2 DEF ReturnInv

LEMMA ReturnStutters ==
    ASSUME MaintenanceInv, QuietInv, UNCHANGED maintenanceVars
    PROVE  QuietInv'
<1>1. /\ UNCHANGED <<where, up, task, runs, exec>>
      /\ List(runs) /\ List(runs') /\ Len(runs)' = Len(runs)
  BY DEF maintenanceVars, MaintenanceInv, RowsOK
<1>2. \A r, i : Done(r, i)' => Done(r, i)
  BY <1>1 DEF Done, Acted, Holds
<1> QED
  BY <1>1, <1>2, Settles DEF QuietInv

(* What was done by hand, lost or done behind a process's back is counted. *)
LEMMA MishapsCount ==
    ASSUME MaintenanceInv, mishaps \in Nat, [MaintenanceNext]_maintenanceVars
    PROVE  /\ mishaps' \in Nat /\ (mishaps' = 0 => mishaps = 0)
           /\ contested' = {} => contested = {}
           /\ \A g \in Guests : MoveByHand(g) => mishaps' # 0
<1>1. /\ mishaps' \in {mishaps, mishaps + 1}
      /\ contested \subseteq contested'
  <2>1. \A named, resumed : PlanNode(named, resumed) => UNCHANGED <<mishaps, contested>>
    BY DEF PlanNode, DraftRun
  <2>2. \A kubernetes : PlanTalos(kubernetes) => UNCHANGED <<mishaps, contested>>
    BY Zenon DEF PlanTalos, DraftRun
  <2>3. \A e \in Executors : \A r : Load(e, r) => UNCHANGED mishaps /\ contested \subseteq contested'
    BY DEF Load
  <2>4. \A e \in Executors : ExecutorStep(e) => UNCHANGED <<mishaps, contested>>
    BY DEF ExecutorStep, Start, Take, Act, CommitStep, StopRun, Finish
  <2>5. \A e \in Executors : Crash(e) => mishaps' \in {mishaps, mishaps + 1} /\ UNCHANGED contested
    BY DEF Crash
  <2>6. \A r : Abort(r) => UNCHANGED mishaps /\ contested \subseteq contested'
    BY DEF Abort
  <2>7. \A g : TaskEnds(g) \/ MoveByHand(g) =>
                  mishaps' \in {mishaps, mishaps + 1} /\ UNCHANGED contested
    BY DEF TaskEnds, MoveByHand
  <2>8. UNCHANGED maintenanceVars => UNCHANGED <<mishaps, contested>>
    BY DEF maintenanceVars
  <2> QED
    BY <2>1, <2>2, <2>3, <2>4, <2>5, <2>6, <2>7, <2>8 DEF MaintenanceNext
<1>2. \A g : MoveByHand(g) => mishaps' = mishaps + 1
  BY DEF MoveByHand
<1> QED
  BY <1>1, <1>2

LEMMA ReturnKept ==
    ASSUME MaintenanceInv, ReturnInv, [MaintenanceNext]_maintenanceVars
    PROVE  ReturnInv'
<1>1. /\ mishaps' \in Nat /\ (mishaps' = 0 => mishaps = 0)
      /\ contested' = {} => contested = {}
      /\ \A g \in Guests : MoveByHand(g) => mishaps' # 0
  BY MishapsCount DEF ReturnInv
<1> SUFFICES ASSUME mishaps' = 0, contested' = {} PROVE QuietInv'
  BY <1>1 DEF ReturnInv, Quiet, QuietInv
<1>2. mishaps = 0 /\ contested = {} /\ QuietInv
  BY <1>1 DEF ReturnInv, Quiet, QuietInv
<1>3. ASSUME NEW named \in Nodes \cup {NoNode}, NEW resumed \in DOMAIN runs \cup {NoRun},
             PlanNode(named, resumed)
      PROVE  QuietInv'
  BY <1>2, <1>3, PlanNodeSettles
<1>4. ASSUME NEW kubernetes \in BOOLEAN, PlanTalos(kubernetes)
      PROVE  QuietInv'
  BY <1>2, <1>4, PlanTalosSettles
<1>5. ASSUME NEW e \in Executors, NEW r \in DOMAIN runs, Load(e, r)
      PROVE  QuietInv'
  BY <1>2, <1>5, LoadSettles
<1>6. ASSUME NEW e \in Executors, ExecutorStep(e)
      PROVE  QuietInv'
  BY <1>2, <1>6, StartSettles, TakeSettles, ActSettles, CommitSettles, StopSettles, FinishSettles
     DEF ExecutorStep
<1>7. ASSUME NEW e \in Executors, Crash(e)
      PROVE  QuietInv'
  BY <1>2, <1>7, CrashSettles
<1>8. ASSUME NEW r \in DOMAIN runs, Abort(r)
      PROVE  QuietInv'
  BY <1>2, <1>8, AbortSettles
<1>9. ASSUME NEW g \in Guests, TaskEnds(g) \/ MoveByHand(g)
      PROVE  QuietInv'
  BY <1>1, <1>2, <1>9, TaskSettles
<1>10. CASE UNCHANGED maintenanceVars
  BY <1>2, <1>10, ReturnStutters
<1> QED
  BY <1>3, <1>4, <1>5, <1>6, <1>7, <1>8, <1>9, <1>10 DEF MaintenanceNext

(* Where nothing failed, was lost or was moved by hand and no run had two  *)
(* processes, the last run of the node, once it succeeded, has brought     *)
(* back every guest its plan found running there, and every one that the   *)
(* stopped run it resumed, if that was the one before it, had drained      *)
(* (plan_maintenance(), _return_steps() and _displaced()).                 *)
THEOREM GuestsComeHome == MaintenanceSpec => []GuestsReturned
<1>1. ASSUME MaintenanceInv, ReturnInv
      PROVE  GuestsReturned
  <2> SUFFICES ASSUME Quiet, NEW r \in DOMAIN runs, LatestOfNode(r),
                      runs[r].status = "succeeded"
               PROVE  /\ \A g \in runs[r].found : Home(g)
                      /\ \A q \in DOMAIN runs :
                            q = runs[r].resumed /\ NothingBetween(q, r)
                            => \A i \in Succeeded(q, DrainKinds) : Home(runs[q].steps[i].what)
    BY DEF GuestsReturned
  <2>1. /\ DOMAIN runs = 1 .. Len(runs) /\ Quiet
        /\ \A q \in 1 .. Len(runs) : RunReturns(q) /\ StepsOK(q)
    BY <1>1, ListElements DEF MaintenanceInv, RowsOK, ReturnInv, RunReturns
  <2>2. \A j \in 1 .. Total(r) : Done(r, j)
    <3>1. AloneOK(r)
      BY <1>1, <2>1 DEF MaintenanceInv, Quiet
    <3> QED
      BY <3>1 DEF AloneOK, Done
  <2>3. Brought(r) /\ Inherited(r) /\ StepsOK(r) /\ runs[r].plane = "proxmox"
    BY <2>1 DEF RunReturns, LatestOfNode
  <2>4. \A g : Returns(r, g) => Home(g)
    BY <2>2, <2>3 DEF Returns, Brought
  <2>5. \A g \in runs[r].found : Home(g)
    BY <2>3, <2>4 DEF StepsOK
  <2>6. ASSUME NEW q \in DOMAIN runs, q = runs[r].resumed, NothingBetween(q, r),
               NEW i \in Succeeded(q, DrainKinds)
        PROVE  Home(runs[q].steps[i].what)
    <3>1. DOMAIN runs[q].steps = 1 .. Total(q)
      BY <2>1, ListElements DEF StepsOK, Total
    <3>2. i \in 1 .. Total(q) /\ Done(q, i) /\ At(q, i).kind \in DrainKinds
      BY <3>1 DEF Succeeded, Done, At
    <3>3. TakenOver(r, At(q, i).what)
      BY <2>1, <2>3, <2>6, <3>2 DEF Inherited
    <3> QED
      BY <2>4, <3>3 DEF TakenOver, At
  <2> QED
    BY <2>5, <2>6
<1>2. MaintenanceSpec => []ReturnInv
  <2>1. MaintenanceInv /\ ReturnInv /\ [MaintenanceNext]_maintenanceVars => ReturnInv'
    BY ReturnKept
  <2> QED
    BY <2>1, ReturnInit, MaintenanceHolds, PTL DEF MaintenanceSpec
<1> QED
  BY <1>1, <1>2, MaintenanceHolds, PTL
=============================================================================
