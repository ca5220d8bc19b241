----------------------------- MODULE MCLiveness -----------------------------
(* What must end, in one run: the sessions of the execution spine, the     *)
(* passes of the approval listener, and a dispatch that waits for a node.  *)
(* A behaviour is of one of the three ("part"); the others stand still.    *)
EXTENDS Dispatch

CONSTANTS c1, p1, s1, s2, NoWindow, NoSession, NoProposal, NoPass

Cells          == {c1}
AtPropose      == [c \in Cells |-> 1]
UpToAutonomous == [c \in Cells |-> 3]
Two            == {s1, s2}

OneProposal == {p1}
CellOfOne   == [p \in OneProposal |-> c1]
NoHostsOf   == [p \in OneProposal |-> {}]
NoScope     == [w \in {} |-> {}]

OneCandidate == {1}
CellOfFirst  == [p \in OneCandidate |-> c1]

VARIABLES part,
          db, draft, writer, session, expired, runs, ran, lost, raced,
          askDb, askDraft, askWriter, pass, askRan, askLost, overlapped

spineVars    == <<db, draft, writer, session, expired, runs, ran, lost, raced>>
phoneVars    == <<askDb, askDraft, askWriter, pass, askRan, askLost, overlapped>>
livenessVars == <<part, spineVars, phoneVars, dispatchVars>>

Spine == INSTANCE Executor WITH
    Windows <- {}, PromotionStreak <- 2, Promotable <- Cells,
    DefaultLevel <- AtPropose, MaxLevel <- UpToAutonomous, AbsoluteCells <- {},
    Sessions <- Two, Proposals <- OneProposal, Hosts <- {},
    CellOf <- CellOfOne, HostsOf <- NoHostsOf, Scope <- NoScope,
    Invertible <- OneProposal, Preflighted <- {}, Kinds <- {"override", "channel", "reject"},
    GrantLevels <- {3}, Ceilings <- {}, MaxRuns <- 2

Phone == INSTANCE Listener WITH
    Windows <- {}, PromotionStreak <- 2, Promotable <- Cells,
    DefaultLevel <- AtPropose, MaxLevel <- UpToAutonomous, AbsoluteCells <- {},
    Passes <- Two, Proposals <- OneCandidate, CellOf <- CellOfFirst, Invertible <- OneCandidate,
    GrantLevels <- {3}, MaxAsks <- 2, Limit <- 2, MaxRuns <- 1,
    db <- askDb, draft <- askDraft, writer <- askWriter, ran <- askRan, lost <- askLost

LivenessInit ==
    /\ part \in {"spine", "phone", "reach"}
    /\ Spine!Init /\ Phone!Init /\ DispatchInit
    /\ part # "reach" => action = "other"

LivenessNext ==
    \/ part = "spine" /\ Spine!Next /\ UNCHANGED <<part, phoneVars, dispatchVars>>
    \/ part = "phone" /\ Phone!Next /\ UNCHANGED <<part, spineVars, dispatchVars>>
    \/ part = "reach" /\ DispatchNext /\ UNCHANGED <<part, spineVars, phoneVars>>

SpineHandler(e) == part = "spine" /\ Spine!Handler(e) /\ UNCHANGED <<part, phoneVars, dispatchVars>>
PhoneHandler(s) == part = "phone" /\ Phone!Handler(s) /\ UNCHANGED <<part, spineVars, dispatchVars>>
ReachHandler    == part = "reach" /\ DispatchStep /\ UNCHANGED <<part, spineVars, phoneVars>>

FairSpec ==
    /\ LivenessInit /\ [][LivenessNext]_livenessVars
    /\ \A e \in Two : WF_livenessVars(SpineHandler(e)) /\ WF_livenessVars(PhoneHandler(e))
    /\ WF_livenessVars(ReachHandler)
-----------------------------------------------------------------------------
(* Every session that has begun to write, or to ask, comes to its end.     *)
SessionsEnd == Spine!SessionsEnd

(* The write lock is let go of.                                            *)
LockReleased == Spine!LockReleased

(* Every pass of the listener ends, whoever answers.                       *)
PassEnds == Phone!PassEnds

(* A dispatch ends, whatever the node does.                                *)
DispatchesEnd == part = "reach" => DispatchEnds
=============================================================================
