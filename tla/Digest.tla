------------------------------ MODULE Digest ------------------------------
(***************************************************************************)
(* The weekly digest: engine/digest.py, `helper digest send` and the       *)
(* daemon's digest job.                                                    *)
(*                                                                         *)
(* A digest reads what happened in its window from rows, is delivered over *)
(* the network, and only then records its window, delivered or not.  An    *)
(* event is a row stamped inside a transaction that commits later; the     *)
(* clock counts days.                                                      *)
(***************************************************************************)
EXTENDS Integers, FiniteSetsExt

CONSTANTS Events,      \* findings opened or resolved, receipts, trust changes
          Senders,     \* processes making a digest: the daemon's job, the CLI
          DefaultDays, \* DEFAULT_WINDOW_DAYS
          MinDays,     \* MIN_DIGEST_DAYS
          MaxDays      \* bound: days

ASSUME DigestAssumption == DefaultDays \in Nat /\ MinDays \in Nat /\ MaxDays \in Nat \ {0}

VARIABLES day,       \* the clock
          event,     \* event[e]: whether its row is there yet, and its stamp
          sending,   \* sending[s]: the window a sender has built, and its page
          newest,    \* the newest window_end of the DigestRun rows, 0 for none
          pages,     \* history: pages[e]: digests that held the event, up to 2
          excused    \* history: events stamped before and committed after a page
                     \* they belonged on, in a window asked for, or on two senders'
                     \* pages at once

digestVars == <<day, event, sending, newest, pages, excused>>

NotSending == [from |-> 0, to |-> 0, page |-> {}, busy |-> FALSE]

DigestInit ==
    /\ day = 1
    /\ event = [e \in Events |-> [row |-> "none", at |-> 0]]
    /\ sending = [s \in Senders |-> NotSending]
    /\ newest = 0
    /\ pages = [e \in Events |-> 0]
    /\ excused = {}
-----------------------------------------------------------------------------
DayPasses ==
    /\ day < MaxDays /\ \A s \in Senders : ~sending[s].busy
    /\ day' = day + 1
    /\ UNCHANGED <<event, sending, newest, pages, excused>>

(* A row is stamped with the time of its making and seen from its commit.  *)
Stamp(e) ==
    /\ event[e].row = "none"
    /\ event' = [event EXCEPT ![e] = [row |-> "flushed", at |-> day]]
    /\ UNCHANGED <<day, sending, newest, pages, excused>>

Commit(e) ==
    /\ event[e].row = "flushed"
    /\ event' = [event EXCEPT ![e].row = "there"]
    /\ excused' = IF \/ event[e].at < newest
                     \/ \E s \in Senders : sending[s].busy /\ event[e].at < sending[s].to
                  THEN excused \cup {e} ELSE excused
    /\ UNCHANGED <<day, sending, newest, pages>>
-----------------------------------------------------------------------------
(* resolve_window(): since the newest end on record, or the days asked for *)
(* (0 for none).  The clock starts after the day 0 of no digest at all.    *)
WindowStart(days) ==
    IF days > 0 THEN day - days
    ELSE IF newest = 0 THEN day - DefaultDays ELSE newest

(* build_digest(): what is stamped in [start, now).                        *)
Page(from) == {e \in Events : event[e].row = "there" /\ from <= event[e].at /\ event[e].at < day}

(* An event is told of twice, or falls between windows, for a reason when  *)
(* a window was asked for or another sender is at work; and before the     *)
(* first window when the first digest looks back DefaultDays only.         *)
Excused(s, days) ==
    IF days > 0 \/ \E t \in Senders \ {s} : sending[t].busy
    THEN {e \in Events : event[e].row # "none"} ELSE {}

(* The daemon builds a digest and drops it when its window is too short.   *)
Build(s, days, daemon) ==
    LET from == WindowStart(days) IN
    /\ ~sending[s].busy
    /\ daemon => day - from >= MinDays
    /\ sending' = [sending EXCEPT ![s] = [from |-> from, to |-> day,
                                          page |-> Page(from), busy |-> TRUE]]
    /\ excused' = excused \cup Excused(s, days)
                    \cup {e \in Events : newest = 0 /\ event[e].row = "there" /\ event[e].at < from}
    /\ UNCHANGED <<day, event, newest, pages>>

(* Mutant: only a digest that was sent moves the window.                   *)
MovesWindowIfSent(delivery) == delivery = "sent"

(* record_digest() runs for every outcome: sent, failed, unconfigured, and *)
(* a quiet window that is not sent at all.                                 *)
MovesWindow(delivery) == TRUE

Deliver(s, delivery) ==
    LET w == sending[s] IN
    /\ w.busy
    /\ delivery = "page" <=> w.page = {}
    /\ sending' = [sending EXCEPT ![s] = NotSending]
    /\ newest' = IF MovesWindow(delivery) THEN Max({newest, w.to}) ELSE newest
    /\ pages' = [e \in Events |-> IF e \in w.page /\ pages[e] < 2 THEN pages[e] + 1 ELSE pages[e]]
    /\ UNCHANGED <<day, event, excused>>

(* A sender that dies, or is asked for a dry run, records nothing.         *)
Drop(s) ==
    /\ sending[s].busy
    /\ sending' = [sending EXCEPT ![s] = NotSending]
    /\ UNCHANGED <<day, event, newest, pages, excused>>

DigestNext ==
    \/ DayPasses
    \/ \E e \in Events : Stamp(e) \/ Commit(e)
    \/ \E s \in Senders : \/ \E days \in {0, 1}, daemon \in BOOLEAN : Build(s, days, daemon)
                          \/ \E d \in {"sent", "failed", "page"} : Deliver(s, d)
                          \/ Drop(s)

DigestSpec == DigestInit /\ [][DigestNext]_digestVars
-----------------------------------------------------------------------------
DigestTypeOK ==
    /\ day \in 0 .. MaxDays
    /\ \A e \in Events : event[e].row \in {"none", "flushed", "there"} /\ event[e].at \in 0 .. MaxDays
    /\ \A s \in Senders : sending[s].page \subseteq Events
    /\ pages \in [Events -> 0 .. 2]
    /\ newest \in 0 .. MaxDays /\ excused \subseteq Events

(* The windows tile the timeline: an event that is past the newest window  *)
(* on record is on exactly one page, delivered or not, unless it committed *)
(* behind a page it belonged on, somebody asked for a window of his own,   *)
(* or two senders ran over each other.                                     *)
WindowsTile ==
    \A e \in Events \ excused :
       /\ pages[e] <= 1
       /\ event[e].row = "there" /\ event[e].at < newest => pages[e] = 1
=============================================================================
