----------------------------- MODULE Interview -----------------------------
(***************************************************************************)
(* The conversations with a language model: the router that picks a        *)
(* backend (llm/router.py, llm/backends.py), `helper chat`, and `helper    *)
(* onboard`, in which the model interviews, the harness validates, the     *)
(* operator confirms and only then a host is written (cli/chat.py,         *)
(* llm/discovery.py).                                                      *)
(*                                                                         *)
(* A model may reply with anything.  A call of the router touches nothing  *)
(* that is shared, so it is one step here.  The transcript is the sequence *)
(* of its speakers.                                                        *)
(***************************************************************************)
EXTENDS Integers, SequencesExt

CONSTANTS Sessions,   \* terminals
          Names, Addresses,
          None,       \* no address, no backend
          Rosters,    \* the backends that may be configured, in order
          MaxTurns,   \* _MAX_TURNS
          MaxParse,   \* _MAX_PARSE_RETRIES
          MaxIds,     \* bound: hosts ever written
          MaxTalk     \* bound: the length of a chat's transcript

InterviewAssumption ==
    /\ \A r \in Rosters : \A i \in DOMAIN r : r[i].local \in BOOLEAN /\ r[i].tier \in 1 .. 4
    /\ MaxTurns \in Nat \ {0} /\ MaxParse \in Nat \ {0} /\ MaxIds \in Nat /\ MaxTalk \in Nat

VARIABLES roster,  \* the configured backends
          hosts,   \* the host rows
          talk,    \* talk[s]: the conversation at a terminal
          raced    \* history: pairs of rows of which one was written while the other's prompt was open

vars == <<roster, hosts, talk, raced>>

Policies == {"strict-local", "prefer-local", "open"}
MinTier == 2       \* SMALL, for CHAT and for DISCOVERY
Proposals == [name : Names, ip : Addresses \cup {None}, sound : BOOLEAN]

(* What the router tries, in order.  The sort is stable: equals keep the   *)
(* order of the roster.                                                    *)
Eligible(i, policy) == (policy = "strict-local" => roster[i].local) /\ roster[i].tier >= MinTier
Sooner(i, j, policy) ==
    IF policy = "open" /\ roster[i].tier # roster[j].tier THEN roster[i].tier > roster[j].tier
    ELSE IF roster[i].local # roster[j].local THEN roster[i].local
    ELSE i < j
Candidates(policy) ==
    SetToSortSeq({i \in DOMAIN roster : Eligible(i, policy)}, LAMBDA i, j : Sooner(i, j, policy))

(* What one call may come to: the first backend that answers, after those  *)
(* that were passed over; an exception that the router does not expect,    *)
(* when what a backend sends is not JSON; or a refusal.                    *)
Replied(how, by, skipped) == [how |-> how, by |-> by, skipped |-> skipped]
Unasked == Replied("unasked", 0, {})

Complete(policy) ==
    LET order == Candidates(policy)
        excluded == DOMAIN roster \ ToSet(order)
        before(n) == excluded \cup {order[k] : k \in 1 .. n - 1}
    IN {Replied(how, order[n], before(n)) : how \in {"text", "raised"}, n \in DOMAIN order}
       \cup {Replied("refused", 0, DOMAIN roster)}
-----------------------------------------------------------------------------
Closed == [at |-> "closed", kind |-> "chat", policy |-> "open", lines |-> <<>>, turns |-> 0,
           failures |-> 0, wants |-> None, beside |-> {}, last |-> Unasked]

Init ==
    /\ roster \in Rosters
    /\ hosts = {} /\ raced = {}
    /\ talk = [s \in Sessions |-> Closed]

Becomes(s, t) == talk' = [talk EXCEPT ![s] = t]
Says(t, who) == [t EXCEPT !.lines = Append(@, who)]

(* The end of a conversation, and the next turn of the interview's loop,   *)
(* of which there are MaxTurns.                                            *)
Ended(t) == [Closed EXCEPT !.policy = t.policy, !.last = t.last]
Turn(t) == IF t.turns < MaxTurns THEN [t EXCEPT !.at = "calling", !.wants = None, !.beside = {}] ELSE Ended(t)

Chat(s) ==
    /\ talk[s].at = "closed"
    /\ \E policy \in Policies :
         Becomes(s, [Closed EXCEPT !.at = "asking", !.policy = policy])
    /\ UNCHANGED <<roster, hosts, raced>>

(* The interview opens with the operator's description, and takes the      *)
(* environment's policy.                                                   *)
Onboard(s) ==
    /\ talk[s].at = "closed"
    /\ \E policy \in Policies :
         Becomes(s, [Closed EXCEPT !.at = "calling", !.kind = "onboard", !.policy = policy, !.lines = <<"user">>])
    /\ UNCHANGED <<roster, hosts, raced>>

Ask(s) ==
    /\ talk[s].at = "asking"
    /\ talk[s].kind = "chat" => Len(talk[s].lines) < MaxTalk
    /\ Becomes(s, IF talk[s].kind = "chat" THEN [Says(talk[s], "user") EXCEPT !.at = "calling"]
                  ELSE Turn(Says(talk[s], "user")))
    /\ UNCHANGED <<roster, hosts, raced>>

Leave(s) ==
    /\ talk[s].at = "asking"
    /\ Becomes(s, Closed)
    /\ UNCHANGED <<roster, hosts, raced>>

Forgets(t) == [t EXCEPT !.lines = Front(@)]

ChatTurn(s) ==
    /\ talk[s].at = "calling" /\ talk[s].kind = "chat"
    /\ \E r \in Complete(talk[s].policy) :
         Becomes(s, LET t == [talk[s] EXCEPT !.last = r, !.at = "asking"]
                    IN CASE r.how = "text"    -> Says(t, "assistant")
                         [] r.how = "refused" -> Forgets(t)
                         [] r.how = "raised"  -> Ended(t))
    /\ UNCHANGED <<roster, hosts, raced>>

(* A turn of the interview that brings no text ends it.                    *)
NoAnswer(s) ==
    /\ talk[s].at = "calling" /\ talk[s].kind = "onboard"
    /\ \E r \in Complete(talk[s].policy) :
         /\ r.how # "text"
         /\ Becomes(s, Ended([talk[s] EXCEPT !.last = r]))
    /\ UNCHANGED <<roster, hosts, raced>>

Known(p) == \E h \in hosts : h.name = p.name \/ (p.ip # None /\ h.ip = p.ip)
Valid(p) == p.sound /\ ~Known(p)

(* One turn of the model: it cannot be read, proposes a host, has done, or *)
(* asks.  A proposal that is not valid goes back to it.                    *)
ModelTurn(s) ==
    /\ talk[s].at = "calling" /\ talk[s].kind = "onboard"
    /\ \E r \in {c \in Complete(talk[s].policy) : c.how = "text"} :
         LET heard == [Says(talk[s], "assistant") EXCEPT !.turns = @ + 1, !.last = r]
             read == [heard EXCEPT !.failures = 0]
         IN \/ LET garbled == [heard EXCEPT !.failures = @ + 1] IN
                 Becomes(s, IF garbled.failures >= MaxParse THEN Ended(garbled)
                            ELSE Turn(Says(garbled, "user")))
            \/ \E p \in Proposals :
                 Becomes(s, IF Valid(p) THEN [read EXCEPT !.at = "confirming", !.wants = p, !.beside = {}]
                            ELSE Turn(Says(read, "user")))
            \/ Becomes(s, Ended(read))
            \/ Becomes(s, [read EXCEPT !.at = "asking"])
    /\ UNCHANGED <<roster, hosts, raced>>

Decline(s) ==
    /\ talk[s].at = "confirming"
    /\ Becomes(s, Turn(Says(talk[s], "user")))
    /\ UNCHANGED <<roster, hosts, raced>>

Ids == {h.id : h \in hosts}

(* The host is written in a session of its own, and what was validated is  *)
(* not looked at again.                                                    *)
Register(s) ==
    /\ talk[s].at = "confirming"
    /\ \E id \in (1 .. MaxIds) \ Ids :
         /\ \A j \in (1 .. MaxIds) \ Ids : id <= j
         /\ hosts' = hosts \cup {[id |-> id, name |-> talk[s].wants.name, ip |-> talk[s].wants.ip]}
         /\ raced' = raced \cup {{id, b} : b \in talk[s].beside}
         /\ talk' = [o \in Sessions |->
                       IF o = s THEN Turn(Says(talk[s], "user"))
                       ELSE IF talk[o].at = "confirming" THEN [talk[o] EXCEPT !.beside = @ \cup {id}]
                       ELSE talk[o]]
    /\ UNCHANGED roster

Next ==
    \E s \in Sessions :
        \/ Chat(s) \/ Onboard(s) \/ Ask(s) \/ Leave(s) \/ ChatTurn(s) \/ NoAnswer(s)
        \/ ModelTurn(s) \/ Decline(s) \/ Register(s)

Spec == Init /\ [][Next]_vars
-----------------------------------------------------------------------------
TypeOK ==
    /\ roster \in Rosters /\ raced \subseteq SUBSET Ids
    /\ \A h \in hosts : h.id \in 1 .. MaxIds /\ h.name \in Names /\ h.ip \in Addresses \cup {None}
    /\ \A s \in Sessions :
         /\ talk[s].at \in {"closed", "asking", "calling", "confirming"}
         /\ talk[s].kind \in {"chat", "onboard"} /\ talk[s].policy \in Policies
         /\ talk[s].turns \in 0 .. MaxTurns /\ talk[s].failures \in 0 .. MaxParse
         /\ talk[s].wants \in Proposals \cup {None} /\ talk[s].beside \subseteq Ids

(* Two rows share neither a name nor an address, but for two that were     *)
(* confirmed side by side: neither column is unique.                       *)
HostsAreDistinct ==
    \A h, k \in hosts :
        h.id # k.id /\ (h.name = k.name \/ (h.ip = k.ip /\ h.ip # None)) => {h.id, k.id} \in raced

(* The model is asked with a transcript in which the speakers alternate    *)
(* and the operator, or the harness for him, has spoken last, whatever     *)
(* refusals, protocol errors and declined proposals came before.           *)
SpeakersAlternate ==
    \A s \in Sessions :
        LET lines == talk[s].lines IN
        /\ \A i \in 1 .. Len(lines) - 1 : lines[i] # lines[i + 1]
        /\ talk[s].at = "calling" => Last(lines) = "user"

(* An answer comes from no backend below the tier, from none in the cloud  *)
(* under strict-local, and from one in the cloud under prefer-local only   *)
(* when it can name every local backend among those passed over.           *)
AnswersAreOwned ==
    \A s \in Sessions :
        LET r == talk[s].last IN
        r.how = "text" =>
            /\ roster[r.by].tier >= MinTier /\ r.by \notin r.skipped
            /\ ~roster[r.by].local => talk[s].policy # "strict-local"
            /\ (talk[s].policy = "prefer-local" /\ ~roster[r.by].local) =>
                 \A i \in DOMAIN roster : roster[i].local => i \in r.skipped
            /\ talk[s].policy = "open" =>
                 \A i \in DOMAIN roster : roster[i].tier > roster[r.by].tier => i \in r.skipped

TalkIsKept == HostsAreDistinct /\ SpeakersAlternate /\ AnswersAreOwned

(* Not run, for it does not hold: llm/router.py:18-20 has "unavailable or  *)
(* erroring backends fall through to the next candidate", and the class of *)
(* the errors it catches includes a "malformed payload" (line 73).  A body *)
(* that is not JSON raises something else (llm/backends.py:94), and the    *)
(* conversation ends although another backend was eligible.                *)
ErrorsFallThrough == \A s \in Sessions : talk[s].last.how # "raised"
=============================================================================
