----------------------------- MODULE MCExecutor -----------------------------
(* Instances of Executor for TLC.                                          *)
EXTENDS Executor, TLC

CONSTANTS c1, c2, p1, p2, h1, w1

MCDefaultLevel == [c \in Cells |-> PROPOSE]
MCMaxLevel     == [c \in Cells |-> IF c = c2 THEN PROPOSE ELSE AUTONOMOUS]

(* Authority: p1 on a host that may be capped, p2 in an absolute domain,   *)
(* one window that reaches both (through its host scope).                  *)
AuthorityCellOf  == (p1 :> c1) @@ (p2 :> c2)
AuthorityHostsOf == (p1 :> {h1}) @@ (p2 :> {})
AuthorityScope   == (w1 :> {p1, p2})
AuthorityCeilings == {[ceiling |-> CONFIRM, absolute |-> TRUE],
                      [ceiling |-> PROPOSE, absolute |-> FALSE]}

(* Commits: two proposals of one cell, no host and no window.              *)
CommitsCellOf  == [p \in Proposals |-> c1]
CommitsHostsOf == [p \in Proposals |-> {}]
CommitsScope   == [w \in Windows |-> {}]
=============================================================================
