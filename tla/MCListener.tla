----------------------------- MODULE MCListener -----------------------------
(* Instances of Listener for TLC: proposals 1 and 2, of one cell.          *)
EXTENDS Listener, TLC

CONSTANTS c1, s1, s2

MCDefaultLevel == [c \in Cells |-> PROPOSE]
MCMaxLevel     == [c \in Cells |-> AUTONOMOUS]
MCCellOf       == [p \in Proposals |-> c1]

(* Passes are told apart by nothing; no temporal property is checked under *)
(* this symmetry.                                                          *)
Symmetry == Permutations(Passes)
=============================================================================
