--------------------------- MODULE MCMaintenance ---------------------------
(* One guest of a node, and a neighbour with room for it.                  *)
EXTENDS Maintenance

CONSTANTS n2

OneGuest == {1}
SizeOf   == [g \in OneGuest |-> 1]
Roomy    == [n \in {n2} |-> 3]
NoMembers == <<>>
=============================================================================
