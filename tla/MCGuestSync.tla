---------------------------- MODULE MCGuestSync ----------------------------
(* One guest, whose discovery may push to NetBox as well.                  *)
EXTENDS GuestSync, TLC

OneGuest == {1}

Symmetry == Permutations(Names) \cup Permutations(Values)
=============================================================================
