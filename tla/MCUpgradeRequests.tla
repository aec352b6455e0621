------------------------- MODULE MCUpgradeRequests --------------------------
(* UpgradeRequests for TLC.                                                  *)
EXTENDS UpgradeRequests, TLC

Symmetry == Permutations(Requests) \cup Permutations(Handlers)
=============================================================================
