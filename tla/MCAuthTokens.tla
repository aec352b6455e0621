---------------------------- MODULE MCAuthTokens ------------------------------
(* AuthTokens for TLC.                                                       *)
EXTENDS AuthTokens, TLC

Symmetry == Permutations(Users) \cup Permutations(Requests)
=============================================================================
