---------------------------- MODULE MCCatalogue -----------------------------
(* Catalogue for TLC.                                                        *)
EXTENDS Catalogue, TLC

Symmetry == Permutations(Requests) \cup Permutations(Videos)
                \cup Permutations(Titles) \cup Permutations(Genres)
=============================================================================
