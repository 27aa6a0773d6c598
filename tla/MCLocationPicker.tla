-------------------------- MODULE MCLocationPicker --------------------------
(* LocationPicker on a small instance: two places beside (0, 0).            *)
EXTENDS LocationPicker, TLC

CONSTANTS here, there

MCPlaces == {Origin, here, there}

\* The two places are interchangeable: only (0, 0) is named in LocationPicker.
PlaceSymmetry == Permutations({here, there})
=============================================================================
