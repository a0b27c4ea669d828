--------------------------- MODULE MCHubOwnership ---------------------------
(* Three processes at one project's owner file.                               *)
EXTENDS HubOwnership, TLC

CONSTANTS p1, p2, p3

MCProc   == {p1, p2, p3}
MCTwo    == {p1, p2}
Symmetry == Permutations(MCProc)
=============================================================================
