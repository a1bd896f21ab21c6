------------------------ MODULE MCInstallationToken -------------------------
(***************************************************************************)
(* InstallationToken with three handlers that are interchangeable.         *)
(***************************************************************************)
EXTENDS InstallationToken, TLC

CONSTANTS a, b, c
MCClient == {a, b, c}
Symmetry == Permutations(MCClient)
=============================================================================
