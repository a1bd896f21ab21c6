----------------------- MODULE MCInstallationListing ------------------------
(***************************************************************************)
(* InstallationListing with five installations, one of which the model     *)
(* class refuses, and clocks that agree or differ in either direction.     *)
(***************************************************************************)
EXTENDS InstallationListing, TLC

CONSTANTS i, j, k, l, u
MCInstallation == {i, j, k, l, u}
MCUnfit == {u}
MCSkews == {-1, 0, 1}
Symmetry == Permutations({i, j, k, l})
=============================================================================
