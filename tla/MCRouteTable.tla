---------------------------- MODULE MCRouteTable -----------------------------
(***************************************************************************)
(* RouteTable with routes on two keys.                                     *)
(***************************************************************************)
EXTENDS RouteTable, TLC

CONSTANTS action, ref, x, y
MCKey == {action, ref}
MCVal == {x, y}
Symmetry == Permutations(MCKey) \cup Permutations(MCVal)
=============================================================================
