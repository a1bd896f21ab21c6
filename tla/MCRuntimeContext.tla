-------------------------- MODULE MCRuntimeContext --------------------------
(***************************************************************************)
(* RuntimeContext with a server and two tasks.                             *)
(***************************************************************************)
EXTENDS RuntimeContext, TLC

CONSTANTS server, a, b, x, y
MCTask == {server, a, b}
MCValue == {x, y}
Symmetry == Permutations({a, b}) \cup Permutations(MCValue)
=============================================================================
