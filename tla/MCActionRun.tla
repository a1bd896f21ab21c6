---------------------------- MODULE MCActionRun -----------------------------
(***************************************************************************)
(* ActionRun with one router of each strategy.                             *)
(***************************************************************************)
EXTENDS ActionRun

MCStrategy == <<"concurrent", "sequential", "nonblocking">>
MCMatching == <<2, 2, 1>>
=============================================================================
