-------------------------- MODULE MCEventDispatch ---------------------------
(***************************************************************************)
(* EventDispatch with a router of each strategy, and a second sequential   *)
(* one that begins after the concurrent one.                               *)
(***************************************************************************)
EXTENDS EventDispatch

MCStrategy == <<"sequential", "concurrent", "sequential", "nonblocking">>
MCMatching == <<2, 2, 2, 1>>
=============================================================================
