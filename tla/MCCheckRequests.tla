-------------------------- MODULE MCCheckRequests ---------------------------
(***************************************************************************)
(* Two requests, and lists that are empty or not, or have too many actions *)
(* from the start; the items that are added are such as are refused when   *)
(* they are seen.                                                          *)
(***************************************************************************)
EXTENDS CheckRequests, TLC

CONSTANTS r1, r2
MCRequest == {r1, r2}
Symmetry == Permutations(MCRequest)
MCGiven ==
  [a \in Attribute |->
     {<<"full">>} \cup IF a = "actions" THEN {<<"plain", "full", "plain", "full">>} ELSE {}]
MCAdded == {"bad"}
=============================================================================
