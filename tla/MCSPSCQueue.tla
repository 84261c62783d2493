------------------------------ MODULE MCSPSCQueue ------------------------------
(***************************************************************************)
(* An instance of SPSCQueue for TLC: four slots, as many values as slots   *)
(* that can be full, so that each order of the values is told apart.       *)
(***************************************************************************)
EXTENDS SPSCQueue

CONSTANTS m1, m2, m3
ThreeMessages == {m1, m2, m3}
=============================================================================
