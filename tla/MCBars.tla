--------------------------------- MODULE MCBars ---------------------------------
(***************************************************************************)
(* An instance of Bars for TLC: minutes of five seconds, bars of one and   *)
(* of two minutes, and the break between two sections.                     *)
(***************************************************************************)
EXTENDS Bars

OneAndTwoMinutes == <<5, 10>>
TwoSections == {[start |-> 10, end |-> 20], [start |-> 30, end |-> 40]}
=============================================================================
