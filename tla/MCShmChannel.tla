----------------------------- MODULE MCShmChannel ------------------------------
(***************************************************************************)
(* An instance of ShmChannel for TLC.                                      *)
(***************************************************************************)
EXTENDS ShmChannel, TLC

CONSTANTS c1, c2
TwoClients == {c1, c2}
OneRestart == (c1 :> 2) @@ (c2 :> 1)
Funds == <<Message("data", NoClient, 0)>>
=============================================================================
