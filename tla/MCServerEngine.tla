----------------------------- MODULE MCServerEngine -----------------------------
(***************************************************************************)
(* An instance of ServerEngine, with its authorization service, for TLC.   *)
(***************************************************************************)
EXTENDS ServerEngine

CONSTANTS u1, s1, s2, t1, t2, m1, o1
OneUser     == {u1}
TwoSessions == {s1, s2}
SameUser    == [s \in {s1, s2} |-> u1]
TwoThreads  == {t1, t2}
OneDesktop  == {m1}
OneOrder    == {o1}
AckOrError  == {"exchange_ack", "broker_error"}
=============================================================================
