------------------------------ MODULE MCOrderLoop ------------------------------
(***************************************************************************)
(* Instances of OrderLoop for TLC: what may go wrong how often.            *)
(***************************************************************************)
EXTENDS OrderLoop, TLC

CONSTANTS t1, t2
OneToken  == {t1}
TwoTokens == {t1, t2}
OneRef  == {1}
TwoRefs == {1, 2}

Times(kinds) == [k \in FaultKinds |-> IF k \in kinds THEN 1 ELSE 0]
NoFaults     == Times({})
Restarts     == Times({"trader", "bridge", "risk"})
BreakRestart == Times({"link", "bridge"})
Outages      == Times({"link", "session", "query"})

Swap == Permutations(TwoTokens)
=============================================================================
