---------------------------- MODULE MCRiskEngine ------------------------------
(* Small instances of RiskEngine.                                          *)
EXTENDS RiskEngine, TLC

Request(a, t, dir, price, volume, token) ==
  [account |-> a, ticker |-> t, direction |-> dir, price |-> price, volume |-> volume,
   token |-> token, riskStatus |-> "EPREPARE_CHECKED"]
InitRequest(a, t) ==
  [Request(a, t, "EBUY", 0, 0, 0) EXCEPT !.riskStatus = "ECHECK_INIT"]
Status(a, t, token, ref, status, side, price, limit) ==
  [account |-> a, ticker |-> t, token |-> token, ref |-> ref, status |-> status,
   side |-> side, price |-> price, limitOrder |-> limit]

\* Capacity: one account, two buys and a sell of one ticker, a sell of the
\* other; the orders end, are rejected without a reference, and come back.
CapacityTokenTicker == <<"a", 1>> :> "t" @@ <<"a", 2>> :> "t" @@ <<"a", 3>> :> "u"
CapacityRequests ==
  {Request("a", "t", "EBUY", 1, 2, 1), Request("a", "t", "EBUY", 2, 1, 2),
   Request("a", "t", "ESELL", 2, 1, 2), Request("a", "u", "ESELL", 1, 2, 3),
   Request("a", "t", "EBUY", 1, 1, 0)}
CapacityStatuses ==
  {Status("a", "t", 1, "r1", "EEXCHANGE_ACK", "EOPEN_LONG", 1, TRUE),
   Status("a", "t", 1, "r1", "EALLTRADED", "EOPEN_LONG", 1, TRUE),
   Status("a", "t", 1, "none", "EBROKER_ERROR", "EOPEN_LONG", 1, TRUE),
   Status("a", "t", 2, "r2", "EORDER_SENDED", "EOPEN_LONG", 2, TRUE),
   Status("a", "t", 2, "r2", "ECANCELLING", "EOPEN_LONG", 2, TRUE),
   Status("a", "t", 2, "r2", "ECANCELLED", "EOPEN_LONG", 2, TRUE),
   Status("a", "u", 3, "r3", "EPARTTRADED_CANCELLED", "ECLOSE_LONG", 1, TRUE)}
CapacityRefTicker == [ref \in OrderRefs |-> IF ref = "r3" THEN "u" ELSE "t"]
Identity == [a \in Accounts |-> {a}]

\* Limits: cancels, counters and locks of an account, with a table that may
\* refuse a write.
LimitsTokenTicker == <<"a", 1>> :> "t" @@ <<"a", 2>> :> "t"
LimitsRequests ==
  {Request("a", "t", "EBUY", 1, 1, 1), Request("a", "t", "ESELL", 2, 1, 2),
   InitRequest("a", "t")}
LimitsActions == {[account |-> "a", ref |-> "r1"]}
LimitsStatuses ==
  {Status("a", "t", 1, "r1", "EEXCHANGE_ACK", "EOPEN_LONG", 1, TRUE),
   Status("a", "t", 1, "r1", "EPARTTRADED", "EOPEN_LONG", 1, TRUE),
   Status("a", "t", 1, "r1", "EPARTTRADED_CANCELLED", "EOPEN_LONG", 1, TRUE),
   Status("a", "t", 1, "r1", "ECANCELLED", "EOPEN_LONG", 1, FALSE),
   Status("a", "t", 2, "none", "EEXCHANGE_ERROR", "ECLOSE_LONG", 1, TRUE)}
LimitsRefTicker == [ref \in OrderRefs |-> "t"]
LimitsLocks ==
  {Unlocked, [side |-> "ELOCK_ACCOUNT", tickers |-> {}],
   [side |-> "ELOCK_BUY", tickers |-> {"t"}], [side |-> "ELOCK_SELL", tickers |-> {"t"}]}
SmallLimits == [flow |-> 2, tickerCancel |-> 2, orderCancel |-> 1]
FewerLimits == [flow |-> 1, tickerCancel |-> 1, orderCancel |-> 1]
NewLimits   == {SmallLimits, FewerLimits}
OneFund     == {3}

\* Queue: one order, and requests for it without end.
QueueTokenTicker == [k \in Accounts \X Tokens |-> "t"]
QueueRequests    == {Request("a", "t", "EBUY", 1, 1, 1)}

=============================================================================
