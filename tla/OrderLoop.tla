------------------------------- MODULE OrderLoop -------------------------------
(***************************************************************************)
(* The loop of an order: a client's request, the risk check, the gateway,  *)
(* the bridge, the counter, and the reports back to the risk engine and    *)
(* the clients.  It composes the work thread of XTrader                    *)
(* (src/XTrader/TraderEngine.cpp) with ATPGateWay and ATPBridge.  Of the   *)
(* risk engine, which RiskEngine models in full, only what the loop tells  *)
(* apart is here: the tokens it holds a reservation for.                   *)
(*                                                                         *)
(* The work thread drains its queues one after the other; here any of them *)
(* may be next.  Clients may repeat a token.  Every process may restart    *)
(* and every connection break, as often as the bounds say.                 *)
(***************************************************************************)
EXTENDS ATPGateWay, ATPBridge

CONSTANTS
  Unchecked,   \* tokens whose requests may ask for no risk check (ENOCHECKED)
  FreeCancels, \* references whose cancels may ask for none
  Faults,      \* bound: how often each fault may happen
  MaxKinds,    \* bound: kinds of faults in one behaviour
  MaxRequests, \* bound: requests of one token
  MaxCancels,  \* bound: cancel requests of one reference
  MaxSubjects  \* bound: tokens requested and references cancelled, together

FaultKinds == {"link", "trader", "bridge", "session", "query", "risk"}
ASSUME FaultsAssumption ==
  /\ Unchecked \subseteq Tokens /\ FreeCancels \subseteq Refs
  /\ Faults \in [FaultKinds -> Nat] /\ {MaxKinds, MaxRequests, MaxCancels, MaxSubjects} \subseteq Nat

VARIABLES
  toRisk,     \* shared memory channel from XTrader to XRiskJudge
  fromRisk,   \* and back
  joined,     \* IsConnected of that channel, kept by the server in XRiskJudge
  held,       \* tokens of m_OrderReservationMap
  passed,     \* history: tokens a risk check let pass
  shown,      \* the last status the clients were sent of each reference
  requested, cancels, faults   \* counters for the bounds

riskVars  == <<toRisk, fromRisk, joined, held, passed>>
boundVars == <<requested, cancels, faults>>
vars == <<linkVars, gatewayVars, bridgeVars, riskVars, shown, boundVars>>

OrderCheck(t)     == [type |-> "order", token |-> t]
CancelCheck(r)    == [type |-> "cancel", ref |-> r]
StatusForRisk(m)  == [type |-> "status", report |-> m]
OrderReply(t, b)  == [type |-> "order", token |-> t, pass |-> b]
CancelReply(r, b) == [type |-> "cancel", ref |-> r, pass |-> b]
RiskInputs  == {OrderCheck(t) : t \in Tokens} \cup {CancelCheck(r) : r \in Refs}
               \cup {StatusForRisk(m) : m \in OrderReports}
RiskOutputs == {OrderReply(t, b) : t \in Tokens, b \in BOOLEAN}
               \cup {CancelReply(r, b) : r \in Refs, b \in BOOLEAN}

Init ==
  /\ LinkInit /\ GatewayInit /\ BridgeInit
  /\ toRisk = <<>> /\ fromRisk = <<>> /\ joined = TRUE /\ held = {} /\ passed = {}
  /\ shown = [r \in Refs |-> Unknown]
  /\ requested = [t \in Tokens |-> 0]
  /\ cancels = [r \in Refs |-> 0]
  /\ faults = [k \in FaultKinds |-> 0]

-----------------------------------------------------------------------------
(* XRiskJudge, as the loop sees it.                                        *)

\* PollMsg drops what is sent to a channel that is not connected.
Answer(reply) == fromRisk' = IF joined THEN Append(fromRisk, reply) ELSE fromRisk

\* A duplicate token is refused; the other checks may refuse any request.
RiskOrder(t) ==
  \/ /\ t \notin held
     /\ held' = held \cup {t} /\ passed' = passed \cup {t}
     /\ Answer(OrderReply(t, TRUE))
  \/ /\ Answer(OrderReply(t, FALSE))
     /\ UNCHANGED <<held, passed>>

RiskCancel(r) ==
  /\ \E b \in BOOLEAN : Answer(CancelReply(r, b))
  /\ UNCHANGED <<held, passed>>

\* Mutant: a report that the order is being cancelled frees its reservation.
RiskStatusCancelling(m) ==
  /\ held' = IF m.status \in TerminalStatuses \cup {"ECANCELLING"}
             THEN held \ {m.token} ELSE held
  /\ UNCHANGED <<fromRisk, passed>>

RiskStatus(m) ==
  /\ held' = IF m.status \in TerminalStatuses THEN held \ {m.token} ELSE held
  /\ UNCHANGED <<fromRisk, passed>>

RiskHandlesMessage ==
  /\ toRisk # <<>>
  /\ toRisk' = Tail(toRisk)
  /\ LET m == Head(toRisk)
     IN  \/ m.type = "order"  /\ RiskOrder(m.token)
         \/ m.type = "cancel" /\ RiskCancel(m.ref)
         \/ m.type = "status" /\ RiskStatus(m.report)
  /\ UNCHANGED <<linkVars, gatewayVars, bridgeVars, joined, shown, boundVars>>

-----------------------------------------------------------------------------
(* The work thread of XTrader.                                             *)

Working == thread["work"] = Idle

\* The bound on what the clients do.
Within(ts, rs) ==
  Cardinality({t \in Tokens : requested[t] > 0} \cup ts)
    + Cardinality({r \in Refs : cancels[r] > 0} \cup rs) <= MaxSubjects

\* A client's order goes to the risk engine, or to the gateway when it asks
\* for no check.
HandleOrderRequest(t) ==
  /\ Working /\ requested[t] < MaxRequests /\ Within({t}, {})
  /\ requested' = [requested EXCEPT ![t] = @ + 1]
  /\ \/ /\ toRisk' = Append(toRisk, OrderCheck(t))
        /\ UNCHANGED <<linkVars, gatewayVars>>
     \/ /\ t \in Unchecked
        /\ ReqInsertOrder(t)
        /\ UNCHANGED toRisk
  /\ UNCHANGED <<bridgeVars, fromRisk, joined, held, passed, shown, cancels, faults>>

\* A client cancels an order it was shown.
HandleActionRequest(r) ==
  /\ Working /\ shown[r].known /\ cancels[r] < MaxCancels /\ Within({}, {r})
  /\ cancels' = [cancels EXCEPT ![r] = @ + 1]
  /\ \/ /\ toRisk' = Append(toRisk, CancelCheck(r))
        /\ UNCHANGED <<linkVars, gatewayVars>>
     \/ /\ r \in FreeCancels
        /\ ReqCancelOrder(r)
        /\ UNCHANGED toRisk
  /\ UNCHANGED <<bridgeVars, fromRisk, joined, held, passed, shown, requested, faults>>

\* Mutant: the answer of the risk engine is not looked at.
SendRequestAnyway(m) ==
  \/ m.type = "order"  /\ ReqInsertOrder(m.token)
  \/ m.type = "cancel" /\ ReqCancelOrder(m.ref)

\* TradeGateWay::SendRequest
SendRequest(m) ==
  \/ m.type = "order"  /\ m.pass  /\ ReqInsertOrder(m.token)
  \/ m.type = "order"  /\ ~m.pass /\ PublishRejected(m.token)
  \/ m.type = "cancel" /\ m.pass  /\ ReqCancelOrder(m.ref)
  \/ m.type = "cancel" /\ ~m.pass /\ ReqCancelOrderRejected(m.ref)

HandleRiskResponse ==
  /\ Working /\ fromRisk # <<>>
  /\ fromRisk' = Tail(fromRisk)
  /\ SendRequest(Head(fromRisk))
  /\ UNCHANGED <<bridgeVars, toRisk, joined, held, passed, shown, boundVars>>

\* A report goes to the risk engine, to the strategies and to the monitors.
HandleExecuteReport ==
  /\ Working /\ reports # <<>>
  /\ reports' = Tail(reports)
  /\ LET m == Head(reports)
     IN  /\ toRisk' = Append(toRisk, StatusForRisk(m))
         /\ shown' = IF m.ref = NoRef THEN shown
                     ELSE [shown EXCEPT ![m.ref] = Known(m.token, m.status)]
  /\ UNCHANGED <<linkVars, loggedIn, submitted, orderStatus, preCancel, thread, bridgeVars,
                 fromRisk, joined, held, passed, boundVars>>

-----------------------------------------------------------------------------
(* Steps of the components inside the composition.                         *)

GatewayStep ==
  /\ \/ MarkCancelling
     \/ \E th \in Threads : StoreOrder(th) \/ PublishOrder(th)
     \/ HandleMessage
     \/ Disconnect
  /\ UNCHANGED <<bridgeVars, riskVars, shown, boundVars>>

GatewayConnects ==
  Connect /\ UNCHANGED <<gatewayVars, bridgeVars, riskVars, shown, boundVars>>

BridgeStep ==
  /\ \/ BridgeOrder \/ BridgeSend \/ BridgeCancel \/ BridgeQuery
     \/ BridgeCallback \/ Resync
  /\ UNCHANGED <<gatewayVars, riskVars, shown, boundVars>>

CounterStep ==
  /\ \E r \in Refs : CounterMoves(r)
  /\ UNCHANGED <<gatewayVars, riskVars, shown, boundVars>>

SessionReturns ==
  SessionRecovers /\ UNCHANGED <<gatewayVars, riskVars, shown, boundVars>>

-----------------------------------------------------------------------------
(* Faults.                                                                 *)

Fault(kind) ==
  /\ faults[kind] < Faults[kind]
  /\ Cardinality({k \in FaultKinds : faults[k] > 0} \cup {kind}) <= MaxKinds
  /\ faults' = [faults EXCEPT ![kind] = @ + 1]
  /\ UNCHANGED <<requested, cancels>>

LinkFault ==
  Fault("link") /\ LinkBreaks /\ UNCHANGED <<gatewayVars, bridgeVars, riskVars, shown>>

QueryFault ==
  /\ Fault("query")
  /\ BridgeQueryFails \/ ResyncFails
  /\ UNCHANGED <<gatewayVars, riskVars, shown>>

SessionFault ==
  Fault("session") /\ SessionCloses /\ UNCHANGED <<gatewayVars, riskVars, shown>>

BridgeFault ==
  Fault("bridge") /\ BridgeRestart /\ UNCHANGED <<gatewayVars, riskVars, shown>>

Suffixes(s) == {SubSeq(s, n, Len(s)) : n \in 1 .. Len(s) + 1}

\* XTrader starts again, on its own or because it dereferenced end(), and
\* empties the rings of its channel (SHMConnection::Start).  The requests
\* XRiskJudge had taken and the answers it had not yet sent stay.
TraderRestarts ==
  /\ \/ Fault("trader")
     \/ thread["work"].pc = "undefined" /\ UNCHANGED boundVars
  /\ GatewayRestart
  /\ toRisk' \in Prefixes(toRisk) /\ fromRisk' \in Suffixes(fromRisk)
  /\ joined' = TRUE
  /\ UNCHANGED <<bridgeVars, held, passed, shown>>

\* XRiskJudge starts again and empties the rings (InitChannel), not what
\* XTrader has yet to send or has received; or it has not heard of XTrader for
\* the heartbeat interval.  XTrader does not notice: it never logs in again.
RiskFault ==
  /\ Fault("risk")
  /\ joined' = FALSE
  /\ \/ held' = {} /\ toRisk' \in Suffixes(toRisk) /\ fromRisk' \in Prefixes(fromRisk)
     \/ UNCHANGED <<held, toRisk, fromRisk>>
  /\ UNCHANGED <<linkVars, gatewayVars, bridgeVars, passed, shown>>

Next ==
  \/ \E t \in Tokens : HandleOrderRequest(t)
  \/ \E r \in Refs : HandleActionRequest(r)
  \/ HandleRiskResponse \/ HandleExecuteReport \/ RiskHandlesMessage
  \/ GatewayStep \/ GatewayConnects \/ BridgeStep \/ CounterStep \/ SessionReturns
  \/ LinkFault \/ SessionFault \/ QueryFault \/ BridgeFault \/ TraderRestarts \/ RiskFault

Spec == Init /\ [][Next]_vars

\* Every thread keeps running: the loops of WorkFunc, ReceiveLoop, the bridge
\* and the risk engine never wait for each other, and the bridge and the SDK
\* reconnect by themselves.  Clients, the counter's market and faults are free.
Fairness ==
  /\ WF_vars(HandleRiskResponse) /\ WF_vars(HandleExecuteReport)
  /\ WF_vars(RiskHandlesMessage)
  /\ WF_vars(GatewayStep) /\ WF_vars(GatewayConnects)
  /\ WF_vars(BridgeStep) /\ WF_vars(SessionReturns)
  /\ WF_vars(thread["work"].pc = "undefined" /\ TraderRestarts)

FairSpec == Spec /\ Fairness

-----------------------------------------------------------------------------
(* Properties.                                                             *)

\* Every variable keeps its type.
TypeOK ==
  /\ LinkOK /\ GatewayOK /\ BridgeOK
  /\ toRisk \in Seq(RiskInputs) /\ fromRisk \in Seq(RiskOutputs)
  /\ joined \in BOOLEAN /\ held \subseteq Tokens /\ passed \subseteq Tokens
  /\ shown \in [Refs -> KnownOrders \cup {Unknown}]

\* A token becomes at most one order of the counter, whatever the clients
\* repeat and whichever process restarts (m_SubmittedOrderTokens, the journal).
OnceAtCounter ==
  \A p, q \in Refs : counter[p].used /\ counter[q].used /\ counter[p].token = counter[q].token
                       => p = q

\* Only an order a risk check let pass, or one that asked for none, reaches the
\* counter (HandleRequestMessage, SendRequest).
CheckedBeforeCounter ==
  \A r \in Refs : counter[r].used => counter[r].token \in passed \cup Unchecked

\* The order of the token is live at the counter, or on its way there.
OnTheWay(t) ==
  \/ OrderReply(t, TRUE) \in {fromRisk[i] : i \in DOMAIN fromRisk}
  \/ OrderLine(t) \in {toBridge[i] : i \in DOMAIN toBridge}
  \/ command = Sending(t)
  \/ \E r \in Refs : Live(r) /\ counter[r].token = t

\* The order of the token has a client_seq_id that no earlier order has: the
\* bridge counts from 1 at each start, and takes the callback of an old order
\* for one about the new order with the same number.
OwnNumber(t) ==
  \A p, q \in Refs :
    /\ counter[p].used /\ counter[q].used
    /\ counter[p].token = t /\ q < p
    => counter[q].seq # counter[p].seq

\* The risk engine holds the reservation of every order that is live or on its
\* way, unless its client_seq_id is that of an older order: no report frees it
\* early (_normalize_order, ReleaseOrderReservation).
LiveOrdersReserved ==
  \A t \in Tokens \ Unchecked : OnTheWay(t) /\ OwnNumber(t) => t \in held

\* What the clients were shown as ended stays ended (PublishCancelFailure).
EndedStaysEnded ==
  [][\A r \in Refs : shown[r].known /\ shown[r].status \in TerminalStatuses
       => shown'[r].status \in TerminalStatuses]_vars

\* An order that ended and whose reference is on disk is freed by the risk
\* engine at last, for a recovery query repeats what a broken connection lost:
\* unless the reference is given to another order with its client_seq_id, or
\* the last query the counter was asked failed.
EndedIsFreed ==
  \A r \in Refs, t \in Tokens :
    Ended(r) /\ journal.refs[r] = t
      ~> \/ t \notin held
         \/ journal.refs[r] # t
         \/ [](missed)

=============================================================================
