------------------------------ MODULE ATPGateWay ------------------------------
(***************************************************************************)
(* The ATP gateway inside XTrader                                          *)
(* (src/XTrader/TraderAPI/ATP/ATPTradeGateWay.cpp).  Two threads share     *)
(* m_OrderStatusMap without a lock: the work thread, which runs the        *)
(* requests TraderEngine hands it, and the receive thread, which handles   *)
(* the lines of the bridge.  One access of the map, one push and one       *)
(* SendLine is one step; volumes, prices, funds and positions are left out.*)
(***************************************************************************)
EXTENDS BridgeLink

VARIABLES
  loggedIn,      \* m_ConnectedStatus = ELOGIN_SUCCESSED
  submitted,     \* m_SubmittedOrderTokens
  orderStatus,   \* m_OrderStatusMap, Unknown when absent
  preCancel,     \* m_PreCancelOrderStatusMap, Unknown when absent
  reports,       \* m_ReportMessageQueue
  thread         \* where each of the two threads is

gatewayVars == <<loggedIn, submitted, orderStatus, preCancel, reports, thread>>

Threads == {"work", "receive"}
Unknown == [known |-> FALSE]
Known(t, s) == [known |-> TRUE, token |-> t, status |-> s]
Report(t, r, s) == [token |-> t, ref |-> r, status |-> s]
OrderReports ==
  {Report(t, r, s) : t \in Tokens \cup {NoToken}, r \in Refs \cup {NoRef}, s \in Statuses}
KnownOrders == {Known(t, s) : t \in Tokens \cup {NoToken}, s \in Statuses}

Idle == [pc |-> "idle"]
At(pc, report) == [pc |-> pc, report |-> report]
\* "mark": before the copy for ECANCELLING; "store": before the write of the
\* map; "publish": before the push; "undefined": after end() was dereferenced.
ThreadStates ==
  {Idle} \cup {At(pc, m) : pc \in {"mark", "store", "publish", "undefined"}, m \in OrderReports}

GatewayOK ==
  /\ loggedIn \in BOOLEAN /\ submitted \subseteq Tokens
  /\ orderStatus \in [Refs -> KnownOrders \cup {Unknown}]
  /\ preCancel \in [Refs -> KnownOrders \cup {Unknown}]
  /\ reports \in Seq(OrderReports)
  /\ thread \in [Threads -> ThreadStates]

GatewayInit ==
  /\ loggedIn = FALSE /\ submitted = {} /\ reports = <<>>
  /\ orderStatus = [r \in Refs |-> Unknown]
  /\ preCancel = [r \in Refs |-> Unknown]
  /\ thread = [th \in Threads |-> Idle]

Terminal(order) == order.known /\ order.status \in TerminalStatuses

Goto(th, state) == thread' = [thread EXCEPT ![th] = state]

\* UpdateOrderStatus: the push is the last step of every handler.
UpdateOrderStatus(th, report) ==
  /\ reports' = Append(reports, report)
  /\ Goto(th, Idle)

Rejected(t) == Report(t, NoRef, "EBROKER_ERROR")

PublishRejected(t) ==
  /\ UpdateOrderStatus("work", Rejected(t))
  /\ UNCHANGED <<linkVars, loggedIn, submitted, orderStatus, preCancel>>

-----------------------------------------------------------------------------
(* The work thread.                                                        *)

\* The rejection without a line stands for -2001 to -2005 (the request is not
\* one the gateway takes) and for -2006, the duplicate token.
ReqInsertOrder(t) ==
  \/ PublishRejected(t)
  \/ /\ t \notin submitted
     /\ submitted' = submitted \cup {t}
     /\ \/ CanSend /\ SendLine(OrderLine(t)) /\ UNCHANGED <<reports, thread>>
        \/ CanFail /\ UpdateOrderStatus("work", Rejected(t)) /\ UNCHANGED toBridge
     /\ UNCHANGED <<socket, fromBridge, loggedIn, orderStatus, preCancel>>

\* PublishCancelFailure: an order that ended keeps its end; otherwise the
\* state before the cancel comes back.  The copy is stored in a later step.
PublishCancelFailure(th, r) ==
  LET order    == orderStatus[r]
      restored == IF preCancel[r].known THEN preCancel[r] ELSE order
  IN  /\ preCancel' = IF order.known THEN [preCancel EXCEPT ![r] = Unknown] ELSE preCancel
      /\ Goto(th, IF order.known /\ ~Terminal(order)
                  THEN At("store", Report(restored.token, r, restored.status))
                  ELSE Idle)
      /\ UNCHANGED <<loggedIn, submitted, orderStatus, reports>>

\* The iterator of m_OrderStatusMap is taken before the line is sent and
\* dereferenced after; a request that names the exchange does not test it.
ReqCancelOrder(r) ==
  LET order == orderStatus[r]
      token == IF order.known THEN order.token ELSE NoToken
  IN  \/ /\ ~order.known                     \* no exchange in the request
         /\ UNCHANGED <<linkVars, gatewayVars>>
      \/ /\ CanSend
         /\ SendLine(CancelLine(r))
         /\ Goto("work", At(IF order.known THEN "mark" ELSE "undefined",
                            Report(token, r, "ECANCELLING")))
         /\ UNCHANGED <<socket, fromBridge, loggedIn, submitted, orderStatus, preCancel,
                        reports>>
      \/ /\ CanFail
         /\ PublishCancelFailure("work", r)
         /\ UNCHANGED linkVars

\* Between the line and the publication: the copy, then the write.
MarkCancelling ==
  /\ thread["work"].pc = "mark"
  /\ LET r == thread["work"].report.ref
     IN  /\ preCancel' = [preCancel EXCEPT ![r] = orderStatus[r]]
         /\ Goto("work", At("store", Report(orderStatus[r].token, r, "ECANCELLING")))
  /\ UNCHANGED <<linkVars, loggedIn, submitted, orderStatus, reports>>

\* ReqCancelOrderRejected publishes a copy of the order, read before the push.
ReqCancelOrderRejected(r) ==
  LET order == orderStatus[r]
  IN  /\ Goto("work", IF order.known /\ ~Terminal(order)
                      THEN At("publish", Report(order.token, r, order.status))
                      ELSE Idle)
      /\ UNCHANGED <<linkVars, loggedIn, submitted, orderStatus, preCancel, reports>>

-----------------------------------------------------------------------------
(* Both threads.                                                           *)

StoreOrder(th) ==
  /\ thread[th].pc = "store"
  /\ LET m == thread[th].report
     IN  /\ orderStatus' = [orderStatus EXCEPT ![m.ref] = Known(m.token, m.status)]
         /\ Goto(th, At("publish", m))
  /\ UNCHANGED <<linkVars, loggedIn, submitted, preCancel, reports>>

PublishOrder(th) ==
  /\ thread[th].pc = "publish"
  /\ UpdateOrderStatus(th, thread[th].report)
  /\ UNCHANGED <<linkVars, loggedIn, submitted, orderStatus, preCancel>>

-----------------------------------------------------------------------------
(* The receive thread.                                                     *)

\* A login after a time without one asks the bridge for all orders.
HandleLogin(connected) ==
  /\ loggedIn' = connected
  /\ IF connected /\ ~loggedIn THEN SendLine(QueryLine) ELSE UNCHANGED toBridge
  /\ UNCHANGED <<submitted, orderStatus, preCancel, reports, thread>>

HandleOrderStatus(m) ==
  /\ orderStatus' = IF m.ref = NoRef THEN orderStatus
                    ELSE [orderStatus EXCEPT ![m.ref] = Known(m.token, m.status)]
  /\ preCancel' = IF m.ref # NoRef /\ m.status \in TerminalStatuses
                  THEN [preCancel EXCEPT ![m.ref] = Unknown] ELSE preCancel
  /\ Goto("receive", At("publish", Report(m.token, m.ref, m.status)))
  /\ UNCHANGED <<toBridge, loggedIn, submitted, reports>>

HandleMessage ==
  /\ fromBridge # <<>> /\ thread["receive"] = Idle
  /\ fromBridge' = Tail(fromBridge)
  /\ LET m == Head(fromBridge)
     IN  \/ m.type = "login" /\ HandleLogin(m.connected)
         \/ m.type = "order_status" /\ HandleOrderStatus(m)
         \/ /\ m.type = "cancel_error"
            /\ PublishCancelFailure("receive", m.ref)
            /\ UNCHANGED toBridge
  /\ UNCHANGED socket

\* Mutant: the connection status survives the connection.
DisconnectSilently ==
  /\ socket = "dead" /\ fromBridge = <<>> /\ thread["receive"] = Idle
  /\ socket' = "none"
  /\ UNCHANGED <<toBridge, fromBridge, loggedIn, submitted, orderStatus, preCancel, reports,
                 thread>>

\* ReceiveLoop: recv returns 0 after the last delivered line.
Disconnect ==
  /\ socket = "dead" /\ fromBridge = <<>> /\ thread["receive"] = Idle
  /\ socket' = "none"
  /\ loggedIn' = FALSE
  /\ UNCHANGED <<toBridge, fromBridge, submitted, orderStatus, preCancel, reports, thread>>

\* The process ends and starts again: its memory and its socket are gone, the
\* bridge still reads what was delivered.
GatewayRestart ==
  /\ socket' = "none" /\ fromBridge' = <<>>
  /\ toBridge' \in Prefixes(toBridge)
  /\ loggedIn' = FALSE /\ submitted' = {} /\ reports' = <<>>
  /\ orderStatus' = [r \in Refs |-> Unknown]
  /\ preCancel' = [r \in Refs |-> Unknown]
  /\ thread' = [th \in Threads |-> Idle]

=============================================================================
