--------------------------- MODULE OrderLoopProofs ---------------------------
(***************************************************************************)
(* Theorems about OrderLoop: its types, that a token becomes at most one   *)
(* order of the counter, that only orders a risk check let pass, or that   *)
(* asked for none, get there, and that the risk engine holds the           *)
(* reservation of every such order that is live.                           *)
(***************************************************************************)
EXTENDS OrderLoop, SequenceTheorems, FiniteSetTheorems, TLAPS

-----------------------------------------------------------------------------
(* Sequences.                                                              *)

LEMMA AppendType ==
  ASSUME NEW S, NEW s \in Seq(S), NEW e \in S
  PROVE  Append(s, e) \in Seq(S)
OBVIOUS

LEMMA TailType ==
  ASSUME NEW S, NEW s \in Seq(S), s # <<>>
  PROVE  Head(s) \in S /\ Tail(s) \in Seq(S)
BY HeadTailProperties

LEMMA ConcatType ==
  ASSUME NEW S, NEW s \in Seq(S), NEW t \in Seq(S)
  PROVE  s \o t \in Seq(S)
BY ConcatProperties

LEMMA SingletonType ==
  ASSUME NEW S, NEW e \in S
  PROVE  <<e>> \in Seq(S)
OBVIOUS

\* What a broken connection delivers is of the type of what was written.
LEMMA PrefixType ==
  ASSUME NEW S, NEW s \in Seq(S), NEW p \in Prefixes(s)
  PROVE  p \in Seq(S)
<1>1. PICK n \in 0 .. Len(s) : p = SubSeq(s, 1, n)
  BY DEF Prefixes
<1>2. Len(s) \in Nat /\ \A i \in 1 .. n : s[i] \in S
  BY <1>1, LenProperties, ElementOfSeq
<1> QED
  BY <1>1, <1>2, SubSeqProperties

LEMMA SuffixType ==
  ASSUME NEW S, NEW s \in Seq(S), NEW p \in Suffixes(s)
  PROVE  p \in Seq(S)
<1>1. PICK n \in 1 .. Len(s) + 1 : p = SubSeq(s, n, Len(s))
  BY DEF Suffixes
<1>2. Len(s) \in Nat /\ \A i \in n .. Len(s) : s[i] \in S
  BY <1>1, LenProperties, ElementOfSeq
<1> QED
  BY <1>1, <1>2, SubSeqProperties

-----------------------------------------------------------------------------
(* Members of the message sets.                                            *)

LEMMA CommandTypes ==
  /\ \A t \in Tokens : OrderLine(t) \in Commands
  /\ \A r \in Refs : CancelLine(r) \in Commands
  /\ QueryLine \in Commands
  /\ \A m \in Commands : m.type = "order" => m.token \in Tokens
  /\ \A m \in Commands : m.type = "cancel" => m.ref \in Refs
<1>1. \A m \in Commands :
        \/ \E t \in Tokens : m = OrderLine(t)
        \/ \E r \in Refs : m = CancelLine(r)
        \/ m = QueryLine
  BY DEF Commands
<1>2. /\ \A m \in Commands : m.type = "order" => m.token \in Tokens
      /\ \A m \in Commands : m.type = "cancel" => m.ref \in Refs
  BY <1>1 DEF OrderLine, CancelLine, QueryLine
<1> QED
  BY <1>2 DEF Commands

LEMMA MessageTypes ==
  /\ \A b \in BOOLEAN : LoginLine(b) \in Messages
  /\ \A r \in Refs : CancelErrorLine(r) \in Messages
  /\ \A t \in Tokens \cup {NoToken}, r \in Refs \cup {NoRef}, s \in Statuses :
       StatusLine(t, r, s) \in Messages
  /\ \A t \in Tokens : RejectLine(t) \in Messages
  /\ \A m \in Messages : m.type = "login" => m.connected \in BOOLEAN
  /\ \A m \in Messages : m.type = "cancel_error" => m.ref \in Refs
  /\ \A m \in Messages : m.type = "order_status"
       => m.token \in Tokens \cup {NoToken} /\ m.ref \in Refs \cup {NoRef} /\ m.status \in Statuses
<1>1. \A b \in BOOLEAN : LoginLine(b) \in Messages
  BY DEF Messages
<1>2. \A r \in Refs : CancelErrorLine(r) \in Messages
  BY DEF Messages
<1>3. \A t \in Tokens \cup {NoToken}, r \in Refs \cup {NoRef}, s \in Statuses :
        StatusLine(t, r, s) \in Messages
  BY DEF Messages
<1>4. \A t \in Tokens : RejectLine(t) \in Messages
  BY <1>3 DEF RejectLine, Statuses, TerminalStatuses
<1>5. \A m \in Messages :
        \/ \E b \in BOOLEAN : m = LoginLine(b)
        \/ \E r \in Refs : m = CancelErrorLine(r)
        \/ \E t \in Tokens \cup {NoToken}, r \in Refs \cup {NoRef}, s \in Statuses :
             m = StatusLine(t, r, s)
  BY DEF Messages
<1>6. \A m \in Messages : m.type = "login" => m.connected \in BOOLEAN
  BY <1>5 DEF LoginLine, CancelErrorLine, StatusLine
<1>7. \A m \in Messages : m.type = "cancel_error" => m.ref \in Refs
  BY <1>5 DEF LoginLine, CancelErrorLine, StatusLine
<1>8. \A m \in Messages : m.type = "order_status"
        => m.token \in Tokens \cup {NoToken} /\ m.ref \in Refs \cup {NoRef} /\ m.status \in Statuses
  BY <1>5 DEF LoginLine, CancelErrorLine, StatusLine
<1> QED
  BY <1>1, <1>2, <1>3, <1>4, <1>6, <1>7, <1>8

LEMMA ReportTypes ==
  /\ \A t \in Tokens \cup {NoToken}, r \in Refs \cup {NoRef}, s \in Statuses :
       Report(t, r, s) \in OrderReports
  /\ \A m \in OrderReports :
       m.token \in Tokens \cup {NoToken} /\ m.ref \in Refs \cup {NoRef} /\ m.status \in Statuses
  /\ \A t \in Tokens : Rejected(t) \in OrderReports
<1>1. \A t \in Tokens \cup {NoToken}, r \in Refs \cup {NoRef}, s \in Statuses :
        Report(t, r, s) \in OrderReports
  BY DEF OrderReports
<1>2. \A m \in OrderReports :
        m.token \in Tokens \cup {NoToken} /\ m.ref \in Refs \cup {NoRef} /\ m.status \in Statuses
  BY DEF OrderReports, Report
<1>3. \A t \in Tokens : Rejected(t) \in OrderReports
  BY <1>1 DEF Rejected, Statuses, TerminalStatuses
<1> QED
  BY <1>1, <1>2, <1>3

LEMMA KnownTypes ==
  /\ \A t \in Tokens \cup {NoToken}, s \in Statuses : Known(t, s) \in KnownOrders
  /\ \A o \in KnownOrders \cup {Unknown} :
       o.known => o.token \in Tokens \cup {NoToken} /\ o.status \in Statuses
<1>1. \A o \in KnownOrders \cup {Unknown} :
        \/ \E t \in Tokens \cup {NoToken}, s \in Statuses : o = Known(t, s)
        \/ o = Unknown
  BY DEF KnownOrders
<1>2. \A o \in KnownOrders \cup {Unknown} :
        o.known => o.token \in Tokens \cup {NoToken} /\ o.status \in Statuses
  BY <1>1 DEF Known, Unknown
<1> QED
  BY <1>2 DEF KnownOrders

LEMMA ThreadTypes ==
  /\ Idle \in ThreadStates
  /\ \A pc \in {"mark", "store", "publish", "undefined"}, m \in OrderReports :
       At(pc, m) \in ThreadStates
  /\ \A x \in ThreadStates : x.pc # "idle" => x.report \in OrderReports
<1>1. \A x \in ThreadStates :
        \/ x = Idle
        \/ \E pc \in {"mark", "store", "publish", "undefined"}, m \in OrderReports : x = At(pc, m)
  BY DEF ThreadStates
<1>2. \A x \in ThreadStates : x.pc # "idle" => x.report \in OrderReports
  BY <1>1 DEF Idle, At
<1> QED
  BY <1>2 DEF ThreadStates

LEMMA RiskTypes ==
  /\ \A t \in Tokens : OrderCheck(t) \in RiskInputs
  /\ \A r \in Refs : CancelCheck(r) \in RiskInputs
  /\ \A m \in OrderReports : StatusForRisk(m) \in RiskInputs
  /\ \A m \in RiskInputs : m.type = "order" => m.token \in Tokens
  /\ \A m \in RiskInputs : m.type = "cancel" => m.ref \in Refs
  /\ \A m \in RiskInputs : m.type = "status" => m.report \in OrderReports
  /\ \A t \in Tokens, b \in BOOLEAN : OrderReply(t, b) \in RiskOutputs
  /\ \A r \in Refs, b \in BOOLEAN : CancelReply(r, b) \in RiskOutputs
  /\ \A m \in RiskOutputs : m.type = "order" => m.token \in Tokens
  /\ \A m \in RiskOutputs : m.type = "cancel" => m.ref \in Refs
<1>1. \A m \in RiskInputs :
        \/ \E t \in Tokens : m = OrderCheck(t)
        \/ \E r \in Refs : m = CancelCheck(r)
        \/ \E x \in OrderReports : m = StatusForRisk(x)
  BY DEF RiskInputs
<1>2. /\ \A m \in RiskInputs : m.type = "order" => m.token \in Tokens
      /\ \A m \in RiskInputs : m.type = "cancel" => m.ref \in Refs
      /\ \A m \in RiskInputs : m.type = "status" => m.report \in OrderReports
  BY <1>1 DEF OrderCheck, CancelCheck, StatusForRisk
<1>3. \A m \in RiskOutputs :
        \/ \E t \in Tokens, b \in BOOLEAN : m = OrderReply(t, b)
        \/ \E r \in Refs, b \in BOOLEAN : m = CancelReply(r, b)
  BY DEF RiskOutputs
<1>4. /\ \A m \in RiskOutputs : m.type = "order" => m.token \in Tokens
      /\ \A m \in RiskOutputs : m.type = "cancel" => m.ref \in Refs
  BY <1>3 DEF OrderReply, CancelReply
<1>5. /\ \A t \in Tokens : OrderCheck(t) \in RiskInputs
      /\ \A r \in Refs : CancelCheck(r) \in RiskInputs
      /\ \A m \in OrderReports : StatusForRisk(m) \in RiskInputs
  BY DEF RiskInputs
<1>6. /\ \A t \in Tokens, b \in BOOLEAN : OrderReply(t, b) \in RiskOutputs
      /\ \A r \in Refs, b \in BOOLEAN : CancelReply(r, b) \in RiskOutputs
  BY DEF RiskOutputs
<1> QED
  BY <1>2, <1>4, <1>5, <1>6

-----------------------------------------------------------------------------
(* Types of the connection and the gateway.                                *)

\* MarkCancelling reads an order the work thread found in the map before it
\* sent the line; the map forgets no order while the thread runs.
MarkOK ==
  thread["work"].pc = "mark"
    => /\ thread["work"].report.ref \in Refs
       /\ orderStatus[thread["work"].report.ref].known

GatewayInv == GatewayOK /\ MarkOK

LEMMA SendLineType ==
  ASSUME toBridge \in Seq(Commands), NEW line \in Commands, SendLine(line)
  PROVE  toBridge' \in Seq(Commands)
BY AppendType DEF SendLine

LEMMA PublishType ==
  ASSUME fromBridge \in Seq(Messages), NEW msg \in Messages, Publish(<<msg>>)
  PROVE  fromBridge' \in Seq(Messages)
BY ConcatType, SingletonType DEF Publish

LEMMA GotoType ==
  ASSUME thread \in [Threads -> ThreadStates], NEW th \in Threads, NEW x \in ThreadStates,
         Goto(th, x)
  PROVE  /\ thread' \in [Threads -> ThreadStates]
         /\ thread'[th] = x
         /\ \A other \in Threads : other # th => thread'[other] = thread[other]
BY DEF Goto

LEMMA UpdateType ==
  ASSUME reports \in Seq(OrderReports), thread \in [Threads -> ThreadStates],
         NEW th \in Threads, NEW m \in OrderReports, UpdateOrderStatus(th, m)
  PROVE  /\ reports' \in Seq(OrderReports)
         /\ thread' \in [Threads -> ThreadStates]
         /\ thread'[th] = Idle
         /\ \A other \in Threads : other # th => thread'[other] = thread[other]
BY AppendType, GotoType, ThreadTypes DEF UpdateOrderStatus

LEMMA ThreadNames == "work" \in Threads /\ "receive" \in Threads /\ "work" # "receive"
BY DEF Threads

LEMMA PublishRejectedType ==
  ASSUME LinkOK, GatewayInv, NEW t \in Tokens, PublishRejected(t)
  PROVE  LinkOK' /\ GatewayInv'
<1>1. Rejected(t) \in OrderReports
  BY ReportTypes
<1>2. reports' \in Seq(OrderReports) /\ thread' \in [Threads -> ThreadStates]
      /\ thread'["work"] = Idle
  BY <1>1, UpdateType, ThreadNames DEF PublishRejected, GatewayInv, GatewayOK
<1>3. UNCHANGED <<linkVars, loggedIn, submitted, orderStatus, preCancel>>
  BY DEF PublishRejected
<1> QED
  BY <1>2, <1>3 DEF linkVars, LinkOK, GatewayInv, GatewayOK, MarkOK, Idle

LEMMA ReqInsertOrderType ==
  ASSUME LinkOK, GatewayInv, NEW t \in Tokens, ReqInsertOrder(t)
  PROVE  LinkOK' /\ GatewayInv'
<1>1. CASE PublishRejected(t)
  BY <1>1, PublishRejectedType
<1>2. CASE submitted' = submitted \cup {t} /\ SendLine(OrderLine(t))
           /\ UNCHANGED <<reports, thread, socket, fromBridge, loggedIn, orderStatus, preCancel>>
  <2>1. toBridge' \in Seq(Commands)
    BY <1>2, SendLineType, CommandTypes DEF LinkOK
  <2> QED
    BY <1>2, <2>1 DEF LinkOK, GatewayInv, GatewayOK, MarkOK
<1>3. CASE submitted' = submitted \cup {t} /\ UpdateOrderStatus("work", Rejected(t))
           /\ UNCHANGED <<toBridge, socket, fromBridge, loggedIn, orderStatus, preCancel>>
  <2>1. reports' \in Seq(OrderReports) /\ thread' \in [Threads -> ThreadStates]
        /\ thread'["work"] = Idle
    BY <1>3, UpdateType, ThreadNames, ReportTypes DEF GatewayInv, GatewayOK
  <2> QED
    BY <1>3, <2>1 DEF LinkOK, GatewayInv, GatewayOK, MarkOK, Idle
<1> QED
  BY <1>1, <1>2, <1>3 DEF ReqInsertOrder

\* A cancel failure leaves the other thread where it is.
LEMMA PublishCancelFailureType ==
  ASSUME GatewayInv, NEW th \in Threads, NEW r \in Refs, PublishCancelFailure(th, r)
  PROVE  GatewayInv'
<1> DEFINE order == orderStatus[r]
           restored == IF preCancel[r].known THEN preCancel[r] ELSE order
           next == IF order.known /\ ~Terminal(order)
                   THEN At("store", Report(restored.token, r, restored.status)) ELSE Idle
<1>1. next \in ThreadStates /\ next.pc # "mark"
  <2>1. CASE order.known /\ ~Terminal(order)
    <3>1. preCancel[r] \in KnownOrders \cup {Unknown} /\ order \in KnownOrders \cup {Unknown}
      BY DEF GatewayInv, GatewayOK
    <3>2. restored.token \in Tokens \cup {NoToken} /\ restored.status \in Statuses
      BY <2>1, <3>1, KnownTypes
    <3>3. Report(restored.token, r, restored.status) \in OrderReports
      BY <3>2, ReportTypes
    <3> QED
      BY <2>1, <3>3, ThreadTypes DEF At
  <2>2. CASE ~(order.known /\ ~Terminal(order))
    BY <2>2, ThreadTypes DEF Idle
  <2> QED
    BY <2>1, <2>2
<1>2. Goto(th, next)
  BY DEF PublishCancelFailure
<1>3. /\ preCancel' = IF order.known THEN [preCancel EXCEPT ![r] = Unknown] ELSE preCancel
      /\ UNCHANGED <<loggedIn, submitted, orderStatus, reports>>
  BY DEF PublishCancelFailure
<1> HIDE DEF next
<1>4. /\ thread' \in [Threads -> ThreadStates]
      /\ thread'["work"].pc = "mark" => thread'["work"] = thread["work"]
  BY <1>1, <1>2, GotoType, ThreadNames DEF GatewayInv, GatewayOK
<1>5. preCancel' \in [Refs -> KnownOrders \cup {Unknown}]
  BY <1>3 DEF GatewayInv, GatewayOK
<1> QED
  BY <1>3, <1>4, <1>5 DEF GatewayInv, GatewayOK, MarkOK

LEMMA ReqCancelOrderType ==
  ASSUME LinkOK, GatewayInv, NEW r \in Refs, ReqCancelOrder(r)
  PROVE  LinkOK' /\ GatewayInv'
<1> DEFINE order == orderStatus[r]
           token == IF order.known THEN order.token ELSE NoToken
           next == At(IF order.known THEN "mark" ELSE "undefined", Report(token, r, "ECANCELLING"))
<1>1. CASE UNCHANGED <<linkVars, gatewayVars>>
  BY <1>1 DEF linkVars, gatewayVars, LinkOK, GatewayInv, GatewayOK, MarkOK
<1>2. CASE /\ SendLine(CancelLine(r)) /\ Goto("work", next)
           /\ UNCHANGED <<socket, fromBridge, loggedIn, submitted, orderStatus, preCancel, reports>>
  <2>1. toBridge' \in Seq(Commands)
    BY <1>2, SendLineType, CommandTypes DEF LinkOK
  <2>2. order \in KnownOrders \cup {Unknown}
    BY DEF GatewayInv, GatewayOK
  <2>3. Report(token, r, "ECANCELLING") \in OrderReports
    BY <2>2, KnownTypes, ReportTypes DEF Statuses
  <2>4. next \in ThreadStates /\ next.report.ref = r /\ (next.pc = "mark" => order.known)
    BY <2>3, ThreadTypes DEF At, Report
  <2> HIDE DEF next
  <2>5. thread' \in [Threads -> ThreadStates] /\ thread'["work"] = next
    BY <1>2, <2>4, GotoType, ThreadNames DEF GatewayInv, GatewayOK
  <2>6. MarkOK'
    BY <1>2, <2>4, <2>5 DEF MarkOK
  <2> QED
    BY <1>2, <2>1, <2>5, <2>6 DEF LinkOK, GatewayInv, GatewayOK
<1>3. CASE PublishCancelFailure("work", r) /\ UNCHANGED linkVars
  BY <1>3, PublishCancelFailureType, ThreadNames DEF linkVars, LinkOK
<1> QED
  BY <1>1, <1>2, <1>3 DEF ReqCancelOrder

LEMMA ReqCancelOrderRejectedType ==
  ASSUME LinkOK, GatewayInv, NEW r \in Refs, ReqCancelOrderRejected(r)
  PROVE  LinkOK' /\ GatewayInv'
<1> DEFINE order == orderStatus[r]
           next == IF order.known /\ ~Terminal(order)
                   THEN At("publish", Report(order.token, r, order.status)) ELSE Idle
<1>1. order \in KnownOrders \cup {Unknown}
  BY DEF GatewayInv, GatewayOK
<1>2. order.known => Report(order.token, r, order.status) \in OrderReports
  BY <1>1, KnownTypes, ReportTypes
<1>3. next \in ThreadStates /\ next.pc # "mark"
  BY <1>2, ThreadTypes DEF At, Idle
<1>4. /\ Goto("work", next)
      /\ UNCHANGED <<linkVars, loggedIn, submitted, orderStatus, preCancel, reports>>
  BY DEF ReqCancelOrderRejected
<1> HIDE DEF next
<1>5. thread' \in [Threads -> ThreadStates] /\ thread'["work"].pc # "mark"
  BY <1>3, <1>4, GotoType, ThreadNames DEF GatewayInv, GatewayOK
<1> QED
  BY <1>4, <1>5 DEF linkVars, LinkOK, GatewayInv, GatewayOK, MarkOK

LEMMA SendRequestType ==
  ASSUME LinkOK, GatewayInv, NEW m \in RiskOutputs, SendRequest(m)
  PROVE  LinkOK' /\ GatewayInv'
BY RiskTypes, ReqInsertOrderType, PublishRejectedType, ReqCancelOrderType,
   ReqCancelOrderRejectedType DEF SendRequest

LEMMA MarkCancellingType ==
  ASSUME LinkOK, GatewayInv, MarkCancelling
  PROVE  LinkOK' /\ GatewayInv'
<1> DEFINE r == thread["work"].report.ref
           next == At("store", Report(orderStatus[r].token, r, "ECANCELLING"))
<1>1. r \in Refs /\ orderStatus[r].known /\ orderStatus[r] \in KnownOrders \cup {Unknown}
  BY DEF MarkCancelling, GatewayInv, GatewayOK, MarkOK
<1>2. Report(orderStatus[r].token, r, "ECANCELLING") \in OrderReports
  BY <1>1, KnownTypes, ReportTypes DEF Statuses
<1>3. next \in ThreadStates /\ next.pc # "mark"
  BY <1>2, ThreadTypes DEF At
<1>4. /\ preCancel' = [preCancel EXCEPT ![r] = orderStatus[r]] /\ Goto("work", next)
      /\ UNCHANGED <<linkVars, loggedIn, submitted, orderStatus, reports>>
  BY DEF MarkCancelling
<1> HIDE DEF next
<1>5. thread' \in [Threads -> ThreadStates] /\ thread'["work"].pc # "mark"
  BY <1>3, <1>4, GotoType, ThreadNames DEF GatewayInv, GatewayOK
<1>6. preCancel' \in [Refs -> KnownOrders \cup {Unknown}]
  BY <1>1, <1>4 DEF GatewayInv, GatewayOK
<1> QED
  BY <1>4, <1>5, <1>6 DEF linkVars, LinkOK, GatewayInv, GatewayOK, MarkOK

LEMMA StoreOrderType ==
  ASSUME LinkOK, GatewayInv, NEW th \in Threads, StoreOrder(th)
  PROVE  LinkOK' /\ GatewayInv'
<1> DEFINE m == thread[th].report
<1>1. m \in OrderReports
  BY ThreadTypes DEF StoreOrder, GatewayInv, GatewayOK
<1>2. Known(m.token, m.status) \in KnownOrders /\ Known(m.token, m.status).known
  BY <1>1, ReportTypes, KnownTypes DEF Known
<1>3. At("publish", m) \in ThreadStates /\ At("publish", m).pc # "mark"
  BY <1>1, ThreadTypes DEF At
<1>4. /\ orderStatus' = [orderStatus EXCEPT ![m.ref] = Known(m.token, m.status)]
      /\ Goto(th, At("publish", m))
      /\ UNCHANGED <<linkVars, loggedIn, submitted, preCancel, reports>>
  BY DEF StoreOrder
<1> HIDE DEF m
<1>5. /\ thread' \in [Threads -> ThreadStates]
      /\ thread'["work"].pc = "mark" => thread'["work"] = thread["work"]
  BY <1>3, <1>4, GotoType, ThreadNames DEF GatewayInv, GatewayOK
<1>6. orderStatus' \in [Refs -> KnownOrders \cup {Unknown}]
  BY <1>2, <1>4 DEF GatewayInv, GatewayOK
<1>7. \A r \in Refs : orderStatus[r].known => orderStatus'[r].known
  BY <1>2, <1>4 DEF GatewayInv, GatewayOK
<1>8. MarkOK'
  BY <1>5, <1>7 DEF GatewayInv, MarkOK
<1> QED
  BY <1>4, <1>5, <1>6, <1>8 DEF linkVars, LinkOK, GatewayInv, GatewayOK

LEMMA PublishOrderType ==
  ASSUME LinkOK, GatewayInv, NEW th \in Threads, PublishOrder(th)
  PROVE  LinkOK' /\ GatewayInv'
<1>1. thread[th].report \in OrderReports
  BY ThreadTypes DEF PublishOrder, GatewayInv, GatewayOK
<1>2. /\ UpdateOrderStatus(th, thread[th].report)
      /\ UNCHANGED <<linkVars, loggedIn, submitted, orderStatus, preCancel>>
  BY DEF PublishOrder
<1>3. /\ reports' \in Seq(OrderReports) /\ thread' \in [Threads -> ThreadStates]
      /\ thread'["work"] = thread["work"] \/ thread'["work"] = Idle
  BY <1>1, <1>2, UpdateType, ThreadNames DEF GatewayInv, GatewayOK
<1> QED
  BY <1>2, <1>3 DEF linkVars, LinkOK, GatewayInv, GatewayOK, MarkOK, Idle

LEMMA HandleMessageType ==
  ASSUME LinkOK, GatewayInv, HandleMessage
  PROVE  LinkOK' /\ GatewayInv'
<1> DEFINE m == Head(fromBridge)
<1>1. m \in Messages /\ fromBridge' \in Seq(Messages) /\ UNCHANGED socket
  BY TailType DEF HandleMessage, LinkOK
<1>2. ASSUME NEW b \in BOOLEAN, HandleLogin(b)
      PROVE  toBridge' \in Seq(Commands) /\ GatewayInv'
  BY <1>2, SendLineType, CommandTypes DEF HandleLogin, LinkOK, GatewayInv, GatewayOK, MarkOK
<1>3. CASE m.type = "order_status" /\ HandleOrderStatus(m)
  <2>1. /\ m.token \in Tokens \cup {NoToken} /\ m.ref \in Refs \cup {NoRef}
        /\ m.status \in Statuses
    BY <1>1, <1>3, MessageTypes
  <2>2. /\ Known(m.token, m.status) \in KnownOrders /\ Known(m.token, m.status).known
        /\ Report(m.token, m.ref, m.status) \in OrderReports
    BY <2>1, KnownTypes, ReportTypes DEF Known
  <2>3. At("publish", Report(m.token, m.ref, m.status)) \in ThreadStates
    BY <2>2, ThreadTypes
  <2>4. /\ orderStatus' = IF m.ref = NoRef THEN orderStatus
                          ELSE [orderStatus EXCEPT ![m.ref] = Known(m.token, m.status)]
        /\ preCancel' = IF m.ref # NoRef /\ m.status \in TerminalStatuses
                        THEN [preCancel EXCEPT ![m.ref] = Unknown] ELSE preCancel
        /\ Goto("receive", At("publish", Report(m.token, m.ref, m.status)))
        /\ UNCHANGED <<toBridge, loggedIn, submitted, reports>>
    BY <1>3 DEF HandleOrderStatus
  <2> HIDE DEF m
  <2>5. thread' \in [Threads -> ThreadStates] /\ thread'["work"] = thread["work"]
    BY <2>3, <2>4, GotoType, ThreadNames DEF GatewayInv, GatewayOK
  <2>6. orderStatus' \in [Refs -> KnownOrders \cup {Unknown}]
    BY <2>2, <2>4 DEF GatewayInv, GatewayOK
  <2>7. preCancel' \in [Refs -> KnownOrders \cup {Unknown}]
    BY <2>4 DEF GatewayInv, GatewayOK
  <2>8. \A r \in Refs : orderStatus[r].known => orderStatus'[r].known
    BY <2>2, <2>4 DEF GatewayInv, GatewayOK
  <2>9. MarkOK'
    BY <2>5, <2>8 DEF GatewayInv, MarkOK
  <2> QED
    BY <1>1, <2>4, <2>5, <2>6, <2>7, <2>9 DEF LinkOK, GatewayInv, GatewayOK
<1>4. CASE m.type = "cancel_error" /\ PublishCancelFailure("receive", m.ref) /\ UNCHANGED toBridge
  <2>1. m.ref \in Refs
    BY <1>1, <1>4, MessageTypes
  <2> QED
    BY <1>1, <1>4, <2>1, PublishCancelFailureType, ThreadNames DEF LinkOK
<1>5. CASE m.type = "login" /\ HandleLogin(m.connected)
  BY <1>1, <1>2, <1>5, MessageTypes DEF LinkOK
<1> QED
  BY <1>3, <1>4, <1>5 DEF HandleMessage

LEMMA DisconnectType ==
  ASSUME LinkOK, GatewayInv, Disconnect
  PROVE  LinkOK' /\ GatewayInv'
BY DEF Disconnect, LinkOK, GatewayInv, GatewayOK, MarkOK

LEMMA GatewayRestartType ==
  ASSUME LinkOK, GatewayRestart
  PROVE  LinkOK' /\ GatewayInv'
<1>1. toBridge' \in Seq(Commands)
  BY PrefixType DEF GatewayRestart, LinkOK
<1>2. thread' \in [Threads -> ThreadStates] /\ thread'["work"].pc # "mark"
  BY ThreadTypes, ThreadNames DEF GatewayRestart, Idle
<1>3. reports' \in Seq(OrderReports) /\ fromBridge' \in Seq(Messages)
  BY DEF GatewayRestart
<1> QED
  BY <1>1, <1>2, <1>3 DEF GatewayRestart, LinkOK, GatewayInv, GatewayOK, MarkOK

LEMMA GatewayStepType ==
  ASSUME LinkOK, GatewayInv, GatewayStep
  PROVE  LinkOK' /\ GatewayInv'
BY MarkCancellingType, StoreOrderType, PublishOrderType, HandleMessageType, DisconnectType
   DEF GatewayStep

LEMMA LinkBreaksType ==
  ASSUME LinkOK, LinkBreaks
  PROVE  LinkOK'
BY PrefixType DEF LinkBreaks, LinkOK

LEMMA ConnectType ==
  ASSUME LinkOK, Connect
  PROVE  LinkOK'
BY MessageTypes, SingletonType DEF Connect, LinkOK

-----------------------------------------------------------------------------
(* Types of the bridge.                                                    *)

CallbackRecords == [ref: Refs, seq: Numbers \cup {0}, status: Statuses]

LEMMA StatusNames == "EEXCHANGE_ACK" \in Statuses /\ "EEXCHANGE_ERROR" \in Statuses
BY DEF Statuses, LiveStatuses, TerminalStatuses

LEMMA CallBackType ==
  ASSUME callbacks \in Seq(CallbackRecords), NEW msgs \in Seq(CallbackRecords), CallBack(msgs)
  PROVE  callbacks' \in Seq(CallbackRecords)
BY ConcatType DEF CallBack

LEMMA CallbackType ==
  ASSUME NEW r \in Refs, NEW n \in Numbers \cup {0}, NEW s \in Statuses
  PROVE  <<Callback(r, n, s)>> \in Seq(CallbackRecords)
<1>1. Callback(r, n, s) \in CallbackRecords
  BY DEF Callback, CallbackRecords
<1> QED
  BY <1>1, SingletonType

\* The answer of an order query is a sequence of callbacks.
LEMMA SnapshotsType ==
  ASSUME BridgeOK, NEW rows \in Snapshots
  PROVE  rows \in Seq(CallbackRecords)
<1> DEFINE known == {r \in Refs : counter[r].used}
           n == Cardinality(known)
<1>1. n \in Nat
  BY NamesAssumption, FS_Subset, FS_CardinalityType
<1>2. PICK f \in [1 .. n -> known] : rows = [i \in DOMAIN f |-> Row(f[i])]
  BY DEF Snapshots
<1>3. \A r \in known : Row(r) \in CallbackRecords
  <2> TAKE r \in known
  <2>1. counter[r] \in Orders
    BY DEF BridgeOK, NoOrder
  <2> QED
    BY <2>1 DEF Row, Callback, CallbackRecords, Orders
<1> HIDE DEF known, n
<1>4. rows \in [1 .. n -> CallbackRecords]
  BY <1>2, <1>3
<1> QED
  BY <1>1, <1>4

LEMMA ReadingType ==
  ASSUME LinkOK, NEW type, Reading(type)
  PROVE  /\ toBridge' \in Seq(Commands)
         /\ Head(toBridge) \in Commands
         /\ Head(toBridge).type = type
         /\ command = NoCommand
BY TailType DEF Reading, LinkOK

LEMMA BridgeOrderType ==
  ASSUME LinkOK, BridgeOK, BridgeOrder
  PROVE  LinkOK' /\ BridgeOK'
<1> DEFINE t == Head(toBridge).token
<1>1. toBridge' \in Seq(Commands) /\ t \in Tokens /\ UNCHANGED socket
  BY ReadingType, CommandTypes DEF BridgeOrder
<1> HIDE DEF t
<1>2. CASE Publish(<<RejectLine(t)>>) /\ UNCHANGED bridgeVars
  <2>1. fromBridge' \in Seq(Messages)
    BY <1>1, <1>2, PublishType, MessageTypes DEF LinkOK
  <2> QED
    BY <1>1, <1>2, <2>1 DEF LinkOK, BridgeOK, bridgeVars
<1>3. CASE /\ Reserve(t) /\ command' = Sending(t)
           /\ UNCHANGED <<fromBridge, refContext, remembered, resync, session, callbacks, counter,
                          missed>>
  <2>1. journal' \in [tokens: SUBSET Tokens, refs: Contexts] /\ intents' \subseteq Tokens
    BY <1>1, <1>3 DEF Reserve, BridgeOK
  <2> QED
    BY <1>1, <1>3, <2>1 DEF LinkOK, BridgeOK
<1> QED
  BY <1>2, <1>3 DEF BridgeOrder, t

LEMMA BridgeSendType ==
  ASSUME LinkOK, BridgeOK, BridgeSend
  PROVE  LinkOK' /\ BridgeOK'
<1> DEFINE t == command.token
<1>1. t \in Tokens
  BY DEF BridgeSend, BridgeOK, NoCommand, Sending
<1>2. /\ command' = NoCommand
      /\ UNCHANGED <<socket, toBridge, journal, intents, refContext, resync, session, missed>>
  BY DEF BridgeSend
<1>3. PICK n \in Numbers :
        /\ remembered' = [remembered EXCEPT ![n] = t]
        /\ \/ /\ \E r \in Refs :
                   /\ counter' = [counter EXCEPT ![r] = Order(t, n, "EEXCHANGE_ACK")]
                   /\ CallBack(<<Callback(r, n, "EEXCHANGE_ACK")>>)
              /\ UNCHANGED fromBridge
           \/ Publish(<<RejectLine(t)>>) /\ UNCHANGED <<counter, callbacks>>
  BY DEF BridgeSend
<1> HIDE DEF t
<1>4. remembered' \in [Numbers -> Tokens \cup {NoToken}]
  BY <1>1, <1>3 DEF BridgeOK
<1>5. ASSUME NEW r \in Refs, counter' = [counter EXCEPT ![r] = Order(t, n, "EEXCHANGE_ACK")],
             CallBack(<<Callback(r, n, "EEXCHANGE_ACK")>>), UNCHANGED fromBridge
      PROVE  LinkOK' /\ BridgeOK'
  <2>1. callbacks' \in Seq(CallbackRecords)
    BY <1>5, CallBackType, CallbackType, StatusNames DEF BridgeOK, CallbackRecords
  <2>2. Order(t, n, "EEXCHANGE_ACK") \in Orders
    BY <1>1, StatusNames DEF Order, Orders
  <2>3. counter' \in [Refs -> Orders \cup {NoOrder}]
    BY <1>5, <2>2 DEF BridgeOK
  <2> QED
    BY <1>1, <1>2, <1>4, <1>5, <2>1, <2>3 DEF LinkOK, BridgeOK, CallbackRecords
<1>6. CASE Publish(<<RejectLine(t)>>) /\ UNCHANGED <<counter, callbacks>>
  <2>1. fromBridge' \in Seq(Messages)
    BY <1>1, <1>6, PublishType, MessageTypes DEF LinkOK
  <2> QED
    BY <1>1, <1>2, <1>4, <1>6, <2>1 DEF LinkOK, BridgeOK
<1> QED
  BY <1>3, <1>5, <1>6

LEMMA BridgeCancelType ==
  ASSUME LinkOK, BridgeOK, BridgeCancel
  PROVE  LinkOK' /\ BridgeOK'
<1> DEFINE r == Head(toBridge).ref
<1>1. toBridge' \in Seq(Commands) /\ r \in Refs
  BY ReadingType, CommandTypes DEF BridgeCancel
<1>2. UNCHANGED <<socket, journal, intents, refContext, remembered, command, resync, session,
                  callbacks, missed>>
  BY DEF BridgeCancel
<1> HIDE DEF r
<1>3. CASE Live(r) /\ counter' = [counter EXCEPT ![r].cancelling = TRUE] /\ UNCHANGED fromBridge
  <2>1. counter[r] \in Orders
    BY <1>1, <1>3 DEF BridgeOK, Live, NoOrder
  <2>2. [counter[r] EXCEPT !.cancelling = TRUE] \in Orders
    BY <2>1 DEF Orders
  <2>3. counter' \in [Refs -> Orders \cup {NoOrder}]
    BY <1>3, <2>2 DEF BridgeOK
  <2> QED
    BY <1>1, <1>2, <1>3, <2>3 DEF LinkOK, BridgeOK
<1>4. CASE Publish(<<CancelErrorLine(r)>>) /\ UNCHANGED counter
  <2>1. fromBridge' \in Seq(Messages)
    BY <1>1, <1>4, PublishType, MessageTypes DEF LinkOK
  <2> QED
    BY <1>1, <1>2, <1>4, <2>1 DEF LinkOK, BridgeOK
<1> QED
  BY <1>3, <1>4 DEF BridgeCancel, r

LEMMA AnswerQueryType ==
  ASSUME BridgeOK, AnswerQuery
  PROVE  callbacks' \in Seq(CallbackRecords) /\ missed' \in BOOLEAN
BY CallBackType, SnapshotsType DEF AnswerQuery, BridgeOK, CallbackRecords

LEMMA BridgeQueryType ==
  ASSUME LinkOK, BridgeOK, BridgeQuery \/ BridgeQueryFails
  PROVE  LinkOK' /\ BridgeOK'
<1>1. callbacks' \in Seq(CallbackRecords) /\ missed' \in BOOLEAN
  BY AnswerQueryType DEF BridgeQuery, BridgeQueryFails, BridgeOK, CallbackRecords
<1>2. toBridge' \in Seq(Commands)
  BY ReadingType DEF BridgeQuery, BridgeQueryFails
<1> QED
  BY <1>1, <1>2 DEF BridgeQuery, BridgeQueryFails, LinkOK, BridgeOK, CallbackRecords

LEMMA ResyncType ==
  ASSUME LinkOK, BridgeOK, Resync \/ ResyncFails
  PROVE  LinkOK' /\ BridgeOK'
<1>1. callbacks' \in Seq(CallbackRecords) /\ missed' \in BOOLEAN
  BY AnswerQueryType DEF Resync, ResyncFails, BridgeOK, CallbackRecords
<1>2. ASSUME Publish(<<>>) PROVE fromBridge' \in Seq(Messages)
  BY <1>2, EmptySeq, ConcatType DEF Publish, LinkOK
<1>3. ASSUME NEW b \in BOOLEAN, Publish(<<LoginLine(b)>>) PROVE fromBridge' \in Seq(Messages)
  BY <1>3, PublishType, MessageTypes DEF LinkOK
<1>4. fromBridge' \in Seq(Messages)
  <2>1. CASE Resync
    BY <1>2, <1>3, <2>1 DEF Resync
  <2>2. CASE ResyncFails
    BY <1>3, <2>2 DEF ResyncFails, LinkOK
  <2> QED
    BY <2>1, <2>2
<1> QED
  BY <1>1, <1>4 DEF Resync, ResyncFails, LinkOK, BridgeOK, CallbackRecords

LEMMA BridgeCallbackType ==
  ASSUME LinkOK, BridgeOK, BridgeCallback
  PROVE  LinkOK' /\ BridgeOK'
<1> DEFINE c == Head(callbacks)
           t == ContextToken(c)
<1>1. c \in CallbackRecords /\ callbacks' \in Seq(CallbackRecords)
  BY TailType DEF BridgeCallback, BridgeOK, CallbackRecords
<1>2. c.ref \in Refs /\ c.status \in Statuses
  BY <1>1 DEF CallbackRecords
<1>3. t \in Tokens \cup {NoToken}
  BY <1>2 DEF ContextToken, BridgeOK, Contexts
<1>4. /\ Bind(c.ref, t) /\ Publish(<<StatusLine(t, c.ref, c.status)>>)
      /\ UNCHANGED <<socket, toBridge, intents, remembered, command, resync, session, counter,
                     missed>>
  BY DEF BridgeCallback
<1> HIDE DEF t, c
<1>5. fromBridge' \in Seq(Messages)
  BY <1>2, <1>3, <1>4, PublishType, MessageTypes DEF LinkOK
<1>6. refContext' \in Contexts /\ journal' \in [tokens: SUBSET Tokens, refs: Contexts]
  BY <1>2, <1>3, <1>4 DEF Bind, BridgeOK, Contexts
<1> QED
  BY <1>1, <1>4, <1>5, <1>6 DEF LinkOK, BridgeOK, CallbackRecords

LEMMA SessionType ==
  ASSUME LinkOK, BridgeOK, SessionCloses \/ SessionRecovers
  PROVE  LinkOK' /\ BridgeOK'
<1>1. fromBridge' \in Seq(Messages)
  BY PublishType, MessageTypes DEF SessionCloses, SessionRecovers, LinkOK
<1>2. callbacks' = <<>> \/ callbacks' = callbacks
  BY DEF SessionCloses, SessionRecovers
<1>3. <<>> \in Seq(CallbackRecords) /\ callbacks \in Seq(CallbackRecords)
  BY EmptySeq DEF BridgeOK, CallbackRecords
<1>4. callbacks' \in Seq(CallbackRecords)
  BY <1>2, <1>3
<1> QED
  <2>1. /\ session' \in BOOLEAN /\ resync' \in {TRUE, resync}
        /\ UNCHANGED <<socket, toBridge, journal, intents, refContext, remembered, command, counter,
                       missed>>
    BY DEF SessionCloses, SessionRecovers
  <2>2. LinkOK'
    BY <1>1, <2>1 DEF LinkOK
  <2>3. BridgeOK'
    BY <1>4, <2>1 DEF BridgeOK, CallbackRecords
  <2> QED
    BY <2>2, <2>3

LEMMA BridgeRestartType ==
  ASSUME LinkOK, BridgeOK, BridgeRestart
  PROVE  LinkOK' /\ BridgeOK'
<1>1. fromBridge' \in Seq(Messages)
  BY PrefixType DEF BridgeRestart, LinkOK
<1>2. intents' \subseteq Tokens /\ refContext' \in Contexts
  BY DEF BridgeRestart, BridgeOK
<1>3. LinkOK'
  BY <1>1 DEF BridgeRestart, LinkOK
<1>4. /\ remembered' = NoneRemembered /\ command' = NoCommand /\ resync' = FALSE
      /\ session' = TRUE /\ callbacks' = <<>> /\ UNCHANGED <<journal, counter, missed>>
  BY DEF BridgeRestart
<1>5. callbacks' \in Seq(CallbackRecords)
  BY <1>4, EmptySeq
<1>6. BridgeOK'
  BY <1>2, <1>4, <1>5 DEF BridgeOK, CallbackRecords, NoneRemembered
<1> QED
  BY <1>3, <1>6

LEMMA CounterMovesType ==
  ASSUME BridgeOK, NEW r \in Refs, CounterMoves(r)
  PROVE  BridgeOK'
<1>1. PICK s \in Statuses : counter' = [counter EXCEPT ![r].status = s]
                            /\ CallBack(<<Callback(r, counter[r].seq, s)>>)
  BY DEF CounterMoves
<1>2. counter[r] \in Orders
  BY DEF CounterMoves, BridgeOK, NoOrder
<1>3. counter[r].seq \in Numbers \cup {0}
  BY <1>2 DEF Orders
<1>4. callbacks' \in Seq(CallbackRecords)
  BY <1>1, <1>3, CallBackType, CallbackType DEF BridgeOK, CallbackRecords
<1>5. [counter[r] EXCEPT !.status = s] \in Orders
  BY <1>2 DEF Orders
<1>6. counter' \in [Refs -> Orders \cup {NoOrder}]
  BY <1>1, <1>5 DEF BridgeOK
<1> QED
  BY <1>4, <1>6 DEF CounterMoves, BridgeOK, CallbackRecords

LEMMA BridgeStepType ==
  ASSUME LinkOK, BridgeOK, BridgeStep
  PROVE  LinkOK' /\ BridgeOK'
BY BridgeOrderType, BridgeSendType, BridgeCancelType, BridgeQueryType, BridgeCallbackType,
   ResyncType DEF BridgeStep

-----------------------------------------------------------------------------
(* Types of the loop.                                                      *)

RiskOK ==
  /\ toRisk \in Seq(RiskInputs) /\ fromRisk \in Seq(RiskOutputs)
  /\ joined \in BOOLEAN /\ held \subseteq Tokens /\ passed \subseteq Tokens
ShownOK == shown \in [Refs -> KnownOrders \cup {Unknown}]
TypeInv == LinkOK /\ GatewayInv /\ BridgeOK /\ RiskOK /\ ShownOK

LEMMA UnchangedTypes ==
  /\ LinkOK /\ UNCHANGED linkVars => LinkOK'
  /\ GatewayInv /\ UNCHANGED gatewayVars => GatewayInv'
  /\ BridgeOK /\ UNCHANGED bridgeVars => BridgeOK'
  /\ RiskOK /\ UNCHANGED riskVars => RiskOK'
  /\ ShownOK /\ UNCHANGED shown => ShownOK'
<1>1. LinkOK /\ UNCHANGED linkVars => LinkOK'
  BY DEF LinkOK, linkVars
<1>2. GatewayInv /\ UNCHANGED gatewayVars => GatewayInv'
  BY DEF GatewayInv, GatewayOK, MarkOK, gatewayVars
<1>3. BridgeOK /\ UNCHANGED bridgeVars => BridgeOK'
  BY DEF BridgeOK, bridgeVars
<1>4. RiskOK /\ UNCHANGED riskVars => RiskOK'
  BY DEF RiskOK, riskVars
<1>5. ShownOK /\ UNCHANGED shown => ShownOK'
  BY DEF ShownOK
<1> QED
  BY <1>1, <1>2, <1>3, <1>4, <1>5

LEMMA AnswerType ==
  ASSUME fromRisk \in Seq(RiskOutputs), NEW m \in RiskOutputs, Answer(m)
  PROVE  fromRisk' \in Seq(RiskOutputs)
BY AppendType DEF Answer

LEMMA RiskHandlesMessageType ==
  ASSUME RiskOK, RiskHandlesMessage
  PROVE  RiskOK'
<1> DEFINE m == Head(toRisk)
<1>1. m \in RiskInputs /\ toRisk' \in Seq(RiskInputs) /\ UNCHANGED joined
  BY TailType DEF RiskHandlesMessage, RiskOK
<1>2. ASSUME NEW t \in Tokens, RiskOrder(t)
      PROVE  RiskOK'
  <2>1. fromRisk' \in Seq(RiskOutputs)
    BY <1>2, AnswerType, RiskTypes DEF RiskOrder, RiskOK
  <2> QED
    BY <1>1, <1>2, <2>1 DEF RiskOrder, RiskOK
<1>3. ASSUME NEW r \in Refs, RiskCancel(r)
      PROVE  RiskOK'
  <2>1. fromRisk' \in Seq(RiskOutputs)
    BY <1>3, AnswerType, RiskTypes DEF RiskCancel, RiskOK
  <2> QED
    BY <1>1, <1>3, <2>1 DEF RiskCancel, RiskOK
<1>4. ASSUME NEW x \in OrderReports, RiskStatus(x)
      PROVE  RiskOK'
  BY <1>1, <1>4 DEF RiskStatus, RiskOK
<1> QED
  BY <1>1, <1>2, <1>3, <1>4, RiskTypes DEF RiskHandlesMessage

LEMMA HandleOrderRequestType ==
  ASSUME TypeInv, NEW t \in Tokens, HandleOrderRequest(t)
  PROVE  TypeInv'
<1>1. BridgeOK' /\ ShownOK'
  BY UnchangedTypes DEF HandleOrderRequest, TypeInv
<1>2. CASE toRisk' = Append(toRisk, OrderCheck(t)) /\ UNCHANGED <<linkVars, gatewayVars>>
  <2>1. toRisk' \in Seq(RiskInputs)
    BY <1>2, AppendType, RiskTypes DEF TypeInv, RiskOK
  <2>2. RiskOK'
    BY <2>1 DEF HandleOrderRequest, TypeInv, RiskOK
  <2> QED
    BY <1>1, <1>2, <2>2, UnchangedTypes DEF TypeInv
<1>3. CASE ReqInsertOrder(t) /\ UNCHANGED toRisk
  <2>1. RiskOK'
    BY <1>3 DEF HandleOrderRequest, TypeInv, RiskOK
  <2> QED
    BY <1>1, <1>3, <2>1, ReqInsertOrderType DEF TypeInv
<1> QED
  BY <1>2, <1>3 DEF HandleOrderRequest

LEMMA HandleActionRequestType ==
  ASSUME TypeInv, NEW r \in Refs, HandleActionRequest(r)
  PROVE  TypeInv'
<1>1. BridgeOK' /\ ShownOK'
  BY UnchangedTypes DEF HandleActionRequest, TypeInv
<1>2. CASE toRisk' = Append(toRisk, CancelCheck(r)) /\ UNCHANGED <<linkVars, gatewayVars>>
  <2>1. toRisk' \in Seq(RiskInputs)
    BY <1>2, AppendType, RiskTypes DEF TypeInv, RiskOK
  <2>2. RiskOK'
    BY <2>1 DEF HandleActionRequest, TypeInv, RiskOK
  <2> QED
    BY <1>1, <1>2, <2>2, UnchangedTypes DEF TypeInv
<1>3. CASE ReqCancelOrder(r) /\ UNCHANGED toRisk
  <2>1. RiskOK'
    BY <1>3 DEF HandleActionRequest, TypeInv, RiskOK
  <2> QED
    BY <1>1, <1>3, <2>1, ReqCancelOrderType DEF TypeInv
<1> QED
  BY <1>2, <1>3 DEF HandleActionRequest

LEMMA HandleRiskResponseType ==
  ASSUME TypeInv, HandleRiskResponse
  PROVE  TypeInv'
<1>1. Head(fromRisk) \in RiskOutputs /\ fromRisk' \in Seq(RiskOutputs)
  BY TailType DEF HandleRiskResponse, TypeInv, RiskOK
<1>2. RiskOK'
  BY <1>1 DEF HandleRiskResponse, TypeInv, RiskOK
<1>3. LinkOK' /\ GatewayInv'
  BY <1>1, SendRequestType DEF HandleRiskResponse, TypeInv
<1> QED
  BY <1>2, <1>3, UnchangedTypes DEF HandleRiskResponse, TypeInv

LEMMA HandleExecuteReportType ==
  ASSUME TypeInv, HandleExecuteReport
  PROVE  TypeInv'
<1> DEFINE m == Head(reports)
<1>1. m \in OrderReports /\ reports' \in Seq(OrderReports)
  BY TailType DEF HandleExecuteReport, TypeInv, GatewayInv, GatewayOK
<1>2. toRisk' \in Seq(RiskInputs)
  BY <1>1, AppendType, RiskTypes DEF HandleExecuteReport, TypeInv, RiskOK
<1>3. RiskOK'
  BY <1>2 DEF HandleExecuteReport, TypeInv, RiskOK
<1>4. Known(m.token, m.status) \in KnownOrders
  BY <1>1, ReportTypes, KnownTypes
<1>5. shown' = IF m.ref = NoRef THEN shown ELSE [shown EXCEPT ![m.ref] = Known(m.token, m.status)]
  BY DEF HandleExecuteReport
<1> HIDE DEF m
<1>6. ShownOK'
  BY <1>4, <1>5 DEF TypeInv, ShownOK
<1>7. GatewayInv'
  BY <1>1 DEF HandleExecuteReport, TypeInv, GatewayInv, GatewayOK, MarkOK
<1> QED
  BY <1>3, <1>6, <1>7, UnchangedTypes DEF HandleExecuteReport, TypeInv

LEMMA TraderRestartsType ==
  ASSUME TypeInv, TraderRestarts
  PROVE  TypeInv'
<1>1. LinkOK' /\ GatewayInv'
  BY GatewayRestartType DEF TraderRestarts, TypeInv
<1>2. RiskOK'
  BY PrefixType, SuffixType DEF TraderRestarts, TypeInv, RiskOK
<1> QED
  BY <1>1, <1>2, UnchangedTypes DEF TraderRestarts, TypeInv

LEMMA RiskFaultType ==
  ASSUME TypeInv, RiskFault
  PROVE  TypeInv'
<1>1. RiskOK'
  BY PrefixType, SuffixType DEF RiskFault, TypeInv, RiskOK
<1> QED
  BY <1>1, UnchangedTypes DEF RiskFault, TypeInv

LEMMA TypeInit == Init => TypeInv
<1> SUFFICES ASSUME Init PROVE TypeInv
  OBVIOUS
<1>1. LinkOK
  BY EmptySeq DEF Init, LinkInit, LinkOK
<1>2. thread \in [Threads -> ThreadStates] /\ thread["work"].pc # "mark"
  BY ThreadTypes, ThreadNames DEF Init, GatewayInit, Idle
<1>3. GatewayInv
  BY <1>2, EmptySeq DEF Init, GatewayInit, GatewayInv, GatewayOK, MarkOK
<1>4. callbacks \in Seq(CallbackRecords)
  BY EmptySeq DEF Init, BridgeInit
<1>5. journal \in [tokens: SUBSET Tokens, refs: Contexts] /\ refContext \in Contexts
  BY DEF Init, BridgeInit, NoContexts, Contexts
<1>6. BridgeOK
  BY <1>4, <1>5 DEF Init, BridgeInit, BridgeOK, CallbackRecords, NoneRemembered
<1>7. RiskOK /\ ShownOK
  BY EmptySeq DEF Init, RiskOK, ShownOK
<1> QED
  BY <1>1, <1>3, <1>6, <1>7 DEF TypeInv

LEMMA TypeStep ==
  ASSUME TypeInv, [Next]_vars
  PROVE  TypeInv'
<1>1. ASSUME NEW t \in Tokens, HandleOrderRequest(t) PROVE TypeInv'
  BY <1>1, HandleOrderRequestType
<1>2. ASSUME NEW r \in Refs, HandleActionRequest(r) PROVE TypeInv'
  BY <1>2, HandleActionRequestType
<1>3. CASE HandleRiskResponse
  BY <1>3, HandleRiskResponseType
<1>4. CASE HandleExecuteReport
  BY <1>4, HandleExecuteReportType
<1>5. CASE RiskHandlesMessage
  BY <1>5, RiskHandlesMessageType, UnchangedTypes DEF RiskHandlesMessage, TypeInv
<1>6. CASE GatewayStep
  BY <1>6, GatewayStepType, UnchangedTypes DEF GatewayStep, TypeInv
<1>7. CASE GatewayConnects
  BY <1>7, ConnectType, UnchangedTypes DEF GatewayConnects, TypeInv
<1>8. CASE BridgeStep
  BY <1>8, BridgeStepType, UnchangedTypes DEF BridgeStep, TypeInv
<1>9. CASE CounterStep
  BY <1>9, CounterMovesType, UnchangedTypes DEF CounterStep, CounterMoves, TypeInv
<1>10. CASE SessionReturns
  BY <1>10, SessionType, UnchangedTypes DEF SessionReturns, TypeInv
<1>11. CASE LinkFault
  BY <1>11, LinkBreaksType, UnchangedTypes DEF LinkFault, TypeInv
<1>12. CASE SessionFault
  BY <1>12, SessionType, UnchangedTypes DEF SessionFault, TypeInv
<1>13. CASE BridgeFault
  BY <1>13, BridgeRestartType, UnchangedTypes DEF BridgeFault, TypeInv
<1>14. CASE TraderRestarts
  BY <1>14, TraderRestartsType
<1>15. CASE RiskFault
  BY <1>15, RiskFaultType
<1>16. CASE QueryFault
  BY <1>16, BridgeQueryType, ResyncType, UnchangedTypes DEF QueryFault, TypeInv
<1>17. CASE UNCHANGED vars
  BY <1>17, UnchangedTypes DEF vars, TypeInv
<1> QED
  BY <1>1, <1>2, <1>3, <1>4, <1>5, <1>6, <1>7, <1>8, <1>9, <1>10, <1>11, <1>12, <1>13, <1>14,
     <1>15, <1>16, <1>17 DEF Next

\* Every variable keeps its type, whatever fails and restarts.
THEOREM TypeCorrect == Spec => []TypeOK
<1>1. TypeInv => TypeOK
  BY DEF TypeInv, GatewayInv, RiskOK, ShownOK, TypeOK
<1> QED
  BY <1>1, TypeInit, TypeStep, PTL DEF Spec

-----------------------------------------------------------------------------
(* A token becomes at most one order of the counter.                       *)
(*                                                                         *)
(* The argument is the journal's: a token is on disk before the bridge     *)
(* sends it, a token the bridge knows is refused, and what the bridge      *)
(* knows is what is on disk, also after a restart.                         *)

Unsent(t) == \A r \in Refs : counter[r].used => counter[r].token # t

OnceInv ==
  /\ intents = journal.tokens
  /\ command.pc = "send" => command.token \in journal.tokens /\ Unsent(command.token)
  /\ \A r \in Refs : counter[r].used => counter[r].token \in journal.tokens
  /\ OnceAtCounter

\* Reservations, orders in flight and orders of the counter change in four
\* steps of the bridge and two of the counter.
JournalStep ==
  \/ \E t \in Tokens : /\ Reading("order") /\ t = Head(toBridge).token /\ t \notin intents
                       /\ Reserve(t) /\ command' = Sending(t) /\ UNCHANGED counter
  \/ BridgeSend
  \/ \E r \in Refs : /\ counter' \in [Refs -> Orders \cup {NoOrder}]
                     /\ counter'[r].used = counter[r].used /\ counter'[r].token = counter[r].token
                     /\ \A q \in Refs \ {r} : counter'[q] = counter[q]
                     /\ UNCHANGED <<journal, intents, command>>
  \/ intents' = journal.tokens /\ command' = NoCommand /\ UNCHANGED <<journal, counter>>
  \/ journal'.tokens = journal.tokens /\ UNCHANGED <<intents, command, counter>>

LEMMA JournalCases ==
  ASSUME TypeInv, [Next]_vars
  PROVE  JournalStep
<1>1. ASSUME UNCHANGED bridgeVars PROVE JournalStep
  BY <1>1 DEF bridgeVars, JournalStep
<1>2. CASE BridgeOrder
  <2>1. Head(toBridge).token \in Tokens
    BY <1>2, ReadingType, CommandTypes DEF BridgeOrder, TypeInv
  <2> QED
    BY <1>1, <1>2, <2>1 DEF BridgeOrder, JournalStep
<1>3. CASE BridgeSend
  BY <1>3 DEF JournalStep
<1>4. CASE BridgeCancel
  <2>1. Head(toBridge).ref \in Refs
    BY <1>4, ReadingType, CommandTypes DEF BridgeCancel, TypeInv
  <2>2. BridgeOK'
    BY <1>4, BridgeCancelType DEF TypeInv
  <2>3. CASE UNCHANGED counter
    BY <1>4, <2>3 DEF BridgeCancel, JournalStep
  <2>4. CASE Live(Head(toBridge).ref)
             /\ counter' = [counter EXCEPT ![Head(toBridge).ref].cancelling = TRUE]
    <3>1. counter[Head(toBridge).ref] \in Orders
      BY <2>1, <2>4 DEF TypeInv, BridgeOK, Live, NoOrder
    <3>2. [counter[Head(toBridge).ref] EXCEPT !.cancelling = TRUE].used = TRUE
          /\ [counter[Head(toBridge).ref] EXCEPT !.cancelling = TRUE].token
               = counter[Head(toBridge).ref].token
      BY <3>1 DEF Orders
    <3> QED
      BY <1>4, <2>1, <2>2, <2>4, <3>1, <3>2 DEF BridgeCancel, JournalStep, BridgeOK, TypeInv, Orders
  <2> QED
    BY <1>4, <2>3, <2>4 DEF BridgeCancel
<1>5. CASE BridgeQuery \/ BridgeQueryFails \/ BridgeCallback \/ Resync \/ ResyncFails
  BY <1>5 DEF BridgeQuery, BridgeQueryFails, BridgeCallback, Resync, ResyncFails, Bind, TypeInv,
     BridgeOK, JournalStep
<1>6. CASE BridgeStep \/ QueryFault
  BY <1>2, <1>3, <1>4, <1>5, <1>6 DEF BridgeStep, QueryFault
<1>7. ASSUME NEW r \in Refs, CounterMoves(r) PROVE JournalStep
  <2>1. BridgeOK'
    BY <1>7, CounterMovesType DEF TypeInv
  <2>2. PICK s \in Statuses : counter' = [counter EXCEPT ![r].status = s]
    BY <1>7 DEF CounterMoves
  <2>3. counter[r] \in Orders
    BY <1>7 DEF CounterMoves, TypeInv, BridgeOK, NoOrder
  <2>4. [counter[r] EXCEPT !.status = s].used = TRUE
        /\ [counter[r] EXCEPT !.status = s].token = counter[r].token
    BY <2>3 DEF Orders
  <2> QED
    BY <1>7, <2>1, <2>2, <2>3, <2>4 DEF CounterMoves, JournalStep, BridgeOK, TypeInv, Orders
<1>8. CASE CounterStep
  BY <1>7, <1>8 DEF CounterStep
<1>9. CASE SessionReturns \/ SessionFault
  BY <1>9 DEF SessionReturns, SessionFault, SessionRecovers, SessionCloses, JournalStep
<1>10. CASE BridgeFault
  BY <1>10 DEF BridgeFault, BridgeRestart, JournalStep
<1>11. CASE \/ \E t \in Tokens : HandleOrderRequest(t)
            \/ \E r \in Refs : HandleActionRequest(r)
            \/ HandleRiskResponse \/ HandleExecuteReport \/ RiskHandlesMessage
            \/ GatewayStep \/ GatewayConnects \/ LinkFault \/ TraderRestarts \/ RiskFault
            \/ UNCHANGED vars
  <2>1. UNCHANGED bridgeVars
    BY <1>11 DEF HandleOrderRequest, HandleActionRequest, HandleRiskResponse, HandleExecuteReport,
       RiskHandlesMessage, GatewayStep, GatewayConnects, LinkFault, TraderRestarts, RiskFault, vars
  <2> QED
    BY <1>1, <2>1
<1> QED
  BY <1>6, <1>8, <1>9, <1>10, <1>11 DEF Next

LEMMA OnceInit == Init => OnceInv
BY DEF Init, BridgeInit, OnceInv, OnceAtCounter, NoCommand, NoOrder

LEMMA OnceStep ==
  ASSUME TypeInv, OnceInv, [Next]_vars
  PROVE  OnceInv'
<1>1. ASSUME NEW t \in Tokens, t \notin intents, Reserve(t), command' = Sending(t),
             UNCHANGED counter
      PROVE  OnceInv'
  <2>1. journal' = [journal EXCEPT !.tokens = @ \cup {t}] /\ intents' = intents \cup {t}
    BY <1>1 DEF Reserve
  <2>2. journal'.tokens = journal.tokens \cup {t}
    BY <2>1 DEF TypeInv, BridgeOK
  <2>3. Unsent(t)
    BY <1>1 DEF OnceInv, Unsent
  <2>4. command'.token = t /\ Unsent(t)'
    BY <1>1, <2>3 DEF Sending, Unsent
  <2> QED
    BY <1>1, <2>1, <2>2, <2>4 DEF OnceInv, OnceAtCounter
<1>2. CASE BridgeSend
  <2> DEFINE t == command.token
  <2>1. t \in journal.tokens /\ Unsent(t)
    BY <1>2 DEF BridgeSend, OnceInv
  <2>2. command' = NoCommand /\ UNCHANGED <<journal, intents>>
    BY <1>2 DEF BridgeSend
  <2>3. CASE UNCHANGED counter
    BY <2>2, <2>3 DEF OnceInv, OnceAtCounter, NoCommand
  <2>4. ASSUME NEW r \in Refs, ~counter[r].used,
               NEW n \in Numbers, counter' = [counter EXCEPT ![r] = Order(t, n, "EEXCHANGE_ACK")]
        PROVE  OnceInv'
    <3> HIDE DEF t
    <3>1. /\ counter'[r].used /\ counter'[r].token = t
          /\ \A q \in Refs \ {r} : counter'[q] = counter[q]
      BY <2>4 DEF TypeInv, BridgeOK, Order
    <3>2. \A q \in Refs : counter'[q].used => counter'[q].token \in journal'.tokens
      BY <2>1, <2>2, <3>1 DEF OnceInv
    <3>3. OnceAtCounter'
      BY <2>1, <3>1 DEF OnceInv, OnceAtCounter, Unsent
    <3>4. command'.pc # "send"
      BY <2>2 DEF NoCommand
    <3> QED
      BY <2>2, <3>2, <3>3, <3>4 DEF OnceInv
  <2> QED
    BY <1>2, <2>3, <2>4 DEF BridgeSend
<1>3. ASSUME NEW r \in Refs,
             counter'[r].used = counter[r].used, counter'[r].token = counter[r].token,
             \A q \in Refs \ {r} : counter'[q] = counter[q],
             UNCHANGED <<journal, intents, command>>
      PROVE  OnceInv'
  <2>1. \A q \in Refs : counter'[q].used = counter[q].used /\ counter'[q].token = counter[q].token
    BY <1>3
  <2> QED
    BY <1>3, <2>1 DEF OnceInv, OnceAtCounter, Unsent
<1>4. CASE intents' = journal.tokens /\ command' = NoCommand /\ UNCHANGED <<journal, counter>>
  BY <1>4 DEF OnceInv, OnceAtCounter, NoCommand
<1>5. CASE journal'.tokens = journal.tokens /\ UNCHANGED <<intents, command, counter>>
  BY <1>5 DEF OnceInv, OnceAtCounter, Unsent
<1> QED
  BY <1>1, <1>2, <1>3, <1>4, <1>5, JournalCases DEF JournalStep

\* A token becomes at most one order of the counter, whatever clients repeat
\* and whichever process restarts at whichever step.
THEOREM TokenOnceAtCounter == Spec => []OnceAtCounter
<1>1. OnceInv => OnceAtCounter
  BY DEF OnceInv
<1> QED
  BY <1>1, TypeInit, TypeStep, OnceInit, OnceStep, PTL DEF Spec

-----------------------------------------------------------------------------
(* Only checked orders reach the counter.                                  *)
(*                                                                         *)
(* At every place between the risk check and the counter there are only    *)
(* orders of permitted tokens: in the replies of the risk engine, on the   *)
(* connection, in the command thread of the bridge.                        *)

Permitted         == passed \cup Unchecked
PermittedCommands == {m \in Commands : m.type = "order" => m.token \in Permitted}
PermittedReplies  == {m \in RiskOutputs : m.type = "order" /\ m.pass => m.token \in Permitted}

SentPermitted ==
  /\ command.pc = "send" => command.token \in Permitted
  /\ \A r \in Refs : counter[r].used => counter[r].token \in Permitted

CheckedInv ==
  /\ toBridge \in Seq(PermittedCommands)
  /\ fromRisk \in Seq(PermittedReplies)
  /\ SentPermitted

LEMMA PermittedLines ==
  /\ \A t \in Tokens : t \in Permitted => OrderLine(t) \in PermittedCommands
  /\ \A r \in Refs : CancelLine(r) \in PermittedCommands
  /\ QueryLine \in PermittedCommands
<1>1. \A t \in Tokens : OrderLine(t).token = t
  BY DEF OrderLine
<1>2. (\A r \in Refs : CancelLine(r).type # "order") /\ QueryLine.type # "order"
  BY DEF CancelLine, QueryLine
<1> QED
  BY <1>1, <1>2, CommandTypes DEF PermittedCommands

LEMMA PermittedSend ==
  ASSUME toBridge \in Seq(PermittedCommands), NEW m \in PermittedCommands, SendLine(m)
  PROVE  toBridge' \in Seq(PermittedCommands)
BY AppendType DEF SendLine

LEMMA PermittedInsert ==
  ASSUME toBridge \in Seq(PermittedCommands), NEW t \in Tokens, t \in Permitted, ReqInsertOrder(t)
  PROVE  toBridge' \in Seq(PermittedCommands)
<1>1. CASE UNCHANGED toBridge
  BY <1>1
<1>2. CASE SendLine(OrderLine(t))
  BY <1>2, PermittedLines, PermittedSend
<1> QED
  BY <1>1, <1>2 DEF ReqInsertOrder, PublishRejected, linkVars

LEMMA PermittedCancel ==
  ASSUME toBridge \in Seq(PermittedCommands), NEW r \in Refs, ReqCancelOrder(r)
  PROVE  toBridge' \in Seq(PermittedCommands)
<1>1. CASE UNCHANGED toBridge
  BY <1>1
<1>2. CASE SendLine(CancelLine(r))
  BY <1>2, PermittedLines, PermittedSend
<1> QED
  BY <1>1, <1>2 DEF ReqCancelOrder, linkVars

\* The gateway writes orders only for replies that pass and for tokens that
\* ask for no check.
LEMMA LinesPermitted ==
  ASSUME TypeInv, CheckedInv, [Next]_vars
  PROVE  toBridge' \in Seq(PermittedCommands)
<1>1. toBridge \in Seq(PermittedCommands)
  BY DEF CheckedInv
<1>2. /\ \A t \in Tokens : HandleOrderRequest(t) => toBridge' \in Seq(PermittedCommands)
      /\ \A r \in Refs : HandleActionRequest(r) => toBridge' \in Seq(PermittedCommands)
  <2>1. ASSUME NEW t \in Tokens, HandleOrderRequest(t)
        PROVE  toBridge' \in Seq(PermittedCommands)
    BY <1>1, <2>1, PermittedInsert DEF HandleOrderRequest, Permitted, linkVars
  <2>2. ASSUME NEW r \in Refs, HandleActionRequest(r)
        PROVE  toBridge' \in Seq(PermittedCommands)
    BY <1>1, <2>2, PermittedCancel DEF HandleActionRequest, linkVars
  <2> QED
    BY <2>1, <2>2
<1>3. CASE HandleRiskResponse
  <2> DEFINE m == Head(fromRisk)
  <2>1. m \in PermittedReplies /\ m \in RiskOutputs /\ SendRequest(m)
    BY <1>3, TailType DEF HandleRiskResponse, CheckedInv, TypeInv, RiskOK
  <2> HIDE DEF m
  <2>2. CASE m.type = "order" /\ m.pass /\ ReqInsertOrder(m.token)
    <3>1. m.token \in Tokens /\ m.token \in Permitted
      BY <2>1, <2>2, RiskTypes DEF PermittedReplies
    <3> QED
      BY <1>1, <2>2, <3>1, PermittedInsert
  <2>3. CASE m.type = "cancel" /\ ReqCancelOrder(m.ref)
    BY <1>1, <2>1, <2>3, PermittedCancel, RiskTypes
  <2>4. CASE PublishRejected(m.token) \/ ReqCancelOrderRejected(m.ref)
    BY <1>1, <2>4 DEF PublishRejected, ReqCancelOrderRejected, linkVars
  <2> QED
    BY <2>1, <2>2, <2>3, <2>4 DEF SendRequest
<1>4. CASE GatewayStep
  <2>1. CASE HandleMessage
    <3>1. CASE UNCHANGED toBridge
      BY <1>1, <3>1
    <3>2. CASE SendLine(QueryLine)
      BY <1>1, <3>2, PermittedLines, PermittedSend
    <3> QED
      BY <2>1, <3>1, <3>2 DEF HandleMessage, HandleLogin, HandleOrderStatus
  <2>2. ASSUME NEW th \in Threads, StoreOrder(th) \/ PublishOrder(th)
        PROVE  toBridge' \in Seq(PermittedCommands)
    BY <1>1, <2>2 DEF StoreOrder, PublishOrder, linkVars
  <2>3. CASE MarkCancelling \/ Disconnect
    BY <1>1, <2>3 DEF MarkCancelling, Disconnect, linkVars
  <2> QED
    BY <1>4, <2>1, <2>2, <2>3 DEF GatewayStep
<1>5. CASE BridgeStep \/ QueryFault
  <2>1. ASSUME NEW type, Reading(type)
        PROVE  toBridge' \in Seq(PermittedCommands)
    BY <1>1, <2>1, TailType DEF Reading
  <2>2. CASE BridgeOrder \/ BridgeCancel \/ BridgeQuery \/ BridgeQueryFails
    BY <2>1, <2>2 DEF BridgeOrder, BridgeCancel, BridgeQuery, BridgeQueryFails
  <2>3. CASE BridgeSend \/ BridgeCallback \/ Resync \/ ResyncFails
    BY <1>1, <2>3 DEF BridgeSend, BridgeCallback, Resync, ResyncFails
  <2> QED
    BY <1>5, <2>2, <2>3 DEF BridgeStep, QueryFault
<1>6. CASE TraderRestarts \/ LinkFault
  BY <1>1, <1>6, PrefixType DEF TraderRestarts, GatewayRestart, LinkFault, LinkBreaks
<1>7. CASE BridgeFault
  BY <1>7, EmptySeq DEF BridgeFault, BridgeRestart
<1>8. CASE \/ HandleExecuteReport \/ RiskHandlesMessage \/ GatewayConnects
           \/ CounterStep \/ SessionReturns \/ SessionFault \/ RiskFault \/ UNCHANGED vars
  BY <1>1, <1>8 DEF HandleExecuteReport, RiskHandlesMessage, GatewayConnects,
     Connect, CounterStep, CounterMoves, SessionReturns, SessionRecovers, SessionFault,
     SessionCloses, RiskFault, vars, linkVars
<1> QED
  BY <1>2, <1>3, <1>4, <1>5, <1>6, <1>7, <1>8 DEF Next

\* A token once passed stays passed.
LEMMA PermittedGrows ==
  ASSUME [Next]_vars
  PROVE  /\ Permitted \subseteq Permitted'
         /\ PermittedCommands \subseteq PermittedCommands'
         /\ PermittedReplies \subseteq PermittedReplies'
<1>1. passed \subseteq passed'
  <2>1. CASE RiskHandlesMessage
    BY <2>1 DEF RiskHandlesMessage, RiskOrder, RiskCancel, RiskStatus
  <2>2. CASE UNCHANGED passed
    BY <2>2
  <2> QED
    BY <2>1, <2>2 DEF Next, HandleOrderRequest, HandleActionRequest, HandleRiskResponse,
       HandleExecuteReport, GatewayStep, GatewayConnects, BridgeStep, CounterStep, SessionReturns,
       LinkFault, SessionFault, QueryFault, BridgeFault, TraderRestarts, RiskFault, vars, riskVars
<1> QED
  BY <1>1 DEF Permitted, PermittedCommands, PermittedReplies

\* A reply that passes is sent for a token that passed.
LEMMA RepliesPermitted ==
  ASSUME TypeInv, CheckedInv, [Next]_vars
  PROVE  fromRisk' \in Seq(PermittedReplies')
<1>1. fromRisk \in Seq(PermittedReplies) /\ fromRisk \in Seq(PermittedReplies')
  BY PermittedGrows, SeqMonotonic DEF CheckedInv
<1>2. CASE UNCHANGED fromRisk
  BY <1>1, <1>2
<1>3. CASE RiskHandlesMessage
  <2> DEFINE m == Head(toRisk)
  <2>1. m \in RiskInputs
    BY <1>3, TailType DEF RiskHandlesMessage, TypeInv, RiskOK
  <2>2. ASSUME NEW x \in PermittedReplies', Answer(x)
        PROVE  fromRisk' \in Seq(PermittedReplies')
    BY <1>1, <2>2, AppendType DEF Answer
  <2>3. CASE m.type = "order" /\ RiskOrder(m.token)
    <3>1. m.token \in Tokens
      BY <2>1, <2>3, RiskTypes
    <3>2. OrderReply(m.token, FALSE) \in PermittedReplies'
      BY <3>1, RiskTypes DEF PermittedReplies, OrderReply
    <3>3. ASSUME passed' = passed \cup {m.token}
          PROVE  OrderReply(m.token, TRUE) \in PermittedReplies'
      BY <3>1, <3>3, RiskTypes DEF PermittedReplies, OrderReply, Permitted
    <3> QED
      BY <2>2, <2>3, <3>2, <3>3 DEF RiskOrder
  <2>4. CASE m.type = "cancel" /\ RiskCancel(m.ref)
    <3>1. \A b \in BOOLEAN : CancelReply(m.ref, b) \in PermittedReplies'
      BY <2>1, <2>4, RiskTypes DEF PermittedReplies, CancelReply
    <3> QED
      BY <2>2, <2>4, <3>1 DEF RiskCancel
  <2>5. CASE RiskStatus(m.report)
    BY <1>2, <2>5 DEF RiskStatus
  <2> QED
    BY <1>3, <2>3, <2>4, <2>5 DEF RiskHandlesMessage
<1>4. CASE HandleRiskResponse
  BY <1>1, <1>4, TailType DEF HandleRiskResponse
<1>5. CASE TraderRestarts \/ RiskFault
  BY <1>1, <1>5, PrefixType, SuffixType DEF TraderRestarts, RiskFault
<1> QED
  BY <1>2, <1>3, <1>4, <1>5 DEF Next, HandleOrderRequest, HandleActionRequest,
     HandleExecuteReport, GatewayStep, GatewayConnects, BridgeStep, CounterStep, SessionReturns,
     LinkFault, SessionFault, QueryFault, BridgeFault, vars, riskVars

LEMMA CheckedInit == Init => CheckedInv
BY EmptySeq DEF Init, LinkInit, BridgeInit, CheckedInv, SentPermitted, NoCommand, NoOrder

LEMMA CheckedStep ==
  ASSUME TypeInv, CheckedInv, [Next]_vars
  PROVE  CheckedInv'
<1>1. toBridge' \in Seq(PermittedCommands')
  BY LinesPermitted, PermittedGrows, SeqMonotonic
<1>2. fromRisk' \in Seq(PermittedReplies')
  BY RepliesPermitted
<1>3. (command.pc = "send" => command.token \in Permitted')
      /\ \A r \in Refs : counter[r].used => counter[r].token \in Permitted'
  BY PermittedGrows DEF CheckedInv, SentPermitted
<1>4. SentPermitted'
  <2>1. CASE UNCHANGED <<command, counter>>
    BY <1>3, <2>1 DEF SentPermitted
  <2>2. ASSUME UNCHANGED command, NEW r \in Refs,
               counter'[r].used = counter[r].used, counter'[r].token = counter[r].token,
               \A q \in Refs \ {r} : counter'[q] = counter[q]
        PROVE  SentPermitted'
    BY <1>3, <2>2 DEF SentPermitted
  <2>3. CASE command' = NoCommand /\ UNCHANGED counter
    BY <1>3, <2>3 DEF NoCommand, SentPermitted
  <2>4. CASE BridgeSend
    <3> DEFINE t == command.token
    <3>1. t \in Permitted'
      BY <1>3, <2>4 DEF BridgeSend
    <3>2. command' = NoCommand
      BY <2>4 DEF BridgeSend
    <3>3. ASSUME NEW r \in Refs, NEW n \in Numbers,
                 counter' = [counter EXCEPT ![r] = Order(t, n, "EEXCHANGE_ACK")]
          PROVE  SentPermitted'
      <4> HIDE DEF t
      <4>1. counter'[r].token = t /\ \A q \in Refs \ {r} : counter'[q] = counter[q]
        BY <3>3 DEF TypeInv, BridgeOK, Order
      <4> QED
        BY <1>3, <3>1, <3>2, <4>1 DEF NoCommand, SentPermitted
    <3> QED
      BY <2>3, <2>4, <3>2, <3>3 DEF BridgeSend
  <2>5. CASE Reading("order") /\ command' = Sending(Head(toBridge).token) /\ UNCHANGED counter
    <3>1. Head(toBridge) \in PermittedCommands /\ Head(toBridge).type = "order"
      BY <2>5, TailType DEF Reading, CheckedInv
    <3>2. Head(toBridge).token \in Permitted'
      BY <3>1, PermittedGrows DEF PermittedCommands
    <3> QED
      BY <1>3, <2>5, <3>2 DEF Sending, SentPermitted
  <2> QED
    BY <2>1, <2>2, <2>3, <2>4, <2>5, JournalCases DEF JournalStep
<1> QED
  BY <1>1, <1>2, <1>4 DEF CheckedInv

\* Only an order a risk check let pass, or one that asked for none, reaches
\* the counter, whatever fails and restarts.
THEOREM CheckedFirst == Spec => []CheckedBeforeCounter
<1>1. CheckedInv => CheckedBeforeCounter
  BY DEF CheckedInv, SentPermitted, Permitted, CheckedBeforeCounter
<1> QED
  BY <1>1, TypeInit, TypeStep, CheckedInit, CheckedStep, PTL DEF Spec

-----------------------------------------------------------------------------
(* Every order that is live or on its way has its reservation.             *)
(*                                                                         *)
(* The argument has two parts.  A token is at one place at a time: in a    *)
(* check, in its answer, on the connection, in the command thread or at    *)
(* the counter.  And while it is at one of them, nothing anywhere says     *)
(* that its order ended, so nothing frees it.  Both need that clients use  *)
(* a token once: a repeated token is rejected, and the rejection of the    *)
(* repetition frees the reservation of the order.  The second needs that   *)
(* no older order has the order's client_seq_id: the bridge takes the      *)
(* callback of an order for one of the token it remembers under the        *)
(* number, so what it remembers must name the right order.                 *)

Members(s) == {s[i] : i \in DOMAIN s}
Alone(X, s) == \A i, j \in DOMAIN s : s[i] \in X /\ s[j] \in X => i = j
\* The sequence s2 has no member of X that s has not, and no second one.
NoNew(X, s, s2) ==
  /\ \A m \in X : m \in Members(s2) => m \in Members(s)
  /\ Alone(X, s) => Alone(X, s2)

LEMMA AppendMembers ==
  ASSUME NEW S, NEW s \in Seq(S), NEW e \in S
  PROVE  /\ \A m : m \in Members(Append(s, e)) <=> m \in Members(s) \/ m = e
         /\ \A X : e \notin X => NoNew(X, s, Append(s, e))
         /\ \A X : (\A m \in X : m \notin Members(s)) => Alone(X, Append(s, e))
<1>1. /\ DOMAIN s = 1 .. Len(s) /\ Len(s) \in Nat
      /\ DOMAIN Append(s, e) = 1 .. Len(s) + 1
      /\ \A i \in 1 .. Len(s) : Append(s, e)[i] = s[i]
      /\ Append(s, e)[Len(s) + 1] = e
  BY AppendProperties
<1>2. \A i \in 1 .. Len(s) + 1 : i \in 1 .. Len(s) \/ i = Len(s) + 1
  BY <1>1
<1>3. \A i \in 1 .. Len(s) : i \in 1 .. Len(s) + 1
  BY <1>1
<1>4. Len(s) + 1 \in 1 .. Len(s) + 1
  BY <1>1
<1> DEFINE n == Len(s)
           u == Append(s, e)
           k == n + 1
<1>5. /\ DOMAIN s = 1 .. n /\ DOMAIN u = 1 .. k
      /\ \A i \in 1 .. n : u[i] = s[i]
      /\ u[k] = e
      /\ \A i \in 1 .. k : i \in 1 .. n \/ i = k
      /\ \A i \in 1 .. n : i \in 1 .. k
      /\ k \in 1 .. k
  BY <1>1, <1>2, <1>3, <1>4
<1> HIDE DEF n, u, k
<1>6. \A m : m \in Members(u) <=> m \in Members(s) \/ m = e
  BY ONLY <1>5 DEF Members
<1>7. ASSUME NEW X, e \notin X, Alone(X, s) PROVE Alone(X, u)
  BY ONLY <1>5, <1>7 DEF Alone
<1>8. \A X : e \notin X => NoNew(X, s, u)
  BY ONLY <1>6, <1>7 DEF NoNew
<1>9. ASSUME NEW X, \A m \in X : m \notin Members(s) PROVE Alone(X, u)
  BY ONLY <1>5, <1>9 DEF Alone, Members
<1> QED
  BY <1>6, <1>8, <1>9 DEF u

LEMMA ConcatMembers ==
  ASSUME NEW S, NEW s \in Seq(S), NEW u \in Seq(S)
  PROVE  \A m : m \in Members(s \o u) => m \in Members(s) \/ m \in Members(u)
<1> SUFFICES ASSUME NEW i \in DOMAIN (s \o u)
             PROVE  (s \o u)[i] \in Members(s) \/ (s \o u)[i] \in Members(u)
  BY DEF Members
<1>1. /\ DOMAIN s = 1 .. Len(s) /\ Len(s) \in Nat /\ DOMAIN u = 1 .. Len(u) /\ Len(u) \in Nat
      /\ i \in 1 .. Len(s) + Len(u)
      /\ (s \o u)[i] = IF i <= Len(s) THEN s[i] ELSE u[i - Len(s)]
  BY ConcatProperties, LenProperties
<1>2. CASE i <= Len(s)
  BY <1>1, <1>2 DEF Members
<1>3. CASE ~(i <= Len(s))
  <2>1. i - Len(s) \in DOMAIN u
    BY <1>1, <1>3
  <2> QED
    BY <1>1, <1>3, <2>1 DEF Members
<1> QED
  BY <1>2, <1>3

\* A part of a sequence has no new member.
LEMMA SubSeqMembers ==
  ASSUME NEW S, NEW s \in Seq(S), NEW a \in 1 .. Len(s) + 1, NEW b \in 0 .. Len(s)
  PROVE  /\ \A m : m \in Members(SubSeq(s, a, b)) => m \in Members(s)
         /\ \A X : NoNew(X, s, SubSeq(s, a, b))
<1> DEFINE p == SubSeq(s, a, b)
<1>1. /\ DOMAIN s = 1 .. Len(s) /\ Len(s) \in Nat
      /\ DOMAIN p \subseteq Nat
      /\ \A i \in DOMAIN p : a + i - 1 \in 1 .. Len(s) /\ p[i] = s[a + i - 1]
  BY SubSeqProperties, LenProperties
<1> HIDE DEF p
<1>2. \A m : m \in Members(p) => m \in Members(s)
  BY <1>1 DEF Members
<1>3. ASSUME NEW X, Alone(X, s) PROVE Alone(X, p)
  <2> SUFFICES ASSUME NEW i \in DOMAIN p, NEW j \in DOMAIN p, p[i] \in X, p[j] \in X
               PROVE  i = j
    BY DEF Alone
  <2>1. a + i - 1 = a + j - 1
    BY <1>1, <1>3 DEF Alone
  <2> QED
    BY <1>1, <2>1
<1> QED
  BY <1>2, <1>3 DEF NoNew, p

LEMMA TailMembers ==
  ASSUME NEW S, NEW s \in Seq(S), s # <<>>
  PROVE  /\ Head(s) \in Members(s)
         /\ \A m : m \in Members(Tail(s)) => m \in Members(s)
         /\ \A X : NoNew(X, s, Tail(s))
         /\ \A X : Alone(X, s) /\ Head(s) \in X => \A m \in X : m \notin Members(Tail(s))
<1>1. /\ DOMAIN s = 1 .. Len(s) /\ Len(s) \in Nat /\ 1 \in DOMAIN s
      /\ Head(s) = s[1]
      /\ DOMAIN Tail(s) = 1 .. Len(s) - 1
      /\ \A i \in DOMAIN Tail(s) : Tail(s)[i] = s[i + 1]
  BY HeadTailProperties, LenProperties, EmptySeq
<1> DEFINE p == Tail(s)
           h == Head(s)
<1>2. \A i \in DOMAIN p : i \in Nat /\ i # 0 /\ i + 1 \in DOMAIN s /\ p[i] = s[i + 1]
  BY <1>1
<1>3. 1 \in DOMAIN s /\ h = s[1]
  BY <1>1
<1> HIDE DEF p, h
<1>4. \A m : m \in Members(p) => m \in Members(s)
  BY <1>2 DEF Members
<1>5. ASSUME NEW X, Alone(X, s) PROVE Alone(X, p)
  <2> SUFFICES ASSUME NEW i \in DOMAIN p, NEW j \in DOMAIN p, p[i] \in X, p[j] \in X
               PROVE  i = j
    BY DEF Alone
  <2>1. i + 1 = j + 1
    BY <1>2, <1>5 DEF Alone
  <2> QED
    BY <1>2, <2>1
<1>6. ASSUME NEW X, Alone(X, s), h \in X, NEW i \in DOMAIN p, p[i] \in X PROVE FALSE
  <2>1. 1 = i + 1
    BY <1>2, <1>3, <1>6 DEF Alone
  <2> QED
    BY <1>2, <2>1
<1>7. \A X : Alone(X, s) /\ h \in X => \A m \in X : m \notin Members(p)
  BY <1>6 DEF Members
<1>8. h \in Members(s)
  BY <1>3 DEF Members
<1> QED
  BY <1>4, <1>5, <1>7, <1>8 DEF NoNew, p, h

LEMMA PartMembers ==
  ASSUME NEW S, NEW s \in Seq(S), NEW p \in Prefixes(s) \cup Suffixes(s)
  PROVE  /\ \A m : m \in Members(p) => m \in Members(s)
         /\ \A X : NoNew(X, s, p)
<1>0. Len(s) \in Nat
  BY LenProperties
<1>1. PICK a \in 1 .. Len(s) + 1, b \in 0 .. Len(s) : p = SubSeq(s, a, b)
  <2>1. CASE p \in Prefixes(s)
    <3>1. 1 \in 1 .. Len(s) + 1
      BY <1>0
    <3> QED
      BY <2>1, <3>1 DEF Prefixes
  <2>2. CASE p \in Suffixes(s)
    <3>1. Len(s) \in 0 .. Len(s)
      BY <1>0
    <3> QED
      BY <2>2, <3>1 DEF Suffixes
  <2> QED
    BY <2>1, <2>2
<1> QED
  BY <1>1, SubSeqMembers

LEMMA SmallMembers ==
  /\ \A m : m \notin Members(<< >>)
  /\ \A X : Alone(X, << >>)
  /\ \A e, m : m \in Members(<<e>>) <=> m = e
  /\ \A X, s : NoNew(X, s, s) /\ NoNew(X, s, << >>)
BY DEF Members, Alone, NoNew

\* The places of a token.
Replies(t)  == {OrderReply(t, b) : b \in BOOLEAN}
Checked(t)  == OrderCheck(t) \in Members(toRisk)
Replied(t)  == \E m \in Replies(t) : m \in Members(fromRisk)
Lined(t)    == OrderLine(t) \in Members(toBridge)
Sent(t)     == command = Sending(t)
Arrived(t)  == \E r \in Refs : counter[r].used /\ counter[r].token = t
LiveAt(t)   == \E r \in Refs : Live(r) /\ counter[r].token = t
Coming(t)   == Checked(t) \/ Replied(t) \/ Lined(t) \/ Sent(t) \/ LiveAt(t)

OnePlace(t) ==
  /\ Alone({OrderCheck(t)}, toRisk)
  /\ Alone(Replies(t), fromRisk)
  /\ Alone({OrderLine(t)}, toBridge)
  /\ Checked(t) => ~Replied(t) /\ ~Lined(t) /\ ~Sent(t) /\ ~Arrived(t)
  /\ Replied(t) => ~Lined(t) /\ ~Sent(t) /\ ~Arrived(t)
  /\ Lined(t)   => ~Sent(t) /\ ~Arrived(t)
  /\ Sent(t)    => ~Arrived(t)

\* Nothing says that the order of the token ended.
Ends(m, t) == m.token = t /\ m.status \in TerminalStatuses
QuietGateway(t) ==
  /\ \A m \in Members(reports) : ~Ends(m, t)
  /\ \A th \in Threads : thread[th].pc # "idle" => ~Ends(thread[th].report, t)
  /\ \A r \in Refs : orderStatus[r].known => ~Ends(orderStatus[r], t)
  /\ \A r \in Refs : preCancel[r].known => ~Ends(preCancel[r], t)
QuietRisk(t) == \A m \in Members(toRisk) : m.type = "status" => ~Ends(m.report, t)
QuietLink(t) == \A m \in Members(fromBridge) : m.type = "order_status" => ~Ends(m, t)
\* What the bridge keeps under the reference or the number of an order leads
\* to the token only for the order of the token.
Bound(t) ==
  /\ \A r \in Refs :
       refContext[r] = t \/ journal.refs[r] = t => counter[r].used /\ counter[r].token = t
  /\ \A n \in Numbers : remembered[n] = t
       => \A r \in Refs : counter[r].used /\ counter[r].seq = n => counter[r].token = t
QuietCounter(t) ==
  /\ Bound(t)
  /\ \A r \in Refs : Ended(r) => counter[r].token # t
  /\ \A c \in Members(callbacks) : c.status \in TerminalStatuses => counter[c.ref].token # t
Quiet(t) == QuietGateway(t) /\ QuietRisk(t) /\ QuietLink(t) /\ QuietCounter(t)

Reserved(t) ==
  /\ OnePlace(t)
  /\ requested[t] = 0 => ~Coming(t) /\ ~Arrived(t)
  /\ (requested[t] = 0 \/ Coming(t)) /\ OwnNumber(t) => Quiet(t)
  /\ OnTheWay(t) /\ OwnNumber(t) => t \in held

\* Callbacks are those of orders of the counter, which gives its references
\* in order.
RefsOK ==
  /\ \A c \in Members(callbacks) :
       counter[c.ref].used /\ c.seq \in {0, counter[c.ref].seq}
  /\ \A p, q \in Refs : counter[q].used /\ p < q => counter[p].used
BoundsOK == requested \in [Tokens -> Nat] /\ faults \in [FaultKinds -> Nat]

ReservedInv == BoundsOK /\ RefsOK /\ \A t \in Tokens \ Unchecked : Reserved(t)

NoNewCheck(t) == NoNew({OrderCheck(t)}, toRisk, toRisk')
NoNewReply(t) == NoNew(Replies(t), fromRisk, fromRisk')
NoNewLine(t)  == NoNew({OrderLine(t)}, toBridge, toBridge')
NoNewOrder(t) ==
  /\ Sent(t)' => Sent(t)
  /\ Arrived(t)' => Arrived(t)
  /\ LiveAt(t)' => LiveAt(t)
  /\ OwnNumber(t)' => OwnNumber(t)

\* A step after which the token is at no new place.
Fewer(t) ==
  /\ NoNewCheck(t) /\ NoNewReply(t) /\ NoNewLine(t) /\ NoNewOrder(t)
  /\ requested'[t] = requested[t]

LEMMA OnTheWayPlaces ==
  ASSUME NEW t \in Tokens
  PROVE  OnTheWay(t) <=> OrderReply(t, TRUE) \in Members(fromRisk) \/ Lined(t) \/ Sent(t) \/ LiveAt(t)
BY DEF OnTheWay, Members, Lined, Sent, LiveAt

\* Before the token has an order, its number is not one of another.
LEMMA NotArrived ==
  ASSUME NEW t \in Tokens, Reserved(t), ~Arrived(t)
  PROVE  /\ requested[t] = 0 \/ Coming(t) => Quiet(t)
         /\ OnTheWay(t) => t \in held
BY DEF Reserved, Arrived, OwnNumber

LEMMA FewerPlaces ==
  ASSUME NEW t \in Tokens, Fewer(t)
  PROVE  /\ OnePlace(t) => OnePlace(t)'
         /\ Coming(t)' => Coming(t)
         /\ Arrived(t)' => Arrived(t)
         /\ OnTheWay(t)' => OnTheWay(t)
         /\ OnTheWay(t) => Coming(t)
         /\ OwnNumber(t)' => OwnNumber(t)
<1>1. Checked(t)' => Checked(t)
  BY DEF Fewer, NoNewCheck, NoNew, Checked
<1>2. Replied(t)' => Replied(t)
  BY DEF Fewer, NoNewReply, NoNew, Replied
<1>3. Lined(t)' => Lined(t)
  BY DEF Fewer, NoNewLine, NoNew, Lined
<1>4. /\ (Sent(t)' => Sent(t)) /\ (Arrived(t)' => Arrived(t)) /\ (LiveAt(t)' => LiveAt(t))
      /\ OwnNumber(t)' => OwnNumber(t)
  BY DEF Fewer, NoNewOrder
<1>5. /\ Alone({OrderCheck(t)}, toRisk) => Alone({OrderCheck(t)}, toRisk)'
      /\ Alone(Replies(t), fromRisk) => Alone(Replies(t), fromRisk)'
      /\ Alone({OrderLine(t)}, toBridge) => Alone({OrderLine(t)}, toBridge)'
  BY DEF Fewer, NoNewCheck, NoNewReply, NoNewLine, NoNew
<1>6. OnePlace(t) => OnePlace(t)'
  BY <1>1, <1>2, <1>3, <1>4, <1>5 DEF OnePlace
<1>7. OrderReply(t, TRUE) \in Replies(t)
  BY DEF Replies
<1>8. OrderReply(t, TRUE) \in Members(fromRisk)' => OrderReply(t, TRUE) \in Members(fromRisk)
  BY <1>7 DEF Fewer, NoNewReply, NoNew
<1>9. OnTheWay(t)' <=> \/ OrderReply(t, TRUE) \in Members(fromRisk)'
                       \/ Lined(t)' \/ Sent(t)' \/ LiveAt(t)'
  BY DEF OnTheWay, Members, Lined, Sent, LiveAt
<1>10. OnTheWay(t) => Coming(t)
  BY <1>7, OnTheWayPlaces DEF Coming, Replied
<1>11. OnTheWay(t)' => OnTheWay(t)
  BY <1>3, <1>4, <1>8, <1>9, OnTheWayPlaces
<1>12. Coming(t)' => Coming(t)
  BY <1>1, <1>2, <1>3, <1>4 DEF Coming
<1> QED
  BY <1>4, <1>6, <1>10, <1>11, <1>12

\* What stays at its place stays reserved unless something says it ended.
LEMMA FewerReserved ==
  ASSUME NEW t \in Tokens, Reserved(t), Fewer(t),
         Coming(t)' \/ ~Coming(t) => (Quiet(t) => Quiet(t)'),
         Quiet(t) /\ t \in held => t \in held'
  PROVE  Reserved(t)'
<1>1. /\ OnePlace(t)'
      /\ Coming(t)' => Coming(t)
      /\ Arrived(t)' => Arrived(t)
      /\ OnTheWay(t)' => OnTheWay(t)
      /\ OnTheWay(t) => Coming(t)
      /\ OwnNumber(t)' => OwnNumber(t)
  BY FewerPlaces DEF Reserved
<1>2. requested'[t] = requested[t]
  BY DEF Fewer
<1>3. requested'[t] = 0 => ~Coming(t)' /\ ~Arrived(t)'
  BY <1>1, <1>2 DEF Reserved
<1>4. (requested'[t] = 0 \/ Coming(t)') /\ OwnNumber(t)' => Quiet(t)'
  BY <1>1, <1>2 DEF Reserved
<1>5. OnTheWay(t)' /\ OwnNumber(t)' => t \in held'
  BY <1>1 DEF Reserved
<1> QED
  BY <1>1, <1>3, <1>4, <1>5 DEF Reserved

\* What is forgotten and what is read from disk keeps the orders apart.
LEMMA BoundKept ==
  ASSUME NEW t \in Tokens, Bound(t),
         \A r \in Refs : /\ counter'[r].used = counter[r].used
                         /\ counter[r].used => /\ counter'[r].token = counter[r].token
                                               /\ counter'[r].seq = counter[r].seq,
         journal'.refs = journal.refs,
         \A r \in Refs : refContext'[r] \in {refContext[r], journal.refs[r]},
         \A n \in Numbers : remembered'[n] \in {remembered[n], NoToken}
  PROVE  Bound(t)'
<1>1. t # NoToken
  BY NamesAssumption
<1>2. \A r \in Refs : refContext'[r] = t \/ journal'.refs[r] = t
        => counter'[r].used /\ counter'[r].token = t
  BY DEF Bound
<1>3. \A n \in Numbers : remembered'[n] = t => remembered[n] = t
  BY <1>1
<1>4. \A n \in Numbers : remembered'[n] = t
        => \A r \in Refs : counter'[r].used /\ counter'[r].seq = n => counter'[r].token = t
  BY <1>3 DEF Bound
<1> QED
  BY <1>2, <1>4 DEF Bound

LEMMA UnchangedQuiet ==
  ASSUME NEW t \in Tokens
  PROVE  /\ UNCHANGED <<reports, thread, orderStatus, preCancel>>
              => (QuietGateway(t) => QuietGateway(t)')
         /\ UNCHANGED toRisk => (QuietRisk(t) => QuietRisk(t)')
         /\ UNCHANGED fromBridge => (QuietLink(t) => QuietLink(t)')
         /\ UNCHANGED <<counter, callbacks, refContext, remembered>> /\ journal'.refs = journal.refs
              => (QuietCounter(t) => QuietCounter(t)')
         /\ UNCHANGED toRisk => NoNewCheck(t)
         /\ UNCHANGED fromRisk => NoNewReply(t)
         /\ UNCHANGED toBridge => NoNewLine(t)
         /\ UNCHANGED <<command, counter>> => NoNewOrder(t)
<1>1. UNCHANGED <<reports, thread, orderStatus, preCancel>> => (QuietGateway(t) => QuietGateway(t)')
  BY DEF QuietGateway
<1>2. /\ UNCHANGED toRisk => (QuietRisk(t) => QuietRisk(t)')
      /\ UNCHANGED fromBridge => (QuietLink(t) => QuietLink(t)')
  BY DEF QuietRisk, QuietLink
<1>3. UNCHANGED <<counter, callbacks, refContext, remembered>> /\ journal'.refs = journal.refs
        => (QuietCounter(t) => QuietCounter(t)')
  BY BoundKept DEF QuietCounter, Ended
<1>4. UNCHANGED toRisk => NoNewCheck(t)
  BY SmallMembers DEF NoNewCheck
<1>5. UNCHANGED fromRisk => NoNewReply(t)
  BY SmallMembers DEF NoNewReply
<1>6. UNCHANGED toBridge => NoNewLine(t)
  BY SmallMembers DEF NoNewLine
<1>7. UNCHANGED <<command, counter>> => NoNewOrder(t)
  BY DEF NoNewOrder, Sent, Arrived, LiveAt, Live, OwnNumber
<1> QED
  BY <1>1, <1>2, <1>3, <1>4, <1>5, <1>6, <1>7

\* The gateway passes on what it was told: it never invents the end of an
\* order it did not reject itself.
LEMMA GotoQuiet ==
  ASSUME TypeInv, NEW t \in Tokens, NEW th \in Threads, NEW x, Goto(th, x),
         x.pc # "idle" => ~Ends(x.report, t), QuietGateway(t)
  PROVE  \A o \in Threads : thread'[o].pc # "idle" => ~Ends(thread'[o].report, t)
<1>1. thread'[th] = x /\ \A o \in Threads : o # th => thread'[o] = thread[o]
  BY DEF Goto, TypeInv, GatewayInv, GatewayOK
<1> QED
  BY <1>1 DEF QuietGateway

LEMMA ReportQuiet ==
  ASSUME TypeInv, NEW t \in Tokens, NEW th \in Threads, NEW m \in OrderReports,
         UpdateOrderStatus(th, m), UNCHANGED <<orderStatus, preCancel>>,
         ~Ends(m, t), QuietGateway(t)
  PROVE  QuietGateway(t)'
<1>1. \A o \in Threads : thread'[o].pc # "idle" => ~Ends(thread'[o].report, t)
  BY GotoQuiet DEF UpdateOrderStatus, Idle
<1>2. \A x : x \in Members(reports') => x \in Members(reports) \/ x = m
  BY AppendMembers DEF UpdateOrderStatus, TypeInv, GatewayInv, GatewayOK
<1>3. \A x \in Members(reports') : ~Ends(x, t)
  BY <1>2 DEF QuietGateway
<1> QED
  BY <1>1, <1>3 DEF QuietGateway

LEMMA PublishRejectedQuiet ==
  ASSUME TypeInv, NEW t \in Tokens, NEW u \in Tokens, u # t, PublishRejected(u), QuietGateway(t)
  PROVE  QuietGateway(t)'
<1>1. Rejected(u) \in OrderReports /\ ~Ends(Rejected(u), t)
  BY ReportTypes DEF Rejected, Report, Ends
<1> QED
  BY <1>1, ReportQuiet, ThreadNames DEF PublishRejected

LEMMA InsertQuiet ==
  ASSUME TypeInv, NEW t \in Tokens, NEW u \in Tokens, u # t, ReqInsertOrder(u)
  PROVE  /\ NoNewLine(t)
         /\ QuietGateway(t) => QuietGateway(t)'
         /\ UNCHANGED fromBridge
<1>1. CASE PublishRejected(u)
  <2>1. UNCHANGED linkVars
    BY <1>1 DEF PublishRejected
  <2> QED
    BY <1>1, <2>1, PublishRejectedQuiet, UnchangedQuiet DEF linkVars
<1>2. CASE SendLine(OrderLine(u)) /\ UNCHANGED <<reports, thread, fromBridge, orderStatus, preCancel>>
  <2>1. OrderLine(u) \in Commands /\ OrderLine(u) # OrderLine(t)
    BY CommandTypes DEF OrderLine
  <2>2. NoNewLine(t)
    BY <1>2, <2>1, AppendMembers, SmallMembers DEF SendLine, NoNewLine, TypeInv, LinkOK
  <2> QED
    BY <1>2, <2>2, UnchangedQuiet
<1>3. CASE UpdateOrderStatus("work", Rejected(u))
           /\ UNCHANGED <<toBridge, fromBridge, orderStatus, preCancel>>
  <2>1. Rejected(u) \in OrderReports /\ ~Ends(Rejected(u), t)
    BY ReportTypes DEF Rejected, Report, Ends
  <2> QED
    BY <1>3, <2>1, ReportQuiet, ThreadNames, UnchangedQuiet
<1> QED
  BY <1>1, <1>2, <1>3 DEF ReqInsertOrder

LEMMA CancelFailureQuiet ==
  ASSUME TypeInv, NEW t \in Tokens, NEW th \in Threads, NEW r \in Refs,
         PublishCancelFailure(th, r), QuietGateway(t)
  PROVE  QuietGateway(t)'
<1> DEFINE order == orderStatus[r]
           restored == IF preCancel[r].known THEN preCancel[r] ELSE order
           next == IF order.known /\ ~Terminal(order)
                   THEN At("store", Report(restored.token, r, restored.status)) ELSE Idle
<1>1. next.pc # "idle" => ~Ends(next.report, t)
  <2>1. CASE order.known /\ ~Terminal(order)
    <3>1. ~Ends(restored, t)
      BY <2>1 DEF QuietGateway
    <3>2. next.report = Report(restored.token, r, restored.status)
      BY <2>1 DEF At
    <3> QED
      BY <3>1, <3>2 DEF Ends, Report
  <2>2. CASE ~(order.known /\ ~Terminal(order))
    BY <2>2 DEF Idle
  <2> QED
    BY <2>1, <2>2
<1>2. /\ Goto(th, next)
      /\ preCancel' = IF order.known THEN [preCancel EXCEPT ![r] = Unknown] ELSE preCancel
      /\ UNCHANGED <<orderStatus, reports>>
  BY DEF PublishCancelFailure
<1> HIDE DEF next
<1>3. \A o \in Threads : thread'[o].pc # "idle" => ~Ends(thread'[o].report, t)
  BY <1>1, <1>2, GotoQuiet
<1>4. \A q \in Refs : preCancel'[q] = preCancel[q] \/ ~preCancel'[q].known
  BY <1>2 DEF Unknown, TypeInv, GatewayInv, GatewayOK
<1> QED
  BY <1>2, <1>3, <1>4 DEF QuietGateway

LEMMA CancelQuiet ==
  ASSUME TypeInv, NEW t \in Tokens, NEW r \in Refs, ReqCancelOrder(r)
  PROVE  /\ NoNewLine(t)
         /\ QuietGateway(t) => QuietGateway(t)'
         /\ UNCHANGED fromBridge
<1> DEFINE order == orderStatus[r]
           token == IF order.known THEN order.token ELSE NoToken
           next == At(IF order.known THEN "mark" ELSE "undefined", Report(token, r, "ECANCELLING"))
<1>1. CASE UNCHANGED <<linkVars, gatewayVars>>
  BY <1>1, UnchangedQuiet DEF linkVars, gatewayVars
<1>2. CASE /\ SendLine(CancelLine(r)) /\ Goto("work", next)
           /\ UNCHANGED <<fromBridge, orderStatus, preCancel, reports>>
  <2>1. CancelLine(r) \in Commands /\ CancelLine(r) # OrderLine(t)
    BY CommandTypes DEF CancelLine, OrderLine
  <2>2. NoNewLine(t)
    BY <1>2, <2>1, AppendMembers, SmallMembers DEF SendLine, NoNewLine, TypeInv, LinkOK
  <2>3. ~Ends(next.report, t)
    BY DEF At, Report, Ends, TerminalStatuses
  <2> HIDE DEF next
  <2>4. QuietGateway(t) => QuietGateway(t)'
    BY <1>2, <2>3, GotoQuiet, ThreadNames DEF QuietGateway
  <2> QED
    BY <1>2, <2>2, <2>4
<1>3. CASE PublishCancelFailure("work", r) /\ UNCHANGED linkVars
  BY <1>3, CancelFailureQuiet, ThreadNames, UnchangedQuiet DEF linkVars
<1> QED
  BY <1>1, <1>2, <1>3 DEF ReqCancelOrder

LEMMA CancelRejectedQuiet ==
  ASSUME TypeInv, NEW t \in Tokens, NEW r \in Refs, ReqCancelOrderRejected(r)
  PROVE  /\ NoNewLine(t)
         /\ QuietGateway(t) => QuietGateway(t)'
         /\ UNCHANGED fromBridge
<1> DEFINE order == orderStatus[r]
           next == IF order.known /\ ~Terminal(order)
                   THEN At("publish", Report(order.token, r, order.status)) ELSE Idle
<1>1. next.pc # "idle" => ~Ends(next.report, t)
  BY DEF At, Report, Ends, Idle, Terminal
<1>2. /\ Goto("work", next)
      /\ UNCHANGED <<linkVars, orderStatus, preCancel, reports>>
  BY DEF ReqCancelOrderRejected
<1> HIDE DEF next
<1>3. QuietGateway(t) => QuietGateway(t)'
  BY <1>1, <1>2, GotoQuiet, ThreadNames DEF QuietGateway
<1> QED
  BY <1>2, <1>3, UnchangedQuiet DEF linkVars

LEMMA MarkQuiet ==
  ASSUME TypeInv, NEW t \in Tokens, MarkCancelling, QuietGateway(t)
  PROVE  QuietGateway(t)'
<1> DEFINE r == thread["work"].report.ref
           next == At("store", Report(orderStatus[r].token, r, "ECANCELLING"))
<1>1. r \in Refs
  BY DEF MarkCancelling, TypeInv, GatewayInv, MarkOK
<1>2. ~Ends(next.report, t)
  BY DEF At, Report, Ends, TerminalStatuses
<1>3. /\ preCancel' = [preCancel EXCEPT ![r] = orderStatus[r]] /\ Goto("work", next)
      /\ UNCHANGED <<orderStatus, reports>>
  BY DEF MarkCancelling
<1> HIDE DEF next, r
<1>4. \A o \in Threads : thread'[o].pc # "idle" => ~Ends(thread'[o].report, t)
  BY <1>2, <1>3, GotoQuiet, ThreadNames
<1>5. \A q \in Refs : preCancel'[q] = preCancel[q] \/ preCancel'[q] = orderStatus[q]
  BY <1>1, <1>3 DEF TypeInv, GatewayInv, GatewayOK
<1> QED
  BY <1>3, <1>4, <1>5 DEF QuietGateway

LEMMA StoreQuiet ==
  ASSUME TypeInv, NEW t \in Tokens, NEW th \in Threads, StoreOrder(th), QuietGateway(t)
  PROVE  QuietGateway(t)'
<1> DEFINE m == thread[th].report
<1>1. ~Ends(m, t)
  BY DEF StoreOrder, QuietGateway
<1>2. /\ orderStatus' = [orderStatus EXCEPT ![m.ref] = Known(m.token, m.status)]
      /\ Goto(th, At("publish", m))
      /\ UNCHANGED <<preCancel, reports>>
  BY DEF StoreOrder
<1> HIDE DEF m
<1>3. \A o \in Threads : thread'[o].pc # "idle" => ~Ends(thread'[o].report, t)
  BY <1>1, <1>2, GotoQuiet DEF At
<1>4. \A q \in Refs : orderStatus'[q] = orderStatus[q] \/ orderStatus'[q] = Known(m.token, m.status)
  BY <1>2 DEF TypeInv, GatewayInv, GatewayOK
<1>5. ~Ends(Known(m.token, m.status), t)
  BY <1>1 DEF Ends, Known
<1> QED
  BY <1>2, <1>3, <1>4, <1>5 DEF QuietGateway

LEMMA PublishQuiet ==
  ASSUME TypeInv, NEW t \in Tokens, NEW th \in Threads, PublishOrder(th), QuietGateway(t)
  PROVE  QuietGateway(t)'
<1>1. thread[th].report \in OrderReports /\ ~Ends(thread[th].report, t)
  BY ThreadTypes DEF PublishOrder, TypeInv, GatewayInv, GatewayOK, QuietGateway
<1> QED
  BY <1>1, ReportQuiet DEF PublishOrder

LEMMA MessageQuiet ==
  ASSUME TypeInv, NEW t \in Tokens, HandleMessage
  PROVE  /\ NoNewLine(t)
         /\ QuietLink(t) => QuietLink(t)'
         /\ QuietLink(t) /\ QuietGateway(t) => QuietGateway(t)'
<1> DEFINE m == Head(fromBridge)
<1>1. /\ m \in Messages /\ m \in Members(fromBridge)
      /\ \A x : x \in Members(fromBridge') => x \in Members(fromBridge)
  BY TailType, TailMembers DEF HandleMessage, TypeInv, LinkOK
<1>2. QuietLink(t) => QuietLink(t)'
  BY <1>1 DEF QuietLink
<1>3. CASE HandleLogin(m.connected)
  <2>1. QueryLine \in Commands /\ QueryLine # OrderLine(t)
    BY CommandTypes DEF QueryLine, OrderLine
  <2>2. CASE UNCHANGED toBridge
    BY <1>2, <1>3, <2>2, UnchangedQuiet DEF HandleLogin
  <2>3. CASE SendLine(QueryLine)
    <3>1. NoNewLine(t)
      BY <2>1, <2>3, AppendMembers, SmallMembers DEF SendLine, NoNewLine, TypeInv, LinkOK
    <3> QED
      BY <1>2, <1>3, <3>1, UnchangedQuiet DEF HandleLogin
  <2> QED
    BY <1>3, <2>2, <2>3 DEF HandleLogin
<1>4. CASE m.type = "order_status" /\ HandleOrderStatus(m)
  <2>1. QuietLink(t) => ~Ends(m, t)
    BY <1>1, <1>4 DEF QuietLink
  <2>2. /\ orderStatus' = IF m.ref = NoRef THEN orderStatus
                          ELSE [orderStatus EXCEPT ![m.ref] = Known(m.token, m.status)]
        /\ preCancel' = IF m.ref # NoRef /\ m.status \in TerminalStatuses
                        THEN [preCancel EXCEPT ![m.ref] = Unknown] ELSE preCancel
        /\ Goto("receive", At("publish", Report(m.token, m.ref, m.status)))
        /\ UNCHANGED <<toBridge, reports>>
    BY <1>4 DEF HandleOrderStatus
  <2> HIDE DEF m
  <2>3. \A q \in Refs : orderStatus'[q] = orderStatus[q] \/ orderStatus'[q] = Known(m.token, m.status)
    BY <2>2 DEF TypeInv, GatewayInv, GatewayOK
  <2>4. \A q \in Refs : preCancel'[q] = preCancel[q] \/ ~preCancel'[q].known
    BY <2>2 DEF Unknown, TypeInv, GatewayInv, GatewayOK
  <2>5. ~Ends(m, t) => ~Ends(Known(m.token, m.status), t) /\ ~Ends(Report(m.token, m.ref, m.status), t)
    BY DEF Ends, Known, Report
  <2>6. ASSUME QuietLink(t), QuietGateway(t) PROVE QuietGateway(t)'
    <3>1. \A o \in Threads : thread'[o].pc # "idle" => ~Ends(thread'[o].report, t)
      BY <2>1, <2>2, <2>5, <2>6, GotoQuiet, ThreadNames DEF At
    <3> QED
      BY <2>1, <2>2, <2>3, <2>4, <2>5, <2>6, <3>1 DEF QuietGateway
  <2> QED
    BY <1>2, <2>2, <2>6, UnchangedQuiet
<1>5. CASE m.type = "cancel_error" /\ PublishCancelFailure("receive", m.ref) /\ UNCHANGED toBridge
  <2>1. m.ref \in Refs
    BY <1>1, <1>5, MessageTypes
  <2> QED
    BY <1>2, <1>5, <2>1, CancelFailureQuiet, ThreadNames, UnchangedQuiet
<1> QED
  BY <1>3, <1>4, <1>5 DEF HandleMessage

LEMMA GatewayStepFewer ==
  ASSUME TypeInv, NEW t \in Tokens, GatewayStep
  PROVE  Fewer(t) /\ UNCHANGED held /\ (Quiet(t) => Quiet(t)')
<1>1. UNCHANGED <<bridgeVars, riskVars, boundVars>>
  BY DEF GatewayStep
<1>2. /\ NoNewCheck(t) /\ NoNewReply(t) /\ NoNewOrder(t) /\ requested'[t] = requested[t]
      /\ UNCHANGED held /\ (QuietRisk(t) => QuietRisk(t)') /\ (QuietCounter(t) => QuietCounter(t)')
  BY <1>1, UnchangedQuiet DEF bridgeVars, riskVars, boundVars
<1>3. /\ NoNewLine(t)
      /\ QuietLink(t) => QuietLink(t)'
      /\ QuietLink(t) /\ QuietGateway(t) => QuietGateway(t)'
  <2>1. CASE MarkCancelling
    BY <2>1, MarkQuiet, UnchangedQuiet DEF MarkCancelling, linkVars
  <2>2. ASSUME NEW th \in Threads, StoreOrder(th) \/ PublishOrder(th)
        PROVE  /\ NoNewLine(t)
               /\ QuietLink(t) => QuietLink(t)'
               /\ QuietLink(t) /\ QuietGateway(t) => QuietGateway(t)'
    BY <2>2, StoreQuiet, PublishQuiet, UnchangedQuiet DEF StoreOrder, PublishOrder, linkVars
  <2>3. CASE HandleMessage
    BY <2>3, MessageQuiet
  <2>4. CASE Disconnect
    BY <2>4, UnchangedQuiet DEF Disconnect
  <2> QED
    BY <2>1, <2>2, <2>3, <2>4 DEF GatewayStep
<1> QED
  BY <1>2, <1>3 DEF Fewer, Quiet

LEMMA PublishLink ==
  ASSUME TypeInv, NEW t \in Tokens, NEW m \in Messages, Publish(<<m>>),
         m.type = "order_status" => ~Ends(m, t), QuietLink(t)
  PROVE  QuietLink(t)'
<1>1. \A x : x \in Members(fromBridge') => x \in Members(fromBridge) \/ x = m
  <2>1. <<m>> \in Seq(Messages) /\ fromBridge \in Seq(Messages)
    BY SingletonType DEF TypeInv, LinkOK
  <2>2. \A x : x \in Members(fromBridge \o <<m>>) => x \in Members(fromBridge) \/ x \in Members(<<m>>)
    BY <2>1, ConcatMembers
  <2>3. \A x : x \in Members(<<m>>) => x = m
    BY SmallMembers
  <2> QED
    BY <2>2, <2>3 DEF Publish
<1> QED
  BY <1>1 DEF QuietLink

LEMMA OrderCommand ==
  ASSUME NEW m \in Commands, m.type = "order"
  PROVE  m = OrderLine(m.token)
BY DEF Commands, OrderLine, CancelLine, QueryLine

LEMMA ReadingLines ==
  ASSUME TypeInv, NEW t \in Tokens, NEW type, Reading(type)
  PROVE  /\ NoNewLine(t)
         /\ Head(toBridge) \in Members(toBridge) /\ Head(toBridge) \in Commands
         /\ Head(toBridge).type = type
         /\ Alone({OrderLine(t)}, toBridge) /\ Head(toBridge) = OrderLine(t) => ~Lined(t)'
<1>1. toBridge \in Seq(Commands) /\ toBridge # <<>> /\ toBridge' = Tail(toBridge)
  BY DEF Reading, TypeInv, LinkOK
<1>2. /\ Head(toBridge) \in Members(toBridge)
      /\ NoNew({OrderLine(t)}, toBridge, Tail(toBridge))
      /\ Alone({OrderLine(t)}, toBridge) /\ Head(toBridge) \in {OrderLine(t)}
           => \A m \in {OrderLine(t)} : m \notin Members(Tail(toBridge))
  BY <1>1, TailMembers
<1> QED
  BY <1>1, <1>2, TailType DEF Reading, NoNewLine, Lined

\* The rows of a query are those of orders of the counter.
LEMMA RowMembers ==
  ASSUME TypeInv, NEW rows \in Snapshots
  PROVE  \A c \in Members(rows) : \E r \in Refs : counter[r].used /\ c = Row(r)
<1> DEFINE known == {r \in Refs : counter[r].used}
           n == Cardinality(known)
<1>1. PICK f \in [1 .. n -> known] : rows = [i \in DOMAIN f |-> Row(f[i])]
  BY DEF Snapshots
<1> HIDE DEF n
<1>2. DOMAIN rows = DOMAIN f /\ \A i \in DOMAIN f : f[i] \in known /\ rows[i] = Row(f[i])
  BY <1>1
<1> QED
  BY <1>2 DEF Members

LEMMA CallBackMembers ==
  ASSUME TypeInv, NEW msgs \in Seq(CallbackRecords), CallBack(msgs)
  PROVE  \A c : c \in Members(callbacks') => c \in Members(callbacks) \/ c \in Members(msgs)
<1>1. callbacks \in Seq(CallbackRecords)
  BY DEF TypeInv, BridgeOK, CallbackRecords
<1> QED
  BY <1>1, ConcatMembers DEF CallBack

\* What a step of the bridge or the counter leaves alone.
BesideBridge(t) ==
  /\ NoNewCheck(t) /\ NoNewReply(t) /\ requested'[t] = requested[t] /\ UNCHANGED held
  /\ QuietGateway(t) => QuietGateway(t)'
  /\ QuietRisk(t) => QuietRisk(t)'

LEMMA BesideBridgeSteps ==
  ASSUME NEW t \in Tokens, UNCHANGED <<gatewayVars, riskVars, boundVars>>
  PROVE  BesideBridge(t)
BY UnchangedQuiet DEF BesideBridge, gatewayVars, riskVars, boundVars

\* The orders of the token and what is said of them are the same or fewer.
SameOrder(t) ==
  /\ NoNewLine(t) /\ NoNewOrder(t)
  /\ QuietCounter(t) => QuietCounter(t)'
  /\ QuietLink(t) /\ QuietCounter(t) => QuietLink(t)'

LEMMA SameOrderReserved ==
  ASSUME NEW t \in Tokens, BesideBridge(t), SameOrder(t), Reserved(t)
  PROVE  Reserved(t)'
<1>1. Fewer(t) /\ (Quiet(t) => Quiet(t)') /\ UNCHANGED held
  BY DEF BesideBridge, SameOrder, Fewer, Quiet
<1> QED
  BY <1>1, FewerReserved

LEMMA PublishNothing ==
  ASSUME TypeInv, Publish(<<>>)
  PROVE  UNCHANGED fromBridge
<1>1. fromBridge \in Seq(Messages) /\ fromBridge \o <<>> = fromBridge
  BY ConcatEmptySeq DEF TypeInv, LinkOK
<1> QED
  BY <1>1 DEF Publish

LEMMA LoginQuiet ==
  ASSUME TypeInv, NEW t \in Tokens, NEW b \in BOOLEAN, Publish(<<LoginLine(b)>>), QuietLink(t)
  PROVE  QuietLink(t)'
<1>1. LoginLine(b) \in Messages /\ LoginLine(b).type # "order_status"
  BY MessageTypes DEF LoginLine
<1> QED
  BY <1>1, PublishLink

LEMMA BridgeQuerySame ==
  ASSUME TypeInv, NEW t \in Tokens, BridgeQuery \/ Resync
  PROVE  SameOrder(t)
<1>1. PICK rows \in Snapshots : CallBack(rows)
  BY DEF BridgeQuery, Resync, AnswerQuery
<1>2. \A c : c \in Members(callbacks') => c \in Members(callbacks) \/ c \in Members(rows)
  BY <1>1, SnapshotsType, CallBackMembers DEF TypeInv
<1>3. UNCHANGED <<command, counter, refContext, remembered, journal>>
  BY DEF BridgeQuery, Resync
<1>4. NoNewLine(t)
  BY ReadingLines, UnchangedQuiet DEF BridgeQuery, Resync
<1>5. ASSUME QuietCounter(t) PROVE QuietCounter(t)'
  <2>1. \A c \in Members(rows) : c.status \in TerminalStatuses => counter[c.ref].token # t
    BY <1>1, <1>5, RowMembers DEF Row, Callback, QuietCounter, Ended
  <2>2. Bound(t)'
    BY <1>3, <1>5, BoundKept DEF QuietCounter
  <2> QED
    BY <1>2, <1>3, <1>5, <2>1, <2>2 DEF QuietCounter, Ended
<1>6. QuietLink(t) => QuietLink(t)'
  <2>1. CASE UNCHANGED fromBridge
    BY <2>1, UnchangedQuiet
  <2>2. CASE Publish(<<LoginLine(TRUE)>>)
    BY <2>2, LoginQuiet
  <2> QED
    BY <2>1, <2>2, PublishNothing DEF BridgeQuery, Resync
<1> QED
  BY <1>3, <1>4, <1>5, <1>6, UnchangedQuiet DEF SameOrder

\* A query that fails says at most whether the login was accepted.
LEMMA QueryFailsSame ==
  ASSUME TypeInv, NEW t \in Tokens, BridgeQueryFails \/ ResyncFails
  PROVE  SameOrder(t)
<1>1. UNCHANGED <<command, counter, refContext, remembered, journal, callbacks>>
  BY DEF BridgeQueryFails, ResyncFails
<1>2. NoNewLine(t)
  BY ReadingLines, UnchangedQuiet DEF BridgeQueryFails, ResyncFails
<1>3. QuietLink(t) => QuietLink(t)'
  <2>1. CASE UNCHANGED fromBridge
    BY <2>1, UnchangedQuiet
  <2>2. ASSUME NEW b \in BOOLEAN, Publish(<<LoginLine(b)>>) PROVE QuietLink(t) => QuietLink(t)'
    BY <2>2, LoginQuiet
  <2> QED
    BY <2>1, <2>2 DEF BridgeQueryFails, ResyncFails
<1> QED
  BY <1>1, <1>2, <1>3, UnchangedQuiet DEF SameOrder

LEMMA CallbackMember ==
  ASSUME TypeInv
  PROVE  \A c \in Members(callbacks) :
           c.ref \in Refs /\ c.seq \in Numbers \cup {0} /\ c.status \in Statuses
<1>1. callbacks \in Seq(CallbackRecords)
  BY DEF TypeInv, BridgeOK, CallbackRecords
<1>2. \A i \in DOMAIN callbacks : callbacks[i] \in CallbackRecords
  BY <1>1, LenProperties, ElementOfSeq
<1>3. \A c \in Members(callbacks) : c \in CallbackRecords
  BY <1>2 DEF Members
<1> QED
  BY <1>3 DEF CallbackRecords

LEMMA BridgeCancelSame ==
  ASSUME TypeInv, NEW t \in Tokens, BridgeCancel
  PROVE  SameOrder(t)
<1> DEFINE r == Head(toBridge).ref
<1>1. r \in Refs /\ NoNewLine(t)
      /\ UNCHANGED <<command, callbacks, refContext, remembered, journal>>
  BY ReadingLines, CommandTypes DEF BridgeCancel
<1> HIDE DEF r
<1>2. CASE Live(r) /\ counter' = [counter EXCEPT ![r].cancelling = TRUE] /\ UNCHANGED fromBridge
  <2>1. counter[r] \in Orders
    BY <1>1, <1>2 DEF TypeInv, BridgeOK, Live, NoOrder
  <2>2. \A q \in Refs : /\ counter'[q].used = counter[q].used
                        /\ counter'[q].token = counter[q].token
                        /\ counter'[q].seq = counter[q].seq
                        /\ counter'[q].status = counter[q].status
    BY <1>1, <1>2, <2>1 DEF TypeInv, BridgeOK, Orders
  <2>3. NoNewOrder(t)
    BY <1>1, <2>2 DEF NoNewOrder, Sent, Arrived, LiveAt, Live, OwnNumber
  <2>4. QuietCounter(t) => QuietCounter(t)'
    BY <1>1, <2>2, CallbackMember, BoundKept DEF QuietCounter, Ended
  <2> QED
    BY <1>1, <1>2, <2>3, <2>4, UnchangedQuiet DEF SameOrder
<1>3. CASE Publish(<<CancelErrorLine(r)>>) /\ UNCHANGED counter
  <2>1. CancelErrorLine(r) \in Messages /\ CancelErrorLine(r).type # "order_status"
    BY <1>1, MessageTypes DEF CancelErrorLine
  <2>2. QuietLink(t) => QuietLink(t)'
    BY <1>3, <2>1, PublishLink
  <2> QED
    BY <1>1, <1>3, <2>2, UnchangedQuiet DEF SameOrder
<1> QED
  BY <1>2, <1>3 DEF BridgeCancel, r

LEMMA HeadCallback ==
  ASSUME TypeInv, callbacks # <<>>
  PROVE  /\ Head(callbacks) \in Members(callbacks)
         /\ Head(callbacks).ref \in Refs /\ Head(callbacks).status \in Statuses
         /\ \A c : c \in Members(Tail(callbacks)) => c \in Members(callbacks)
<1>1. callbacks \in Seq(CallbackRecords)
  BY DEF TypeInv, BridgeOK, CallbackRecords
<1> QED
  BY <1>1, TailMembers, CallbackMember

\* The token a callback is reported with is that of its order.
LEMMA ContextIsToken ==
  ASSUME TypeInv, RefsOK, NEW t \in Tokens, Bound(t), NEW c \in Members(callbacks),
         ContextToken(c) = t
  PROVE  counter[c.ref].token = t
<1>1. c.ref \in Refs /\ counter[c.ref].used /\ c.seq \in {0, counter[c.ref].seq}
  BY CallbackMember DEF RefsOK
<1>2. CASE c.seq \in Numbers /\ remembered[c.seq] # NoToken
  <2>1. c.seq = counter[c.ref].seq /\ remembered[c.seq] = t
    BY <1>1, <1>2, NumbersAssumption DEF ContextToken
  <2> QED
    BY <1>1, <1>2, <2>1 DEF Bound
<1>3. CASE ~(c.seq \in Numbers /\ remembered[c.seq] # NoToken)
  BY <1>1, <1>3 DEF ContextToken, Bound
<1> QED
  BY <1>2, <1>3

LEMMA BridgeCallbackSame ==
  ASSUME TypeInv, RefsOK, NEW t \in Tokens, BridgeCallback
  PROVE  SameOrder(t)
<1> DEFINE c == Head(callbacks)
           line == StatusLine(ContextToken(c), c.ref, c.status)
<1>1. /\ c \in Members(callbacks) /\ c.ref \in Refs /\ c.status \in Statuses
      /\ callbacks' = Tail(callbacks)
      /\ \A x : x \in Members(callbacks') => x \in Members(callbacks)
  BY HeadCallback DEF BridgeCallback
<1>2. /\ UNCHANGED <<toBridge, command, counter, remembered>> /\ Publish(<<line>>)
      /\ Bind(c.ref, ContextToken(c))
  BY DEF BridgeCallback
<1>3. ContextToken(c) \in Tokens \cup {NoToken}
  BY <1>1 DEF ContextToken, TypeInv, BridgeOK, Contexts
<1>4. line \in Messages
  BY <1>1, <1>3, MessageTypes
<1>5. ASSUME QuietCounter(t) PROVE ~Ends(line, t)
  <2>1. line.token = ContextToken(c) /\ line.status = c.status
    BY DEF StatusLine
  <2> QED
    BY <1>1, <1>5, <2>1, ContextIsToken DEF Ends, QuietCounter
<1>6. ASSUME Bound(t) PROVE Bound(t)'
  <2>1. counter[c.ref].used
    BY <1>1 DEF RefsOK
  <2>2. ContextToken(c) = t => counter[c.ref].token = t
    BY <1>1, <1>6, ContextIsToken
  <2>3. \A r \in Refs :
          /\ refContext'[r] = refContext[r] \/ (r = c.ref /\ refContext'[r] = ContextToken(c))
          /\ journal'.refs[r] = journal.refs[r] \/ (r = c.ref /\ journal'.refs[r] = ContextToken(c))
    BY <1>1, <1>2 DEF Bind, TypeInv, BridgeOK, Contexts
  <2> HIDE DEF c
  <2> QED
    BY <1>2, <1>6, <2>1, <2>2, <2>3 DEF Bound
<1> HIDE DEF line
<1>7. QuietLink(t) /\ QuietCounter(t) => QuietLink(t)'
  BY <1>2, <1>4, <1>5, PublishLink
<1>8. QuietCounter(t) => QuietCounter(t)'
  BY <1>1, <1>2, <1>6 DEF QuietCounter, Ended
<1> QED
  BY <1>2, <1>7, <1>8, UnchangedQuiet DEF SameOrder

\* A step that brings the token to a new place.
LEMMA Moved ==
  ASSUME NEW t \in Tokens, OnePlace(t)', requested'[t] # 0, OwnNumber(t)' => Quiet(t)',
         OnTheWay(t)' /\ OwnNumber(t)' => t \in held'
  PROVE  Reserved(t)'
BY DEF Reserved

LEMMA BridgeOrderReserved ==
  ASSUME TypeInv, NEW t \in Tokens, BesideBridge(t), BridgeOrder, Reserved(t)
  PROVE  Reserved(t)'
<1> DEFINE u == Head(toBridge).token
<1>1. /\ NoNewLine(t) /\ u \in Tokens /\ Head(toBridge) = OrderLine(u)
      /\ OrderLine(u) \in Members(toBridge)
      /\ u = t => ~Lined(t)'
      /\ command = NoCommand
  BY ReadingLines, CommandTypes, OrderCommand DEF BridgeOrder, Reading, Reserved, OnePlace
<1>2. CASE Publish(<<RejectLine(u)>>) /\ UNCHANGED bridgeVars
  <2>1. RejectLine(u) \in Messages /\ RejectLine(u).token = u
    BY <1>1, MessageTypes DEF RejectLine, StatusLine
  <2>2. NoNewOrder(t) /\ (QuietCounter(t) => QuietCounter(t)')
    BY <1>2, UnchangedQuiet DEF bridgeVars
  <2>3. CASE u # t
    <3>1. QuietLink(t) => QuietLink(t)'
      BY <1>1, <1>2, <2>1, <2>3, PublishLink DEF Ends
    <3> QED
      BY <1>1, <2>2, <3>1, SameOrderReserved DEF SameOrder
  <2>4. CASE u = t
    <3>1. Fewer(t)
      BY <1>1, <2>2 DEF BesideBridge, Fewer
    <3>2. Lined(t) /\ ~Lined(t)'
      BY <1>1, <2>4 DEF Lined
    <3>3. ~Checked(t) /\ ~Replied(t) /\ ~Sent(t) /\ ~Arrived(t)
      BY <3>2 DEF Reserved, OnePlace
    <3>4. ~Checked(t)' /\ ~Replied(t)' /\ ~Sent(t)' /\ ~LiveAt(t)'
      <4>1. Checked(t)' => Checked(t)
        BY <3>1 DEF Fewer, NoNewCheck, NoNew, Checked
      <4>2. Replied(t)' => Replied(t)
        BY <3>1 DEF Fewer, NoNewReply, NoNew, Replied
      <4>3. LiveAt(t) => Arrived(t)
        BY DEF LiveAt, Live, Arrived
      <4> QED
        BY <3>3, <4>1, <4>2, <4>3, <2>2 DEF NoNewOrder
    <3>5. Coming(t) /\ ~Coming(t)'
      BY <3>2, <3>4 DEF Coming
    <3> QED
      BY <3>1, <3>5, FewerReserved DEF BesideBridge
  <2> QED
    BY <2>3, <2>4
<1>3. CASE Reserve(u) /\ command' = Sending(u)
           /\ UNCHANGED <<fromBridge, callbacks, counter, refContext, remembered>>
  <2>1. Sent(t)' <=> u = t
    BY <1>3 DEF Sent, Sending
  <2>2. /\ (Arrived(t)' <=> Arrived(t)) /\ (LiveAt(t)' <=> LiveAt(t))
        /\ OwnNumber(t)' => OwnNumber(t)
    BY <1>3 DEF Arrived, LiveAt, Live, OwnNumber
  <2>3. (QuietLink(t) => QuietLink(t)') /\ (QuietCounter(t) => QuietCounter(t)')
    <3>1. journal'.refs = journal.refs
      BY <1>3 DEF Reserve, TypeInv, BridgeOK
    <3> QED
      BY <1>3, <3>1, UnchangedQuiet
  <2>4. CASE u # t
    BY <1>1, <2>1, <2>2, <2>3, <2>4, SameOrderReserved DEF SameOrder, NoNewOrder
  <2>5. CASE u = t
    <3>1. Lined(t) /\ ~Lined(t)'
      BY <1>1, <2>5 DEF Lined
    <3>2. /\ ~Checked(t) /\ ~Replied(t) /\ ~Arrived(t)
          /\ Quiet(t) /\ t \in held /\ requested[t] # 0
      BY <3>1, OnTheWayPlaces, NotArrived DEF Reserved, OnePlace, Coming
    <3>3. ~Checked(t)'
      BY <3>2 DEF BesideBridge, NoNewCheck, NoNew, Checked
    <3>4. ~Replied(t)'
      BY <3>2 DEF BesideBridge, NoNewReply, NoNew, Replied
    <3>5. /\ Alone({OrderCheck(t)}, toRisk)' /\ Alone(Replies(t), fromRisk)'
          /\ Alone({OrderLine(t)}, toBridge)'
      BY <1>1 DEF BesideBridge, NoNewCheck, NoNewReply, NoNewLine, NoNew, Reserved, OnePlace
    <3>6. OnePlace(t)'
      BY <2>2, <3>1, <3>2, <3>3, <3>4, <3>5 DEF OnePlace
    <3> QED
      BY <2>3, <3>2, <3>6, Moved DEF BesideBridge, Quiet
  <2> QED
    BY <2>4, <2>5
<1> QED
  BY <1>2, <1>3 DEF BridgeOrder

LEMMA BridgeSendReserved ==
  ASSUME TypeInv, RefsOK, NEW t \in Tokens, BesideBridge(t), BridgeSend, Reserved(t)
  PROVE  Reserved(t)'
<1> DEFINE u == command.token
<1>1. /\ u \in Tokens /\ command = Sending(u) /\ command' = NoCommand
      /\ UNCHANGED toBridge
  BY DEF BridgeSend, TypeInv, BridgeOK, NoCommand, Sending
<1>2. /\ Sent(t) <=> u = t
      /\ ~Sent(t)'
      /\ NoNewLine(t)
  BY <1>1, UnchangedQuiet DEF Sent, Sending, NoCommand
<1> HIDE DEF u
<1>3. ASSUME NEW r \in Refs, NEW n \in Numbers, ~counter[r].used,
             counter' = [counter EXCEPT ![r] = Order(u, n, "EEXCHANGE_ACK")],
             remembered' = [remembered EXCEPT ![n] = u],
             CallBack(<<Callback(r, n, "EEXCHANGE_ACK")>>), UNCHANGED fromBridge
      PROVE  Reserved(t)'
  <2>1. /\ counter'[r].used /\ counter'[r].token = u /\ counter'[r].status = "EEXCHANGE_ACK"
        /\ counter'[r].seq = n
        /\ \A q \in Refs \ {r} : counter'[q] = counter[q]
    BY <1>3 DEF TypeInv, BridgeOK, Order
  <2>2. \A c \in Members(callbacks') : \/ c \in Members(callbacks) /\ c.ref \in Refs \ {r}
                                       \/ c.status = "EEXCHANGE_ACK"
    <3>1. <<Callback(r, n, "EEXCHANGE_ACK")>> \in Seq(CallbackRecords)
      BY CallbackType, StatusNames
    <3>2. \A c : c \in Members(callbacks')
                   => c \in Members(callbacks) \/ c = Callback(r, n, "EEXCHANGE_ACK")
      BY <1>3, <3>1, CallBackMembers, SmallMembers
    <3>3. \A c \in Members(callbacks) : c.ref \in Refs \ {r}
      BY <1>3, CallbackMember DEF RefsOK
    <3> QED
      BY <3>2, <3>3 DEF Callback
  <2>3. "EEXCHANGE_ACK" \notin TerminalStatuses /\ "EEXCHANGE_ACK" \in LiveStatuses
    BY DEF TerminalStatuses, LiveStatuses
  <2>4. QuietCounter(t) /\ Bound(t)' => QuietCounter(t)'
    BY <2>1, <2>2, <2>3 DEF QuietCounter, Ended
  <2>5. QuietLink(t) => QuietLink(t)'
    BY <1>3, UnchangedQuiet
  <2>6. /\ UNCHANGED <<refContext, journal>>
        /\ remembered'[n] = u /\ \A m \in Numbers \ {n} : remembered'[m] = remembered[m]
    BY <1>3 DEF BridgeSend, TypeInv, BridgeOK
  <2>7. CASE u # t
    <3>1. (Arrived(t)' => Arrived(t)) /\ (LiveAt(t)' => LiveAt(t))
      BY <2>1, <2>7 DEF Arrived, LiveAt, Live
    <3>2. OwnNumber(t)' => OwnNumber(t)
      BY <1>3, <2>1 DEF OwnNumber
    <3>3. Bound(t) => Bound(t)'
      BY <1>3, <2>1, <2>6, <2>7 DEF Bound
    <3>4. QuietCounter(t) => QuietCounter(t)'
      BY <2>4, <3>3 DEF QuietCounter
    <3> QED
      BY <1>2, <2>5, <3>1, <3>2, <3>4, SameOrderReserved DEF SameOrder, NoNewOrder
  <2>8. CASE u = t
    <3>1. /\ ~Checked(t) /\ ~Replied(t) /\ ~Lined(t)
          /\ Quiet(t) /\ t \in held /\ requested[t] # 0
      BY <1>2, <2>8, OnTheWayPlaces, NotArrived DEF Reserved, OnePlace, Coming
    <3>2. ~Checked(t)'
      BY <3>1 DEF BesideBridge, NoNewCheck, NoNew, Checked
    <3>3. ~Replied(t)'
      BY <3>1 DEF BesideBridge, NoNewReply, NoNew, Replied
    <3>4. ~Lined(t)'
      BY <1>2, <3>1 DEF NoNewLine, NoNew, Lined
    <3>5. /\ Alone({OrderCheck(t)}, toRisk)' /\ Alone(Replies(t), fromRisk)'
          /\ Alone({OrderLine(t)}, toBridge)'
      BY <1>2 DEF BesideBridge, NoNewCheck, NoNewReply, NoNewLine, NoNew, Reserved, OnePlace
    <3>6. OnePlace(t)'
      BY <1>2, <3>2, <3>3, <3>4, <3>5 DEF OnePlace
    <3>7. ASSUME OwnNumber(t)' PROVE Bound(t)'
      <4>1. \A q \in Refs \ {r} : counter[q].used => q < r
        BY <1>3, NamesAssumption DEF RefsOK
      <4>2. \A q \in Refs \ {r} : counter'[q].used => counter'[q].seq # n
        BY <2>1, <2>8, <3>7, <4>1 DEF OwnNumber
      <4>3. Bound(t)
        BY <3>1 DEF Quiet, QuietCounter
      <4> QED
        BY <1>3, <2>1, <2>6, <2>8, <4>2, <4>3 DEF Bound
    <3>8. OwnNumber(t)' => Quiet(t)'
      BY <2>4, <2>5, <3>1, <3>7 DEF BesideBridge, Quiet
    <3> QED
      BY <3>1, <3>6, <3>8, Moved DEF BesideBridge
  <2> QED
    BY <2>7, <2>8
<1>4. ASSUME NEW n \in Numbers, remembered' = [remembered EXCEPT ![n] = u],
             Publish(<<RejectLine(u)>>), UNCHANGED <<counter, callbacks>>
      PROVE  Reserved(t)'
  <2>1. RejectLine(u) \in Messages /\ RejectLine(u).token = u
    BY <1>1, MessageTypes DEF RejectLine, StatusLine
  <2>2. NoNewOrder(t)
    BY <1>2, <1>4 DEF NoNewOrder, Arrived, LiveAt, Live, OwnNumber
  <2>3. CASE u # t
    <3>1. QuietLink(t) => QuietLink(t)'
      BY <1>4, <2>1, <2>3, PublishLink DEF Ends
    <3>2. /\ UNCHANGED <<refContext, journal>>
          /\ remembered'[n] = u /\ \A m \in Numbers \ {n} : remembered'[m] = remembered[m]
      BY <1>4 DEF BridgeSend, TypeInv, BridgeOK
    <3>3. Bound(t) => Bound(t)'
      BY <1>4, <2>3, <3>2 DEF Bound
    <3>4. QuietCounter(t) => QuietCounter(t)'
      BY <1>4, <3>3 DEF QuietCounter, Ended
    <3> QED
      BY <1>2, <2>2, <3>1, <3>4, SameOrderReserved DEF SameOrder
  <2>4. CASE u = t
    <3>1. Fewer(t)
      BY <1>2, <2>2 DEF BesideBridge, Fewer
    <3>2. ~Checked(t) /\ ~Replied(t) /\ ~Lined(t) /\ ~Arrived(t)
      BY <1>2, <2>4 DEF Reserved, OnePlace
    <3>3. ~Checked(t)' /\ ~Replied(t)' /\ ~Lined(t)' /\ ~LiveAt(t)'
      <4>1. Checked(t)' => Checked(t)
        BY <3>1 DEF Fewer, NoNewCheck, NoNew, Checked
      <4>2. Replied(t)' => Replied(t)
        BY <3>1 DEF Fewer, NoNewReply, NoNew, Replied
      <4>3. Lined(t)' => Lined(t)
        BY <3>1 DEF Fewer, NoNewLine, NoNew, Lined
      <4>4. LiveAt(t) => Arrived(t)
        BY DEF LiveAt, Live, Arrived
      <4> QED
        BY <2>2, <3>2, <4>1, <4>2, <4>3, <4>4 DEF NoNewOrder
    <3>4. Coming(t) /\ ~Coming(t)'
      BY <1>2, <2>4, <3>3 DEF Coming
    <3> QED
      BY <3>1, <3>4, FewerReserved DEF BesideBridge
  <2> QED
    BY <2>3, <2>4
<1> QED
  BY <1>3, <1>4 DEF BridgeSend, u

LEMMA LiveOrEnded == LiveStatuses \cap TerminalStatuses = {}
BY DEF LiveStatuses, TerminalStatuses

\* An order that ends is of a token at no other place, and of no other order.
LEMMA CounterMovesReserved ==
  ASSUME TypeInv, RefsOK, OnceInv, NEW t \in Tokens, NEW r \in Refs, BesideBridge(t),
         CounterMoves(r), Reserved(t)
  PROVE  Reserved(t)'
<1> DEFINE u == counter[r].token
           n == counter[r].seq
<1>1. PICK s \in Statuses :
        /\ counter[r].status \in LiveStatuses
        /\ counter' = [counter EXCEPT ![r].status = s]
        /\ CallBack(<<Callback(r, n, s)>>)
  BY DEF CounterMoves, Moves, CancelMoves, LiveStatuses
<1>2. /\ counter[r].used /\ counter[r] \in Orders
      /\ UNCHANGED <<toBridge, fromBridge, command, refContext, remembered, journal>>
  BY DEF CounterMoves, TypeInv, BridgeOK, NoOrder, linkVars
<1>3. /\ counter'[r].used = TRUE /\ counter'[r].token = u /\ counter'[r].status = s
      /\ counter'[r].seq = n
      /\ \A q \in Refs \ {r} : counter'[q] = counter[q]
  BY <1>1, <1>2 DEF TypeInv, BridgeOK, Orders
<1>4. Live(r)
  BY <1>1, <1>2 DEF Live
<1>5. \A c \in Members(callbacks') :
        (c \in Members(callbacks) /\ c.ref \in Refs) \/ c = Callback(r, n, s)
  <2>1. n \in Numbers \cup {0}
    BY <1>2 DEF Orders
  <2>2. <<Callback(r, n, s)>> \in Seq(CallbackRecords)
    BY <2>1, CallbackType
  <2> QED
    BY <1>1, <2>2, CallBackMembers, SmallMembers, CallbackMember
<1> HIDE DEF u
<1>6. NoNewLine(t) /\ (QuietLink(t) => QuietLink(t)') /\ (Sent(t)' => Sent(t))
  BY <1>2, UnchangedQuiet DEF Sent
<1>7. \A q \in Refs : /\ counter'[q].used = counter[q].used
                      /\ counter'[q].token = counter[q].token /\ counter'[q].seq = counter[q].seq
  BY <1>2, <1>3 DEF u, Orders
<1> HIDE DEF n
<1>8. Arrived(t)' => Arrived(t)
  BY <1>7 DEF Arrived
<1>9. LiveAt(t)' => LiveAt(t)
  <2>1. \A q \in Refs : Live(q)' => Live(q)
    BY <1>3, <1>4 DEF Live
  <2> QED
    BY <1>7, <2>1 DEF LiveAt
<1>10. NoNewOrder(t) /\ (Bound(t) => Bound(t)')
  BY <1>2, <1>6, <1>7, <1>8, <1>9, BoundKept DEF NoNewOrder, OwnNumber
<1>11. CASE u # t \/ s \notin TerminalStatuses
  <2>1. \A c \in Members(callbacks') :
          c.status \in TerminalStatuses
            => (c \in Members(callbacks) /\ c.ref \in Refs) \/ counter'[c.ref].token # t
    BY <1>3, <1>5, <1>11 DEF Callback
  <2>2. \A q \in Refs : Ended(q)' => Ended(q) \/ counter'[q].token # t
    BY <1>3, <1>11 DEF Ended
  <2>3. QuietCounter(t) => QuietCounter(t)'
    BY <1>7, <1>10, <2>1, <2>2 DEF QuietCounter
  <2> QED
    BY <1>6, <1>10, <2>3, SameOrderReserved DEF SameOrder
<1>12. CASE u = t /\ s \in TerminalStatuses
  <2>1. LiveAt(t) /\ Arrived(t)
    BY <1>2, <1>4, <1>12 DEF LiveAt, Arrived, u
  <2>2. ~Checked(t) /\ ~Replied(t) /\ ~Lined(t) /\ ~Sent(t)
    BY <2>1 DEF Reserved, OnePlace
  <2>3. Fewer(t)
    BY <1>6, <1>10 DEF BesideBridge, Fewer
  <2>4. ~LiveAt(t)'
    <3>1. \A q \in Refs : counter[q].used /\ counter[q].token = t => q = r
      BY <1>2, <1>12 DEF OnceInv, OnceAtCounter, u
    <3>2. ~Live(r)'
      BY <1>3, <1>12, LiveOrEnded DEF Live
    <3> QED
      BY <1>7, <3>1, <3>2 DEF LiveAt, Live
  <2>5. ~Checked(t)' /\ ~Replied(t)' /\ ~Lined(t)' /\ ~Sent(t)'
    <3>1. Checked(t)' => Checked(t)
      BY <2>3 DEF Fewer, NoNewCheck, NoNew, Checked
    <3>2. Replied(t)' => Replied(t)
      BY <2>3 DEF Fewer, NoNewReply, NoNew, Replied
    <3>3. Lined(t)' => Lined(t)
      BY <2>3 DEF Fewer, NoNewLine, NoNew, Lined
    <3> QED
      BY <1>6, <2>2, <3>1, <3>2, <3>3
  <2>6. Coming(t) /\ ~Coming(t)'
    BY <2>1, <2>4, <2>5 DEF Coming
  <2> QED
    BY <2>3, <2>6, FewerReserved DEF BesideBridge
<1> QED
  BY <1>11, <1>12

\* A break, a restart of the bridge or the session lose, they add nothing.
LEMMA SessionSame ==
  ASSUME TypeInv, NEW t \in Tokens, SessionCloses \/ SessionRecovers
  PROVE  SameOrder(t)
<1>1. /\ UNCHANGED <<toBridge, command, counter, refContext, remembered, journal>>
      /\ callbacks' \in {<<>>, callbacks}
  BY DEF SessionCloses, SessionRecovers
<1>2. PICK b \in BOOLEAN : Publish(<<LoginLine(b)>>)
  BY DEF SessionCloses, SessionRecovers
<1>3. QuietLink(t) => QuietLink(t)'
  BY <1>2, LoginQuiet
<1>4. \A c \in Members(callbacks') : c \in Members(callbacks)
  BY <1>1, SmallMembers
<1>5. QuietCounter(t) => QuietCounter(t)'
  BY <1>1, <1>4, BoundKept DEF QuietCounter, Ended
<1> QED
  BY <1>1, <1>3, <1>5, UnchangedQuiet DEF SameOrder

LEMMA LinkBreaksSame ==
  ASSUME TypeInv, NEW t \in Tokens, LinkBreaks, UNCHANGED bridgeVars
  PROVE  SameOrder(t)
<1>1. toBridge' \in Prefixes(toBridge) /\ fromBridge' \in Prefixes(fromBridge)
  BY DEF LinkBreaks
<1>2. NoNewLine(t)
  BY <1>1, PartMembers DEF NoNewLine, TypeInv, LinkOK
<1>3. \A m : m \in Members(fromBridge') => m \in Members(fromBridge)
  BY <1>1, PartMembers DEF TypeInv, LinkOK
<1> QED
  BY <1>2, <1>3, UnchangedQuiet DEF SameOrder, QuietLink, bridgeVars

LEMMA BridgeRestartSame ==
  ASSUME TypeInv, NEW t \in Tokens, BridgeRestart
  PROVE  SameOrder(t)
<1>1. /\ toBridge' = <<>> /\ fromBridge' \in Prefixes(fromBridge) /\ callbacks' = <<>>
      /\ command' = NoCommand /\ UNCHANGED <<counter, journal>>
      /\ refContext' = journal.refs /\ remembered' = NoneRemembered
  BY DEF BridgeRestart
<1>2. NoNewLine(t)
  BY <1>1, SmallMembers DEF NoNewLine
<1>3. \A m : m \in Members(fromBridge') => m \in Members(fromBridge)
  BY <1>1, PartMembers DEF TypeInv, LinkOK
<1>4. QuietLink(t) => QuietLink(t)'
  BY <1>3 DEF QuietLink
<1>5. QuietCounter(t) => QuietCounter(t)'
  BY <1>1, SmallMembers, BoundKept DEF QuietCounter, Ended, NoneRemembered
<1>6. NoNewOrder(t)
  BY <1>1 DEF NoNewOrder, Sent, Sending, NoCommand, Arrived, LiveAt, Live, OwnNumber
<1> QED
  BY <1>2, <1>4, <1>5, <1>6 DEF SameOrder

BridgeUntouched(t) == NoNewOrder(t) /\ (QuietCounter(t) => QuietCounter(t)')

LEMMA BridgeUntouchedSteps ==
  ASSUME NEW t \in Tokens, UNCHANGED bridgeVars
  PROVE  BridgeUntouched(t)
BY UnchangedQuiet DEF BridgeUntouched, bridgeVars

\* The check of a token whose order was requested for the first time.
LEMMA RequestReserved ==
  ASSUME TypeInv, BoundsOK, MaxRequests <= 1, NEW t \in Tokens \ Unchecked, NEW u \in Tokens,
         HandleOrderRequest(u), Reserved(t)
  PROVE  Reserved(t)'
<1>1. /\ NoNewReply(t) /\ UNCHANGED held /\ BridgeUntouched(t) /\ UNCHANGED fromRisk
      /\ requested' = [requested EXCEPT ![u] = @ + 1]
      /\ requested[u] < MaxRequests
      /\ UNCHANGED bridgeVars
  BY UnchangedQuiet, BridgeUntouchedSteps DEF HandleOrderRequest
<1>2. CASE u # t
  <2>1. requested'[t] = requested[t]
    BY <1>1, <1>2 DEF BoundsOK
  <2>2. CASE toRisk' = Append(toRisk, OrderCheck(u)) /\ UNCHANGED <<linkVars, gatewayVars>>
    <3>1. /\ OrderCheck(u) \in RiskInputs /\ OrderCheck(u) # OrderCheck(t)
          /\ OrderCheck(u).type # "status"
      BY <1>2, RiskTypes DEF OrderCheck
    <3>2. /\ NoNewCheck(t)
          /\ \A m : m \in Members(toRisk') <=> m \in Members(toRisk) \/ m = OrderCheck(u)
      BY <2>2, <3>1, AppendMembers DEF NoNewCheck, TypeInv, RiskOK
    <3>3. QuietRisk(t) => QuietRisk(t)'
      BY <3>1, <3>2 DEF QuietRisk
    <3>4. /\ NoNewLine(t) /\ (QuietLink(t) => QuietLink(t)')
          /\ QuietGateway(t) => QuietGateway(t)'
      BY <2>2, UnchangedQuiet DEF linkVars, gatewayVars
    <3> QED
      BY <1>1, <2>1, <3>2, <3>3, <3>4, FewerReserved DEF Fewer, Quiet, BridgeUntouched
  <2>3. CASE ReqInsertOrder(u) /\ UNCHANGED toRisk
    <3>1. NoNewCheck(t) /\ (QuietRisk(t) => QuietRisk(t)')
      BY <2>3, UnchangedQuiet
    <3>2. /\ NoNewLine(t) /\ (QuietLink(t) => QuietLink(t)')
          /\ QuietGateway(t) => QuietGateway(t)'
      BY <1>2, <2>3, InsertQuiet, UnchangedQuiet
    <3> QED
      BY <1>1, <2>1, <3>1, <3>2, FewerReserved DEF Fewer, Quiet, BridgeUntouched
  <2> QED
    BY <2>2, <2>3 DEF HandleOrderRequest
<1>3. CASE u = t
  <2>1. requested[t] \in Nat /\ MaxRequests \in Nat
    BY FaultsAssumption DEF BoundsOK
  <2>2. requested[t] = 0
    BY <1>1, <1>3, <2>1
  <2>3. requested'[t] = 1
    BY <1>1, <1>3, <2>2 DEF BoundsOK
  <2>4. toRisk' = Append(toRisk, OrderCheck(t)) /\ UNCHANGED <<linkVars, gatewayVars>>
    BY <1>3 DEF HandleOrderRequest
  <2>5. ~Coming(t) /\ ~Arrived(t) /\ Quiet(t)
    BY <2>2, NotArrived DEF Reserved
  <2>6. OrderCheck(t) \in RiskInputs /\ OrderCheck(t).type # "status"
    BY RiskTypes DEF OrderCheck
  <2>7. /\ \A m : m \in Members(toRisk') <=> m \in Members(toRisk) \/ m = OrderCheck(t)
        /\ Alone({OrderCheck(t)}, toRisk')
    BY <2>4, <2>5, <2>6, AppendMembers DEF TypeInv, RiskOK, Coming, Checked
  <2>8. Quiet(t)'
    <3>1. QuietRisk(t)'
      BY <2>5, <2>6, <2>7 DEF Quiet, QuietRisk
    <3>2. QuietGateway(t)' /\ QuietLink(t)' /\ QuietCounter(t)'
      BY <1>1, <2>4, <2>5, UnchangedQuiet DEF Quiet, BridgeUntouched, linkVars, gatewayVars
    <3> QED
      BY <3>1, <3>2 DEF Quiet
  <2>9. ~Replied(t)' /\ ~Lined(t)' /\ ~Sent(t)' /\ ~Arrived(t)' /\ ~LiveAt(t)'
    <3>1. ~Replied(t)'
      BY <1>1, <2>5 DEF Coming, Replied
    <3>2. ~Lined(t)'
      BY <2>4, <2>5 DEF Coming, Lined, linkVars
    <3> QED
      BY <1>1, <2>5, <3>1, <3>2 DEF BridgeUntouched, NoNewOrder, Coming
  <2>10. /\ Alone(Replies(t), fromRisk)' /\ Alone({OrderLine(t)}, toBridge)'
    BY <1>1, <2>4 DEF linkVars, Reserved, OnePlace
  <2>11. OnePlace(t)'
    BY <2>7, <2>9, <2>10 DEF OnePlace
  <2>12. ~OnTheWay(t)'
    <3>1. OrderReply(t, TRUE) \in Replies(t)
      BY DEF Replies
    <3>2. OrderReply(t, TRUE) \notin Members(fromRisk)'
      BY <2>9, <3>1 DEF Replied
    <3> QED
      BY <2>9, <3>2 DEF OnTheWay, Members, Lined, Sent, LiveAt
  <2> QED
    BY <2>3, <2>8, <2>11, <2>12, Moved
<1> QED
  BY <1>2, <1>3

LEMMA CancelRequestReserved ==
  ASSUME TypeInv, NEW t \in Tokens, NEW r \in Refs, HandleActionRequest(r), Reserved(t)
  PROVE  Reserved(t)'
<1>1. NoNewReply(t) /\ UNCHANGED <<held, requested>> /\ BridgeUntouched(t)
  BY UnchangedQuiet, BridgeUntouchedSteps DEF HandleActionRequest
<1>2. CASE toRisk' = Append(toRisk, CancelCheck(r)) /\ UNCHANGED <<linkVars, gatewayVars>>
  <2>1. /\ CancelCheck(r) \in RiskInputs /\ CancelCheck(r) # OrderCheck(t)
        /\ CancelCheck(r).type # "status"
    BY RiskTypes DEF CancelCheck, OrderCheck
  <2>2. /\ NoNewCheck(t)
        /\ \A m : m \in Members(toRisk') <=> m \in Members(toRisk) \/ m = CancelCheck(r)
    BY <1>2, <2>1, AppendMembers DEF NoNewCheck, TypeInv, RiskOK
  <2>3. QuietRisk(t) => QuietRisk(t)'
    BY <2>1, <2>2 DEF QuietRisk
  <2>4. /\ NoNewLine(t) /\ (QuietGateway(t) => QuietGateway(t)') /\ (QuietLink(t) => QuietLink(t)')
    BY <1>2, UnchangedQuiet DEF linkVars, gatewayVars
  <2> QED
    BY <1>1, <2>2, <2>3, <2>4, FewerReserved DEF Fewer, Quiet, BridgeUntouched
<1>3. CASE ReqCancelOrder(r) /\ UNCHANGED toRisk
  <2>1. NoNewCheck(t) /\ (QuietRisk(t) => QuietRisk(t)')
    BY <1>3, UnchangedQuiet
  <2>2. /\ NoNewLine(t) /\ (QuietGateway(t) => QuietGateway(t)') /\ (QuietLink(t) => QuietLink(t)')
    BY <1>3, CancelQuiet, UnchangedQuiet
  <2> QED
    BY <1>1, <2>1, <2>2, FewerReserved DEF Fewer, Quiet, BridgeUntouched
<1> QED
  BY <1>2, <1>3 DEF HandleActionRequest

LEMMA OrderReplyIs ==
  ASSUME NEW m \in RiskOutputs, m.type = "order"
  PROVE  m \in Replies(m.token) /\ m = OrderReply(m.token, m.pass) /\ m.pass \in BOOLEAN
BY DEF RiskOutputs, Replies, OrderReply, CancelReply

\* The answer of the risk engine becomes a line, a rejection, or neither.
LEMMA ResponseReserved ==
  ASSUME TypeInv, NEW t \in Tokens, HandleRiskResponse, Reserved(t)
  PROVE  Reserved(t)'
<1> DEFINE m == Head(fromRisk)
<1>1. /\ NoNewCheck(t) /\ UNCHANGED <<held, requested>> /\ BridgeUntouched(t)
      /\ QuietRisk(t) => QuietRisk(t)'
      /\ UNCHANGED bridgeVars
      /\ SendRequest(m)
  BY UnchangedQuiet, BridgeUntouchedSteps DEF HandleRiskResponse, boundVars
<1>2. /\ m \in RiskOutputs /\ m \in Members(fromRisk)
      /\ NoNewReply(t)
      /\ m \in Replies(t) => ~Replied(t)'
  <2>1. fromRisk \in Seq(RiskOutputs) /\ fromRisk # <<>> /\ fromRisk' = Tail(fromRisk)
    BY DEF HandleRiskResponse, TypeInv, RiskOK
  <2>2. Alone(Replies(t), fromRisk)
    BY DEF Reserved, OnePlace
  <2>3. /\ m \in Members(fromRisk)
        /\ NoNew(Replies(t), fromRisk, Tail(fromRisk))
        /\ m \in Replies(t) => \A x \in Replies(t) : x \notin Members(Tail(fromRisk))
    BY <2>1, <2>2, TailMembers
  <2>4. m \in RiskOutputs
    BY <2>1, TailType
  <2> QED
    BY <2>1, <2>3, <2>4 DEF NoNewReply, Replied, Replies
<1> HIDE DEF m
<1>3. ASSUME NoNewLine(t), UNCHANGED fromBridge,
             Coming(t)' \/ ~Coming(t) => (QuietGateway(t) => QuietGateway(t)')
      PROVE  Reserved(t)'
  <2>1. QuietLink(t) => QuietLink(t)'
    BY <1>3, UnchangedQuiet
  <2> QED
    BY <1>1, <1>2, <1>3, <2>1, FewerReserved DEF Fewer, Quiet, BridgeUntouched
<1>4. CASE m.type = "cancel"
  <2>1. m.ref \in Refs
    BY <1>2, <1>4, RiskTypes
  <2> QED
    BY <1>1, <1>3, <1>4, <2>1, CancelQuiet, CancelRejectedQuiet DEF SendRequest
<1>5. CASE m.type = "order" /\ m.token # t
  <2>1. m.token \in Tokens
    BY <1>2, <1>5, RiskTypes
  <2>2. CASE PublishRejected(m.token)
    BY <1>3, <1>5, <2>1, <2>2, PublishRejectedQuiet, UnchangedQuiet DEF PublishRejected, linkVars
  <2>3. CASE ReqInsertOrder(m.token)
    BY <1>3, <1>5, <2>1, <2>3, InsertQuiet
  <2> QED
    BY <1>1, <1>5, <2>2, <2>3 DEF SendRequest
<1>6. CASE m.type = "order" /\ m.token = t
  <2>1. m \in Replies(t) /\ m = OrderReply(t, m.pass) /\ Replied(t) /\ ~Replied(t)'
    BY <1>2, <1>6, OrderReplyIs DEF Replied
  <2>2. ~Checked(t) /\ ~Lined(t) /\ ~Sent(t) /\ ~Arrived(t) /\ Quiet(t) /\ requested[t] # 0
    BY <2>1, NotArrived DEF Reserved, OnePlace, Coming
  <2>3. ~Checked(t)' /\ ~Sent(t)' /\ ~Arrived(t)' /\ ~LiveAt(t)'
    <3>1. Checked(t)' => Checked(t)
      BY <1>1 DEF NoNewCheck, NoNew, Checked
    <3>2. LiveAt(t) => Arrived(t)
      BY DEF LiveAt, Live, Arrived
    <3> QED
      BY <1>1, <2>2, <3>1, <3>2 DEF BridgeUntouched, NoNewOrder
  <2>4. CASE UNCHANGED <<toBridge, fromBridge>>
    <3>1. NoNewLine(t) /\ ~Lined(t)'
      BY <2>2, <2>4, UnchangedQuiet DEF Lined
    <3>2. Coming(t) /\ ~Coming(t)'
      BY <2>1, <2>3, <3>1 DEF Coming
    <3> QED
      BY <1>3, <2>4, <3>1, <3>2
  <2>5. CASE /\ m.pass /\ socket = "open" /\ SendLine(OrderLine(t))
             /\ UNCHANGED <<reports, thread, fromBridge, orderStatus, preCancel>>
    <3>1. t \in held
      BY <1>2, <2>1, <2>2, <2>5, OnTheWayPlaces, OrderReplyIs, NotArrived
    <3>2. Quiet(t)'
      BY <1>1, <2>2, <2>5, UnchangedQuiet DEF Quiet, BridgeUntouched
    <3>3. Alone({OrderLine(t)}, toBridge')
      BY <2>2, <2>5, CommandTypes, AppendMembers DEF SendLine, Lined, TypeInv, LinkOK
    <3>4. /\ Alone({OrderCheck(t)}, toRisk)' /\ Alone(Replies(t), fromRisk)'
      BY <1>1, <1>2 DEF NoNewCheck, NoNewReply, NoNew, Reserved, OnePlace
    <3>5. OnePlace(t)'
      BY <2>1, <2>3, <3>3, <3>4 DEF OnePlace
    <3> QED
      BY <1>1, <2>2, <3>1, <3>2, <3>5, Moved
  <2> QED
    <3>1. PublishRejected(t) => UNCHANGED <<toBridge, fromBridge>>
      BY DEF PublishRejected, linkVars
    <3>2. SendRequest(m) => (m.pass /\ ReqInsertOrder(t)) \/ PublishRejected(t)
      BY <1>6 DEF SendRequest
    <3>3. CASE m.pass /\ ReqInsertOrder(t)
      BY <2>4, <2>5, <3>1, <3>3 DEF ReqInsertOrder, SendLine
    <3> QED
      BY <1>1, <2>4, <3>1, <3>2, <3>3
<1>7. m.type \in {"order", "cancel"}
  BY <1>1 DEF SendRequest
<1> QED
  BY <1>4, <1>5, <1>6, <1>7

LEMMA ReportReserved ==
  ASSUME TypeInv, NEW t \in Tokens, HandleExecuteReport, Reserved(t)
  PROVE  Reserved(t)'
<1> DEFINE m == Head(reports)
<1>1. /\ m \in OrderReports /\ m \in Members(reports)
      /\ \A x : x \in Members(reports') => x \in Members(reports)
      /\ toRisk' = Append(toRisk, StatusForRisk(m))
  BY TailType, TailMembers DEF HandleExecuteReport, TypeInv, GatewayInv, GatewayOK
<1>2. /\ UNCHANGED <<thread, orderStatus, preCancel, held, requested>> /\ BridgeUntouched(t)
      /\ NoNewReply(t) /\ NoNewLine(t) /\ (QuietLink(t) => QuietLink(t)')
  BY UnchangedQuiet, BridgeUntouchedSteps DEF HandleExecuteReport, linkVars, boundVars
<1> HIDE DEF m
<1>3. /\ StatusForRisk(m) \in RiskInputs /\ StatusForRisk(m) # OrderCheck(t)
      /\ StatusForRisk(m).report = m
  BY <1>1, RiskTypes DEF StatusForRisk, OrderCheck
<1>4. /\ NoNewCheck(t)
      /\ \A x : x \in Members(toRisk') <=> x \in Members(toRisk) \/ x = StatusForRisk(m)
  BY <1>1, <1>3, AppendMembers DEF NoNewCheck, TypeInv, RiskOK
<1>5. QuietGateway(t) => ~Ends(m, t)
  BY <1>1 DEF QuietGateway
<1>6. QuietGateway(t) /\ QuietRisk(t) => QuietRisk(t)'
  BY <1>3, <1>4, <1>5 DEF QuietRisk
<1>7. QuietGateway(t) => QuietGateway(t)'
  BY <1>1, <1>2 DEF QuietGateway
<1> QED
  BY <1>2, <1>4, <1>6, <1>7, FewerReserved DEF Fewer, Quiet, BridgeUntouched

LEMMA OrderCheckIs ==
  ASSUME NEW m \in RiskInputs, m.type = "order"
  PROVE  m = OrderCheck(m.token)
BY DEF RiskInputs, OrderCheck, CancelCheck, StatusForRisk

LEMMA AnswerNew ==
  ASSUME TypeInv, NEW t \in Tokens, NEW m \in RiskOutputs, Answer(m)
  PROVE  /\ m \notin Replies(t) => NoNewReply(t)
         /\ \A x : x \in Members(fromRisk') => x \in Members(fromRisk) \/ x = m
         /\ ~Replied(t) => Alone(Replies(t), fromRisk')
<1>1. fromRisk \in Seq(RiskOutputs)
  BY DEF TypeInv, RiskOK
<1>2. CASE fromRisk' = Append(fromRisk, m)
  <2>1. /\ m \notin Replies(t) => NoNew(Replies(t), fromRisk, Append(fromRisk, m))
        /\ \A x : x \in Members(Append(fromRisk, m)) => x \in Members(fromRisk) \/ x = m
        /\ (\A x \in Replies(t) : x \notin Members(fromRisk))
             => Alone(Replies(t), Append(fromRisk, m))
    BY <1>1, AppendMembers
  <2> QED
    BY <1>2, <2>1 DEF NoNewReply, Replied
<1>3. CASE UNCHANGED fromRisk
  <2>1. (\A x \in Replies(t) : x \notin Members(fromRisk)) => Alone(Replies(t), fromRisk)
    BY DEF Alone, Members
  <2> QED
    BY <1>3, <2>1, UnchangedQuiet DEF Replied
<1> QED
  BY <1>2, <1>3 DEF Answer

LEMMA RiskReserved ==
  ASSUME TypeInv, NEW t \in Tokens, RiskHandlesMessage, Reserved(t)
  PROVE  Reserved(t)'
<1> DEFINE m == Head(toRisk)
<1>1. /\ UNCHANGED requested /\ BridgeUntouched(t) /\ NoNewLine(t)
      /\ QuietLink(t) => QuietLink(t)'
      /\ QuietGateway(t) => QuietGateway(t)'
      /\ UNCHANGED <<toBridge, command, counter>>
  BY UnchangedQuiet, BridgeUntouchedSteps
     DEF RiskHandlesMessage, linkVars, gatewayVars, boundVars, bridgeVars
<1>2. /\ m \in RiskInputs /\ m \in Members(toRisk) /\ NoNewCheck(t)
      /\ \A x : x \in Members(toRisk') => x \in Members(toRisk)
      /\ m = OrderCheck(t) => ~Checked(t)'
  <2>1. toRisk \in Seq(RiskInputs) /\ toRisk # <<>> /\ toRisk' = Tail(toRisk)
    BY DEF RiskHandlesMessage, TypeInv, RiskOK
  <2>2. Alone({OrderCheck(t)}, toRisk)
    BY DEF Reserved, OnePlace
  <2>3. /\ m \in Members(toRisk)
        /\ NoNew({OrderCheck(t)}, toRisk, Tail(toRisk))
        /\ \A x : x \in Members(Tail(toRisk)) => x \in Members(toRisk)
        /\ m \in {OrderCheck(t)} => \A x \in {OrderCheck(t)} : x \notin Members(Tail(toRisk))
    BY <2>1, <2>2, TailMembers
  <2>4. m \in RiskInputs
    BY <2>1, TailType
  <2> QED
    BY <2>1, <2>3, <2>4 DEF NoNewCheck, Checked
<1>3. QuietRisk(t) => QuietRisk(t)'
  BY <1>2 DEF QuietRisk
<1>4. Quiet(t) => Quiet(t)'
  BY <1>1, <1>3 DEF Quiet, BridgeUntouched
<1>5. \/ m.type = "order"  /\ RiskOrder(m.token)
      \/ m.type = "cancel" /\ RiskCancel(m.ref)
      \/ m.type = "status" /\ RiskStatus(m.report)
  BY DEF RiskHandlesMessage
<1> HIDE DEF m
<1>6. ASSUME NoNewReply(t), Quiet(t) /\ t \in held => t \in held'
      PROVE  Reserved(t)'
  BY <1>1, <1>2, <1>4, <1>6, FewerReserved DEF Fewer, BridgeUntouched
<1>7. CASE m.type = "cancel" /\ RiskCancel(m.ref)
  <2>1. PICK b \in BOOLEAN : Answer(CancelReply(m.ref, b))
    BY <1>7 DEF RiskCancel
  <2>2. CancelReply(m.ref, b) \in RiskOutputs /\ CancelReply(m.ref, b) \notin Replies(t)
    BY <1>2, <1>7, RiskTypes DEF CancelReply, Replies, OrderReply
  <2> QED
    BY <1>6, <1>7, <2>1, <2>2, AnswerNew DEF RiskCancel
<1>8. CASE m.type = "status" /\ RiskStatus(m.report)
  <2>1. NoNewReply(t)
    BY <1>8, UnchangedQuiet DEF RiskStatus
  <2>2. QuietRisk(t) => ~Ends(m.report, t)
    BY <1>2, <1>8 DEF QuietRisk
  <2>3. Quiet(t) /\ t \in held => t \in held'
    BY <1>8, <2>2 DEF Quiet, RiskStatus, Ends
  <2> QED
    BY <1>6, <2>1, <2>3
<1>9. CASE m.type = "order" /\ RiskOrder(m.token)
  <2> DEFINE u == m.token
  <2>1. u \in Tokens /\ m = OrderCheck(u)
    BY <1>2, <1>9, RiskTypes, OrderCheckIs
  <2>2. PICK b \in BOOLEAN : /\ Answer(OrderReply(u, b))
                             /\ held \subseteq held' /\ (b => u \in held')
    BY <1>9 DEF RiskOrder
  <2> HIDE DEF u
  <2>3. OrderReply(u, b) \in RiskOutputs /\ OrderReply(u, b).token = u /\ OrderReply(u, b).pass = b
    BY <2>1, RiskTypes DEF OrderReply
  <2>4. CASE u # t
    <3>1. OrderReply(u, b) \notin Replies(t)
      BY <2>3, <2>4 DEF Replies, OrderReply
    <3> QED
      BY <1>6, <2>2, <2>3, <3>1, AnswerNew
  <2>5. CASE u = t
    <3>1. Checked(t) /\ ~Checked(t)'
      BY <1>2, <2>1, <2>5 DEF Checked
    <3>2. /\ ~Replied(t) /\ ~Lined(t) /\ ~Sent(t) /\ ~Arrived(t)
          /\ Quiet(t) /\ requested[t] # 0
      BY <3>1, NotArrived DEF Reserved, OnePlace, Coming
    <3>3. ~Lined(t)' /\ ~Sent(t)' /\ ~Arrived(t)' /\ ~LiveAt(t)'
      BY <1>1, <3>2 DEF Lined, Sent, Arrived, LiveAt, Live
    <3>4. /\ Alone({OrderCheck(t)}, toRisk)' /\ Alone({OrderLine(t)}, toBridge)'
      BY <1>1, <1>2 DEF NoNewCheck, NoNewLine, NoNew, Reserved, OnePlace
    <3>5. Alone(Replies(t), fromRisk')
      BY <2>2, <2>3, <3>2, AnswerNew
    <3>6. OnePlace(t)'
      BY <3>1, <3>3, <3>4, <3>5 DEF OnePlace
    <3>7. OnTheWay(t)' => t \in held'
      <4>1. OnTheWay(t)' => OrderReply(t, TRUE) \in Members(fromRisk')
        BY <3>3 DEF OnTheWay, Members, Lined, Sent, LiveAt
      <4>2. OrderReply(t, TRUE) \notin Members(fromRisk)
        BY <3>2 DEF Replied, Replies
      <4>3. OrderReply(t, TRUE) \in Members(fromRisk') => OrderReply(t, TRUE) = OrderReply(u, b)
        BY <2>2, <2>3, <4>2, AnswerNew
      <4>4. OrderReply(t, TRUE) = OrderReply(u, b) => b
        BY <2>3 DEF OrderReply
      <4> QED
        BY <2>2, <2>5, <4>1, <4>3, <4>4
    <3> QED
      BY <1>1, <1>4, <3>2, <3>6, <3>7, Moved
  <2> QED
    BY <2>4, <2>5
<1> QED
  BY <1>5, <1>7, <1>8, <1>9

LEMMA TraderRestartsReserved ==
  ASSUME TypeInv, NEW t \in Tokens, TraderRestarts, Reserved(t)
  PROVE  Reserved(t)'
<1>1. /\ toRisk' \in Prefixes(toRisk) /\ fromRisk' \in Suffixes(fromRisk)
      /\ toBridge' \in Prefixes(toBridge) /\ fromBridge' = <<>> /\ reports' = <<>>
      /\ orderStatus' = [r \in Refs |-> Unknown] /\ preCancel' = [r \in Refs |-> Unknown]
      /\ thread' = [th \in Threads |-> Idle]
      /\ UNCHANGED held /\ UNCHANGED bridgeVars
  BY DEF TraderRestarts, GatewayRestart
<1>2. /\ NoNewCheck(t) /\ NoNewReply(t) /\ NoNewLine(t)
      /\ \A m : m \in Members(toRisk') => m \in Members(toRisk)
  BY <1>1, PartMembers DEF NoNewCheck, NoNewReply, NoNewLine, TypeInv, RiskOK, LinkOK
<1>3. requested' = requested
  BY DEF TraderRestarts, Fault, boundVars
<1>4. QuietRisk(t) => QuietRisk(t)'
  BY <1>2 DEF QuietRisk
<1>5. QuietLink(t)'
  BY <1>1, SmallMembers DEF QuietLink
<1>6. QuietGateway(t)'
  BY <1>1, SmallMembers DEF QuietGateway, Unknown, Idle
<1> QED
  BY <1>1, <1>2, <1>3, <1>4, <1>5, <1>6, FewerReserved, BridgeUntouchedSteps
     DEF Fewer, Quiet, BridgeUntouched

LEMMA ConnectsReserved ==
  ASSUME TypeInv, NEW t \in Tokens, GatewayConnects, Reserved(t)
  PROVE  Reserved(t)'
<1>1. /\ fromBridge' = <<LoginLine(TRUE)>> /\ UNCHANGED <<toBridge, gatewayVars, riskVars, boundVars>>
      /\ UNCHANGED bridgeVars
  BY DEF GatewayConnects, Connect
<1>2. QuietLink(t)'
  BY <1>1, SmallMembers DEF QuietLink, LoginLine
<1>3. SameOrder(t)
  BY <1>1, <1>2, UnchangedQuiet DEF SameOrder, bridgeVars
<1> QED
  BY <1>1, <1>3, BesideBridgeSteps, SameOrderReserved

LEMMA BoundsStep ==
  ASSUME BoundsOK, [Next]_vars
  PROVE  BoundsOK'
<1>1. ASSUME NEW k \in FaultKinds, Fault(k) PROVE BoundsOK'
  BY <1>1 DEF Fault, BoundsOK
<1>2. ASSUME NEW t \in Tokens, HandleOrderRequest(t) PROVE BoundsOK'
  BY <1>2 DEF HandleOrderRequest, BoundsOK
<1>3. CASE UNCHANGED <<requested, faults>>
  BY <1>3 DEF BoundsOK
<1>4. \A k \in {"link", "trader", "bridge", "session", "query", "risk"} : k \in FaultKinds
  BY DEF FaultKinds
<1> QED
  BY <1>1, <1>2, <1>3, <1>4 DEF Next, HandleActionRequest, HandleRiskResponse, HandleExecuteReport,
     RiskHandlesMessage, GatewayStep, GatewayConnects, BridgeStep, CounterStep, SessionReturns,
     LinkFault, SessionFault, QueryFault, BridgeFault, TraderRestarts, RiskFault, vars, boundVars

LEMMA RefsStep ==
  ASSUME TypeInv, RefsOK, [Next]_vars
  PROVE  RefsOK'
<1>1. CASE UNCHANGED bridgeVars
  BY <1>1 DEF RefsOK, bridgeVars
<1>2. ASSUME \A r \in Refs : /\ counter'[r].used = counter[r].used
                             /\ counter[r].used => counter'[r].seq = counter[r].seq,
             \A c \in Members(callbacks') :
               \/ c \in Members(callbacks) /\ c.ref \in Refs
               \/ counter'[c.ref].used /\ c.seq \in {0, counter'[c.ref].seq}
      PROVE  RefsOK'
  BY <1>2 DEF RefsOK
<1>3. CASE BridgeSend
  <2>1. CASE UNCHANGED <<counter, callbacks>>
    BY <1>2, <2>1, CallbackMember
  <2>2. ASSUME NEW r \in Refs, NEW n \in Numbers, ~counter[r].used,
               \A q \in Refs : q < r => counter[q].used,
               counter' = [counter EXCEPT ![r] = Order(command.token, n, "EEXCHANGE_ACK")],
               CallBack(<<Callback(r, n, "EEXCHANGE_ACK")>>)
        PROVE  RefsOK'
    <3>1. counter'[r].used /\ counter'[r].seq = n /\ \A q \in Refs \ {r} : counter'[q] = counter[q]
      BY <2>2 DEF TypeInv, BridgeOK, Order
    <3>2. \A c \in Members(callbacks') :
            c \in Members(callbacks) \/ c = Callback(r, n, "EEXCHANGE_ACK")
      BY <2>2, CallbackType, StatusNames, CallBackMembers, SmallMembers
    <3>3. \A c \in Members(callbacks) : c.ref \in Refs \ {r}
      BY <2>2, CallbackMember DEF RefsOK
    <3>4. \A c \in Members(callbacks') : counter'[c.ref].used /\ c.seq \in {0, counter'[c.ref].seq}
      BY <3>1, <3>2, <3>3 DEF RefsOK, Callback
    <3>5. \A p, q \in Refs : counter'[q].used /\ p < q => counter'[p].used
      BY <2>2, <3>1 DEF RefsOK
    <3> QED
      BY <3>4, <3>5 DEF RefsOK
  <2> QED
    BY <1>3, <2>1, <2>2 DEF BridgeSend
<1>4. CASE BridgeCancel
  <2>1. Head(toBridge).ref \in Refs
    BY <1>4, ReadingType, CommandTypes DEF BridgeCancel, TypeInv
  <2> DEFINE r == Head(toBridge).ref
  <2>2. /\ UNCHANGED callbacks
        /\ (UNCHANGED counter \/ (Live(r) /\ counter' = [counter EXCEPT ![r].cancelling = TRUE]))
    BY <1>4 DEF BridgeCancel
  <2>3. \A q \in Refs : counter'[q].used = counter[q].used /\ counter'[q].seq = counter[q].seq
    <3> HIDE DEF r
    <3>1. CASE Live(r) /\ counter' = [counter EXCEPT ![r].cancelling = TRUE]
      <4>1. counter[r] \in Orders
        BY <2>1, <3>1 DEF TypeInv, BridgeOK, Live, NoOrder, r
      <4> QED
        BY <2>1, <3>1, <4>1 DEF TypeInv, BridgeOK, Orders
    <3> QED
      BY <2>2, <3>1
  <2> QED
    BY <1>2, <2>2, <2>3, CallbackMember
<1>5. CASE BridgeQuery \/ Resync
  <2>1. PICK rows \in Snapshots : CallBack(rows)
    BY <1>5 DEF BridgeQuery, Resync, AnswerQuery
  <2>2. UNCHANGED counter
    BY <1>5 DEF BridgeQuery, Resync
  <2>3. \A c \in Members(callbacks') : c \in Members(callbacks) \/ c \in Members(rows)
    BY <2>1, SnapshotsType, CallBackMembers DEF TypeInv
  <2>4. \A c \in Members(rows) : counter[c.ref].used /\ c.seq = 0
    BY <2>1, RowMembers DEF Row, Callback
  <2> QED
    BY <1>2, <2>2, <2>3, <2>4, CallbackMember
<1>6. CASE BridgeOrder \/ BridgeCallback \/ BridgeQueryFails \/ ResyncFails
  <2>1. UNCHANGED counter
    BY <1>6 DEF BridgeOrder, BridgeCallback, BridgeQueryFails, ResyncFails, bridgeVars
  <2>2. \A c \in Members(callbacks') : c \in Members(callbacks)
    BY <1>6, HeadCallback DEF BridgeOrder, BridgeCallback, BridgeQueryFails, ResyncFails, bridgeVars
  <2> QED
    BY <1>2, <2>1, <2>2, CallbackMember
<1>7. ASSUME NEW r \in Refs, CounterMoves(r) PROVE RefsOK'
  <2>1. PICK s \in Statuses : /\ counter' = [counter EXCEPT ![r].status = s]
                              /\ CallBack(<<Callback(r, counter[r].seq, s)>>)
    BY <1>7 DEF CounterMoves
  <2>2. counter[r] \in Orders /\ counter[r].used
    BY <1>7 DEF CounterMoves, TypeInv, BridgeOK, NoOrder
  <2>3. /\ counter'[r].used = counter[r].used /\ counter'[r].seq = counter[r].seq
        /\ \A q \in Refs \ {r} : counter'[q] = counter[q]
    BY <2>1, <2>2 DEF TypeInv, BridgeOK, Orders
  <2>4. counter[r].seq \in Numbers \cup {0}
    BY <2>2 DEF Orders
  <2>5. \A c \in Members(callbacks') : c \in Members(callbacks) \/ c = Callback(r, counter[r].seq, s)
    BY <2>1, <2>4, CallbackType, CallBackMembers, SmallMembers
  <2> DEFINE x == Callback(r, counter[r].seq, s)
  <2>6. counter'[x.ref].used /\ x.seq \in {0, counter'[x.ref].seq}
    <3>1. x.ref = r /\ x.seq = counter[r].seq
      BY DEF Callback
    <3> QED
      BY <2>2, <2>3, <3>1
  <2>7. \A q \in Refs : counter'[q].used = counter[q].used /\ counter'[q].seq = counter[q].seq
    BY <2>3
  <2> QED
    BY <1>2, <2>5, <2>6, <2>7, CallbackMember
<1>8. CASE SessionReturns \/ SessionFault \/ BridgeFault
  <2>1. UNCHANGED counter /\ callbacks' \in {<<>>, callbacks}
    BY <1>8 DEF SessionReturns, SessionFault, SessionRecovers, SessionCloses, BridgeFault,
       BridgeRestart
  <2> QED
    BY <2>1, SmallMembers DEF RefsOK
<1> QED
  BY <1>1, <1>3, <1>4, <1>5, <1>6, <1>7, <1>8
     DEF Next, HandleOrderRequest, HandleActionRequest, HandleRiskResponse, HandleExecuteReport,
     RiskHandlesMessage, GatewayStep, GatewayConnects, LinkFault, TraderRestarts, RiskFault, vars,
     BridgeStep, CounterStep, QueryFault

LEMMA ReservedInit == Init => ReservedInv
<1> SUFFICES ASSUME Init PROVE ReservedInv
  OBVIOUS
<1>1. BoundsOK
  BY DEF Init, BoundsOK
<1>2. RefsOK
  BY SmallMembers DEF Init, BridgeInit, NoOrder, RefsOK
<1>3. ASSUME NEW t \in Tokens PROVE Reserved(t)
  <2>1. ~Checked(t) /\ ~Replied(t) /\ ~Lined(t) /\ ~Sent(t) /\ ~Arrived(t) /\ ~LiveAt(t)
    BY SmallMembers DEF Init, LinkInit, BridgeInit, Checked, Replied, Lined, Sent, Sending,
       NoCommand, Arrived, LiveAt, Live, NoOrder
  <2>2. OnePlace(t)
    BY <2>1, SmallMembers DEF Init, LinkInit, OnePlace
  <2>3. ~OnTheWay(t)
    BY <2>1, SmallMembers, OnTheWayPlaces DEF Init
  <2>4. QuietGateway(t)
    BY SmallMembers DEF Init, GatewayInit, QuietGateway, Unknown, Idle
  <2>5. QuietRisk(t) /\ QuietLink(t) /\ QuietCounter(t)
    BY SmallMembers, NamesAssumption DEF Init, LinkInit, BridgeInit, NoContexts, NoneRemembered,
       QuietRisk, QuietLink, QuietCounter, Bound, Ended, NoOrder
  <2> QED
    BY <2>1, <2>2, <2>3, <2>4, <2>5 DEF Reserved, Coming, Quiet
<1> QED
  BY <1>1, <1>2, <1>3 DEF ReservedInv

LEMMA ReservedStep ==
  ASSUME MaxRequests <= 1, Faults["risk"] = 0, TypeInv, OnceInv, ReservedInv, [Next]_vars
  PROVE  ReservedInv'
<1>1. BoundsOK' /\ RefsOK' /\ BoundsOK /\ RefsOK
  BY BoundsStep, RefsStep DEF ReservedInv
<1>2. ASSUME NEW t \in Tokens \ Unchecked PROVE Reserved(t)'
  <2>1. Reserved(t) /\ t \in Tokens
    BY DEF ReservedInv
  <2>2. ASSUME NEW u \in Tokens, HandleOrderRequest(u) PROVE Reserved(t)'
    BY <1>1, <2>1, <2>2, RequestReserved
  <2>3. ASSUME NEW r \in Refs, HandleActionRequest(r) PROVE Reserved(t)'
    BY <2>1, <2>3, CancelRequestReserved
  <2>4. CASE HandleRiskResponse \/ HandleExecuteReport \/ RiskHandlesMessage
    BY <2>1, <2>4, ResponseReserved, ReportReserved, RiskReserved
  <2>5. CASE GatewayStep
    BY <2>1, <2>5, GatewayStepFewer, FewerReserved
  <2>6. CASE GatewayConnects \/ TraderRestarts
    BY <2>1, <2>6, ConnectsReserved, TraderRestartsReserved
  <2>7. CASE BridgeStep
    <3>1. BesideBridge(t)
      BY <2>1, <2>7, BesideBridgeSteps DEF BridgeStep, gatewayVars, riskVars, boundVars
    <3> QED
      BY <1>1, <2>1, <2>7, <3>1, BridgeOrderReserved, BridgeSendReserved, BridgeCancelSame,
         BridgeQuerySame, BridgeCallbackSame, SameOrderReserved DEF BridgeStep
  <2>8. CASE CounterStep
    <3>1. BesideBridge(t)
      BY <2>1, <2>8, BesideBridgeSteps DEF CounterStep, gatewayVars, riskVars, boundVars
    <3> QED
      BY <1>1, <2>1, <2>8, <3>1, CounterMovesReserved DEF CounterStep
  <2>9. CASE SessionReturns \/ SessionFault \/ LinkFault \/ BridgeFault \/ QueryFault
    <3>1. UNCHANGED <<gatewayVars, riskVars>> /\ UNCHANGED requested
      BY <2>9 DEF SessionReturns, SessionFault, LinkFault, BridgeFault, QueryFault, Fault, boundVars
    <3>2. BesideBridge(t)
      BY <2>1, <3>1, UnchangedQuiet DEF BesideBridge, gatewayVars, riskVars
    <3>3. SameOrder(t)
      BY <2>1, <2>9, SessionSame, LinkBreaksSame, BridgeRestartSame, QueryFailsSame
         DEF SessionReturns, SessionFault, LinkFault, BridgeFault, QueryFault
    <3> QED
      BY <2>1, <3>2, <3>3, SameOrderReserved
  <2>10. ~RiskFault
    <3>1. "risk" \in FaultKinds
      BY DEF FaultKinds
    <3>2. faults["risk"] \in Nat
      BY <1>1, <3>1 DEF BoundsOK
    <3> QED
      BY <3>2 DEF RiskFault, Fault
  <2>11. CASE UNCHANGED vars
    <3>1. BesideBridge(t) /\ SameOrder(t)
      BY <2>1, <2>11, BesideBridgeSteps, UnchangedQuiet DEF vars, linkVars, bridgeVars, SameOrder
    <3> QED
      BY <2>1, <3>1, SameOrderReserved
  <2> QED
    BY <2>2, <2>3, <2>4, <2>5, <2>6, <2>7, <2>8, <2>9, <2>10, <2>11 DEF Next
<1> QED
  BY <1>1, <1>2 DEF ReservedInv

\* The risk engine holds the reservation of every checked order that is live
\* or on its way and whose client_seq_id no older order has, as long as clients
\* use a token once and the risk engine and its channel stay up: whatever
\* XTrader, the bridge, the session, the queries and the connection do, no
\* report frees such a reservation early.
THEOREM LiveReserved ==
  ASSUME MaxRequests <= 1, Faults["risk"] = 0
  PROVE  Spec => []LiveOrdersReserved
<1>1. Init => TypeInv /\ OnceInv /\ ReservedInv
  BY TypeInit, OnceInit, ReservedInit
<1>2. TypeInv /\ OnceInv /\ ReservedInv /\ [Next]_vars => (TypeInv /\ OnceInv /\ ReservedInv)'
  BY TypeStep, OnceStep, ReservedStep
<1>3. ReservedInv => LiveOrdersReserved
  BY DEF ReservedInv, Reserved, LiveOrdersReserved
<1> QED
  BY <1>1, <1>2, <1>3, PTL DEF Spec

=============================================================================
