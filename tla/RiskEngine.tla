------------------------------ MODULE RiskEngine ------------------------------
(***************************************************************************)
(* The risk engine of XRiskJudge (src/XRiskJudge/RiskEngine.cpp): one work *)
(* thread that takes order requests, cancel requests, order reports, fund  *)
(* and position snapshots from shared memory and commands from XWatcher,   *)
(* decides every request, and writes its answers through a bounded queue   *)
(* that the same thread drains.                                            *)
(*                                                                         *)
(* The environment is open: it may hand the engine any message of the      *)
(* constant sets at any time, restart the process, let time pass, and let  *)
(* a write to SQLite fail when DBResults says so.  Prices and amounts are  *)
(* naturals, so the 1e-8 tolerance of AccountCapacity has no counterpart;  *)
(* one RiskID owns the database.                                           *)
(***************************************************************************)
EXTENDS Integers, Sequences, FiniteSets

CONSTANTS
  Accounts, Tickers,
  Tokens,             \* client order tokens other than 0
  OrderRefs,          \* counter order references
  NoRef,              \* the empty reference, also a member of OrderRefs
  OrderRequests,      \* order requests the engine may receive
  ActionRequests,     \* cancel requests the engine may receive
  OrderStatuses,      \* order reports the engine may receive
  FundSnapshots,      \* values of TAccountFund.Available
  PositionSnapshots,  \* values of StockPosition.LongYdPosition
  LockSettings,       \* locks a command may ask for
  LimitSettings,      \* limits a command may ask for
  InitLimits,         \* the row of RiskLimitTable at first start
  NameWithin,         \* a -> the accounts whose name occurs in the DELETE for a
  TokenTicker,        \* the ticker a client names with a token
  RefTicker,          \* the ticker of the order behind a reference
  DBResults,          \* the results a write to SQLite may have
  ResponseCap,        \* slots of m_RiskResponseQueue
  MaxFlow,            \* bound: requests of an account in one flow window
  MaxTickerCancels,   \* bound: cancelled orders of a ticker
  MaxOrderCancels     \* bound: counted cancel requests of an order

Directions      == {"EBUY", "ESELL"}
PendingStatuses == {"EORDER_SENDED", "EEXCHANGE_ACK", "EPARTTRADED"}
TerminalStatuses ==
  {"EALLTRADED", "EPARTTRADED_CANCELLED", "ECANCELLED", "EBROKER_ERROR",
   "EEXCHANGE_ERROR"}
CancelledStatuses == {"EPARTTRADED_CANCELLED", "ECANCELLED", "EEXCHANGE_ERROR"}
OtherStatuses     == {"EBROKER_ACK", "ECANCELLING", "EACTION_ERROR"}
StatusKinds       == PendingStatuses \cup TerminalStatuses \cup OtherStatuses

BuySides  == {"EOPEN_LONG", "ECLOSE_YD_SHORT", "ECLOSE_TD_SHORT"}
SellSides == {"ECLOSE_YD_LONG", "ECLOSE_TD_LONG", "EOPEN_SHORT"}
Sides     == BuySides \cup SellSides \cup {"ECLOSE_LONG"}

OrderRequest ==
  [account: Accounts, ticker: Tickers, direction: Directions, price: Nat,
   volume: Nat, token: Tokens \cup {0},
   riskStatus: {"EPREPARE_CHECKED", "ECHECK_INIT"}]
ActionRequest == [account: Accounts, ref: OrderRefs]
OrderStatus ==
  [account: Accounts, ticker: Tickers, token: Tokens \cup {0}, ref: OrderRefs,
   status: StatusKinds, side: Sides, price: Nat, limitOrder: BOOLEAN]

LockSides == {"EUNLOCK", "ELOCK_BUY", "ELOCK_SELL", "ELOCK_ACCOUNT"}
Lock      == [side: LockSides, tickers: SUBSET Tickers]
Unlocked  == [side |-> "EUNLOCK", tickers |-> {}]
Limits    == [flow: Nat, tickerCancel: Nat, orderCancel: Nat]

Positions == Accounts \X Tickers   \* key Account:Ticker
TokenKeys == Accounts \X Tokens    \* key Account:OrderToken

ASSUME TokensAssumption == 0 \notin Tokens /\ IsFiniteSet(Tokens)
ASSUME SetsAssumption   == IsFiniteSet(Accounts) /\ IsFiniteSet(Tickers)
ASSUME InputsAssumption ==
  /\ OrderRequests \subseteq OrderRequest
  /\ ActionRequests \subseteq ActionRequest
  /\ OrderStatuses \subseteq OrderStatus
  /\ FundSnapshots \subseteq Nat
  /\ PositionSnapshots \subseteq Nat
ASSUME SettingsAssumption ==
  /\ LockSettings \subseteq Lock
  /\ \A l \in LockSettings : l.side = "EUNLOCK" => l = Unlocked
  /\ LimitSettings \subseteq Limits
  /\ InitLimits \in Limits
  /\ DBResults \subseteq BOOLEAN
  /\ NameWithin \in [Accounts -> SUBSET Accounts]
  /\ \A a \in Accounts : a \in NameWithin[a]
ASSUME BoundsAssumption ==
  /\ ResponseCap \in Nat \ {0}
  /\ MaxFlow \in Nat /\ MaxTickerCancels \in Nat /\ MaxOrderCancels \in Nat

\* A client uses a token for orders of one ticker, and the reports of an
\* order carry the ticker of its request.
ASSUME TokenTickerAssumption ==
  /\ TokenTicker \in [TokenKeys -> Tickers]
  /\ \A r \in OrderRequests \cup OrderStatuses :
       r.token # 0 => r.ticker = TokenTicker[<<r.account, r.token>>]

\* The counter gives every order it acknowledges a reference of its own; only
\* the rejects the gateway makes up itself have none.
ASSUME RefTickerAssumption ==
  /\ NoRef \in OrderRefs
  /\ RefTicker \in [OrderRefs -> Tickers]
  /\ \A s \in OrderStatuses :
       IF s.ref = NoRef THEN s.status \notin PendingStatuses
                        ELSE s.ticker = RefTicker[s.ref]

VARIABLES
  turn,                   \* the input WorkThreadFunc polls next
  blocked,                \* the thread spins in while(!Push(...))
  responses,              \* m_RiskResponseQueue
  windowOpen,             \* the account's flow window is younger than 1000 ms
  flow,                   \* m_AccountFlowLimitedMap
  accountFund,            \* m_AccountFundMap, NoSnapshot when absent
  accountPosition,        \* m_AccountPositionMap, NoSnapshot when absent
  orderReservation,       \* m_OrderReservationMap
  reservedBuyAmount,      \* m_ReservedBuyAmountMap
  reservedSellVolume,     \* m_ReservedSellVolumeMap
  pendingOrder,           \* m_PendingOrderMap
  tickerPending,          \* m_TickerPendingOrderListMap
  orderCancelled,         \* m_OrderCancelledCounterMap
  tickerCancelled,        \* m_TickerCancelledCounterMap
  dbTickerCancelled,      \* CancelledCountTable
  accountLocked,          \* m_AccountLockedStatusMap
  dbAccountLocked,        \* LockedAccountTable
  limits,                 \* m_XRiskLimit
  dbLimits                \* RiskLimitTable

threadVars   == <<turn, blocked, responses>>
flowVars     == <<windowOpen, flow>>
snapshotVars == <<accountFund, accountPosition>>
reserveVars  == <<orderReservation, reservedBuyAmount, reservedSellVolume>>
pendingVars  == <<pendingOrder, tickerPending, orderCancelled>>
countVars    == <<tickerCancelled, dbTickerCancelled>>
settingVars  == <<accountLocked, dbAccountLocked, limits, dbLimits>>
vars == <<threadVars, flowVars, snapshotVars, reserveVars, pendingVars, countVars,
          settingVars>>

NoSnapshot    == -1
NoReservation == [held |-> FALSE, buy |-> 0, sell |-> 0]
NotPending    == [pending |-> FALSE]
PendingOrder  == [pending: {TRUE}, ref: OrderRefs, account: Accounts,
                  ticker: Tickers, side: Sides, price: Nat]

Report == [type |-> "ERiskReport"]
OrderReply(r, status)  == [type |-> "EOrderRequest", request |-> r, riskStatus |-> status]
ActionReply(a, status) == [type |-> "EActionRequest", request |-> a, riskStatus |-> status]
RiskStatuses == {"ECHECK_INIT", "ECHECKED_PASS", "ECHECKED_NOPASS"}
Responses ==
  {Report} \cup {OrderReply(r, s) : r \in OrderRequests, s \in RiskStatuses}
           \cup {ActionReply(a, s) : a \in ActionRequests, s \in RiskStatuses}

-----------------------------------------------------------------------------
(* The response queue.                                                     *)

\* Mutant: the bound of the queue is forgotten.
RespondUnbounded(msgs) == responses' = responses \o msgs /\ blocked' = FALSE

\* Push every message of msgs in order; a full queue keeps the thread in
\* while(!m_RiskResponseQueue.Push(...)) for ever, as nobody else pops.  What
\* the handler would still have written after that push is never read: only a
\* restart leaves a state where blocked holds.
Respond(msgs) ==
  LET all == responses \o msgs
  IN  /\ responses' = SubSeq(all, 1, IF Len(all) <= ResponseCap THEN Len(all)
                                                                ELSE ResponseCap)
      /\ blocked' = (Len(all) > ResponseCap)

Reports(n) == [i \in 1 .. n |-> Report]

-----------------------------------------------------------------------------
(* The checks of Check(), in its order.                                    *)

\* FlowLimited counts the request even when a later check rejects it.
FlowCount(a) == IF windowOpen[a] THEN flow[a] + 1 ELSE 1
CountFlow(a) ==
  /\ windowOpen' = [windowOpen EXCEPT ![a] = TRUE]
  /\ flow' = [flow EXCEPT ![a] = FlowCount(a)]
FlowLimited(a) == FlowCount(a) > limits.flow

\* Mutant: the side of the lock is compared with the wrong direction.
AccountLockedSwapped(r) ==
  \/ accountLocked[r.account].side = "ELOCK_ACCOUNT"
  \/ /\ accountLocked[r.account].side =
          (IF r.direction = "EBUY" THEN "ELOCK_SELL" ELSE "ELOCK_BUY")
     /\ r.ticker \in accountLocked[r.account].tickers

\* An empty Ticker text locks every ticker: tickers = Tickers stands for it.
AccountLocked(r) ==
  LET lock == accountLocked[r.account]
  IN  \/ lock.side = "ELOCK_ACCOUNT"
      \/ /\ lock.side = (IF r.direction = "EBUY" THEN "ELOCK_BUY" ELSE "ELOCK_SELL")
         /\ r.ticker \in lock.tickers

SelfMatched(r) ==
  \E o \in tickerPending[r.ticker] :
    \/ r.direction = "EBUY"  /\ o.side \in SellSides /\ r.price >= o.price
    \/ r.direction = "ESELL" /\ o.side \in BuySides  /\ r.price <= o.price

Notional(r) == r.price * r.volume
OrderTokenKey(r) == <<r.account, r.token>>
PositionKey(r)   == <<r.account, r.ticker>>

DuplicateToken(r) == r.token # 0 /\ orderReservation[OrderTokenKey(r)].held

\* Mutant: what earlier orders reserved is left out.
HasCapacityAlone(r) ==
  /\ ~DuplicateToken(r)
  /\ r.direction = "EBUY"  => accountFund[r.account] >= Notional(r)
  /\ r.direction = "ESELL" => accountPosition[PositionKey(r)] >= r.volume

HasCapacity(r) ==
  /\ ~DuplicateToken(r)
  /\ r.direction = "EBUY" =>
       /\ accountFund[r.account] # NoSnapshot
       /\ accountFund[r.account] >= Notional(r) + reservedBuyAmount[r.account]
  /\ r.direction = "ESELL" =>
       /\ accountPosition[PositionKey(r)] # NoSnapshot
       /\ accountPosition[PositionKey(r)] >= r.volume + reservedSellVolume[PositionKey(r)]

ReservedBuy(r)  == IF r.direction = "EBUY"  THEN Notional(r) ELSE 0
ReservedSell(r) == IF r.direction = "ESELL" THEN r.volume    ELSE 0

Reserve(r) ==
  IF r.token = 0
  THEN UNCHANGED reserveVars
  ELSE /\ orderReservation' = [orderReservation EXCEPT ![OrderTokenKey(r)] =
            [held |-> TRUE, buy |-> ReservedBuy(r), sell |-> ReservedSell(r)]]
       /\ reservedBuyAmount' = [reservedBuyAmount EXCEPT ![r.account] = @ + ReservedBuy(r)]
       /\ reservedSellVolume' =
            [reservedSellVolume EXCEPT ![PositionKey(r)] = @ + ReservedSell(r)]

OrderPasses(r) ==
  ~FlowLimited(r.account) /\ ~AccountLocked(r) /\ ~SelfMatched(r) /\ HasCapacity(r)

HandleOrderRequest(r) ==
  /\ \/ /\ r.riskStatus = "ECHECK_INIT"
        /\ Respond(<<OrderReply(r, "ECHECK_INIT")>>)
        /\ UNCHANGED <<flowVars, reserveVars>>
     \/ /\ r.riskStatus = "EPREPARE_CHECKED"
        /\ CountFlow(r.account)
        /\ \/ /\ OrderPasses(r)
              /\ Reserve(r)
              /\ Respond(<<OrderReply(r, "ECHECKED_PASS")>>)
           \/ /\ ~OrderPasses(r)
              /\ Respond(<<Report, OrderReply(r, "ECHECKED_NOPASS")>>)
              /\ UNCHANGED reserveVars
  /\ UNCHANGED <<snapshotVars, pendingVars, countVars, settingVars>>

\* CancelLimited: only orders the engine knows as pending are limited.
TickerCancelLimited(a) ==
  LET o == pendingOrder[a.ref]
  IN  o.pending /\ tickerCancelled[<<o.account, o.ticker>>] + 1 > limits.tickerCancel

OrderCancelLimited(a) ==
  pendingOrder[a.ref].pending /\ orderCancelled[a.ref] + 1 > limits.orderCancel

\* The per-order counter moves when the checks before it passed, whether or
\* not it rejects.
CountsCancel(a) ==
  ~FlowLimited(a.account) /\ pendingOrder[a.ref].pending /\ ~TickerCancelLimited(a)

CountCancel(a) ==
  orderCancelled' = [orderCancelled EXCEPT ![a.ref] = IF CountsCancel(a) THEN @ + 1 ELSE @]

ActionPasses(a) ==
  ~FlowLimited(a.account) /\ ~TickerCancelLimited(a) /\ ~OrderCancelLimited(a)

HandleActionRequest(a) ==
  /\ CountFlow(a.account)
  /\ CountCancel(a)
  /\ \/ ActionPasses(a)  /\ Respond(<<ActionReply(a, "ECHECKED_PASS")>>)
     \/ ~ActionPasses(a) /\ Respond(<<Report, ActionReply(a, "ECHECKED_NOPASS")>>)
  /\ UNCHANGED <<snapshotVars, reserveVars, pendingOrder, tickerPending, countVars,
                 settingVars>>

-----------------------------------------------------------------------------
(* Order reports and snapshots.                                            *)

\* Mutant: the totals are reduced, the reservation is not erased.
ReleaseTotalsOnly(s) ==
  IF s.status \in TerminalStatuses /\ s.token # 0
  THEN /\ reservedBuyAmount' = [reservedBuyAmount EXCEPT
              ![s.account] = @ - orderReservation[OrderTokenKey(s)].buy]
       /\ UNCHANGED <<orderReservation, reservedSellVolume>>
  ELSE UNCHANGED reserveVars

ReleaseOrderReservation(s) ==
  LET key == OrderTokenKey(s)
      pos == PositionKey(s)
      Less(x, y) == IF x >= y THEN x - y ELSE 0
  IN  IF s.status \in TerminalStatuses /\ s.token # 0 /\ orderReservation[key].held
      THEN /\ reservedBuyAmount' = [reservedBuyAmount EXCEPT
                  ![s.account] = Less(@, orderReservation[key].buy)]
           /\ reservedSellVolume' = [reservedSellVolume EXCEPT
                  ![pos] = Less(@, orderReservation[key].sell)]
           /\ orderReservation' = [orderReservation EXCEPT ![key] = NoReservation]
      ELSE UNCHANGED reserveVars

AsPending(s) ==
  [pending |-> TRUE, ref |-> s.ref, account |-> s.account, ticker |-> s.ticker,
   side |-> s.side, price |-> s.price]

\* The first report of an order is the one the maps keep.
AddPending(s) ==
  /\ IF pendingOrder[s.ref].pending
     THEN UNCHANGED <<pendingOrder, tickerPending>>
     ELSE /\ pendingOrder' = [pendingOrder EXCEPT ![s.ref] = AsPending(s)]
          /\ tickerPending' = [tickerPending EXCEPT ![s.ticker] = @ \cup {AsPending(s)}]
  /\ UNCHANGED orderCancelled

\* Mutant: the list keeps an order whose report is not terminal.
RemoveFromMapOnly(s) ==
  /\ IF s.status \in TerminalStatuses
     THEN tickerPending' = [tickerPending EXCEPT ![s.ticker] = {o \in @ : o.ref # s.ref}]
     ELSE UNCHANGED tickerPending
  /\ pendingOrder' = [pendingOrder EXCEPT ![s.ref] = NotPending]
  /\ orderCancelled' = [orderCancelled EXCEPT ![s.ref] = 0]

\* Mutant: the order's cancel counter outlives it.
RemoveKeepingCounter(s) ==
  /\ tickerPending' = [tickerPending EXCEPT ![s.ticker] = {o \in @ : o.ref # s.ref}]
  /\ pendingOrder' = [pendingOrder EXCEPT ![s.ref] = NotPending]
  /\ UNCHANGED orderCancelled

\* The condition in front of the removal ends in "|| EEXCHANGE_ERROR", which
\* is never 0: every report that is not pending removes the order.
RemovePending(s) ==
  /\ tickerPending' = [tickerPending EXCEPT ![s.ticker] = {o \in @ : o.ref # s.ref}]
  /\ pendingOrder' = [pendingOrder EXCEPT ![s.ref] = NotPending]
  /\ orderCancelled' = [orderCancelled EXCEPT ![s.ref] = 0]

\* The first cancel of a ticker inserts its row; an UPDATE of a row that a
\* failed INSERT left out changes nothing.
CountTickerCancel(s, ok) ==
  LET k == PositionKey(s)
      n == tickerCancelled[k] + 1
  IN  /\ tickerCancelled' = [tickerCancelled EXCEPT ![k] = n]
      /\ dbTickerCancelled' = [dbTickerCancelled EXCEPT
            ![k] = IF ok /\ (n = 1 \/ @ # 0) THEN n ELSE @]

HandleOrderStatus(s) ==
  /\ ReleaseOrderReservation(s)
  /\ \/ /\ s.status \in PendingStatuses
        /\ AddPending(s)
        /\ UNCHANGED <<countVars, responses, blocked>>
     \/ /\ s.status \notin PendingStatuses
        /\ RemovePending(s)
        /\ \/ /\ s.status \in CancelledStatuses /\ s.limitOrder
              /\ \E ok \in DBResults : CountTickerCancel(s, ok)
              /\ Respond(<<Report>>)
           \/ /\ ~(s.status \in CancelledStatuses /\ s.limitOrder)
              /\ UNCHANGED <<countVars, responses, blocked>>
  /\ UNCHANGED <<flowVars, snapshotVars, settingVars>>

UpdateAccountFund(a, available) ==
  /\ accountFund' = [accountFund EXCEPT ![a] = available]
  /\ UNCHANGED <<responses, blocked, flowVars, accountPosition, reserveVars, pendingVars,
                 countVars, settingVars>>

UpdateAccountPosition(p, available) ==
  /\ accountPosition' = [accountPosition EXCEPT ![p] = available]
  /\ UNCHANGED <<responses, blocked, flowVars, accountFund, reserveVars, pendingVars,
                 countVars, settingVars>>

-----------------------------------------------------------------------------
(* Commands from XWatcher.                                                 *)

CountRows(count) == Cardinality({k \in Positions : count[k] # 0})
LockRows(lock)   == Cardinality({a \in Accounts : lock[a] # Unlocked})

\* QueryCancelledCount and QueryLockedAccount copy the rows of a table over
\* the entries of the map; entries without a row stay.
ReloadCounts(db, mem) == [k \in Positions |-> IF db[k] # 0 THEN db[k] ELSE mem[k]]
ReloadLocks(db, mem)  == [a \in Accounts |-> IF db[a] # Unlocked THEN db[a] ELSE mem[a]]

\* ok and counted: the results of the UPDATE of RiskLimitTable and of the one
\* of CancelledCountTable that follows it.
UpdateRiskLimit(l, ok, counted) ==
  /\ dbLimits' = IF ok THEN l ELSE dbLimits
  /\ limits' = dbLimits'
  /\ \/ /\ ok /\ counted
        /\ tickerCancelled' = ReloadCounts(dbTickerCancelled, tickerCancelled)
        /\ Respond(Reports(CountRows(tickerCancelled) + 2))
     \/ /\ ~(ok /\ counted)
        /\ UNCHANGED tickerCancelled
        /\ Respond(Reports(2))
  /\ UNCHANGED <<flowVars, snapshotVars, reserveVars, pendingVars, dbTickerCancelled,
                 accountLocked, dbAccountLocked>>

\* A lock of l.side = "EUNLOCK" asks to unlock, which an unlocked account
\* refuses.  The accounts whose name the text of the DELETE contains leave the
\* map after the table has been read back.
UpdateAccountLocked(a, l, ok) ==
  LET invalid  == l = Unlocked /\ accountLocked[a] = Unlocked
      db       == IF ok THEN [dbAccountLocked EXCEPT ![a] = l] ELSE dbAccountLocked
      reloaded == ReloadLocks(db, accountLocked)
      erased   == IF ok /\ l = Unlocked
                  THEN {b \in NameWithin[a] : accountLocked[b] # Unlocked} ELSE {}
  IN  /\ IF invalid
         THEN UNCHANGED <<accountLocked, dbAccountLocked>> /\ Respond(Reports(1))
         ELSE /\ dbAccountLocked' = db
              /\ accountLocked' =
                   [b \in Accounts |-> IF b \in erased THEN Unlocked ELSE reloaded[b]]
              /\ Respond(Reports(LockRows(reloaded) + 1))
      /\ UNCHANGED <<flowVars, snapshotVars, reserveVars, pendingVars, countVars, limits,
                     dbLimits>>

-----------------------------------------------------------------------------
(* The work thread, time and the process.                                  *)

Init ==
  /\ turn = "request" /\ blocked = FALSE /\ responses = <<Report>>
  /\ windowOpen = [a \in Accounts |-> FALSE]
  /\ flow = [a \in Accounts |-> 0]
  /\ accountFund = [a \in Accounts |-> NoSnapshot]
  /\ accountPosition = [p \in Positions |-> NoSnapshot]
  /\ orderReservation = [k \in TokenKeys |-> NoReservation]
  /\ reservedBuyAmount = [a \in Accounts |-> 0]
  /\ reservedSellVolume = [p \in Positions |-> 0]
  /\ pendingOrder = [ref \in OrderRefs |-> NotPending]
  /\ tickerPending = [t \in Tickers |-> {}]
  /\ orderCancelled = [ref \in OrderRefs |-> 0]
  /\ tickerCancelled = [p \in Positions |-> 0]
  /\ dbTickerCancelled = [p \in Positions |-> 0]
  /\ accountLocked = [a \in Accounts |-> Unlocked]
  /\ dbAccountLocked = [a \in Accounts |-> Unlocked]
  /\ limits = InitLimits
  /\ dbLimits = InitLimits

Poll(input, next) == turn = input /\ ~blocked /\ turn' = next

HandleRequest ==
  \/ \E r \in OrderRequests : FlowCount(r.account) <= MaxFlow /\ HandleOrderRequest(r)
  \/ \E a \in ActionRequests :
       /\ FlowCount(a.account) <= MaxFlow /\ orderCancelled[a.ref] < MaxOrderCancels
       /\ HandleActionRequest(a)
  \/ \E s \in OrderStatuses :
       tickerCancelled[PositionKey(s)] < MaxTickerCancels /\ HandleOrderStatus(s)
  \/ \E a \in Accounts, x \in FundSnapshots : UpdateAccountFund(a, x)
  \/ \E p \in Positions, x \in PositionSnapshots : UpdateAccountPosition(p, x)

PollRequest ==
  /\ Poll("request", "response")
  /\ \/ HandleRequest
     \/ UNCHANGED <<blocked, responses, flowVars, snapshotVars, reserveVars, pendingVars,
                    countVars, settingVars>>

\* A response leaves the engine: to the XTrader's channel or to XWatcher.
HandleResponse ==
  /\ Poll("response", "command")
  /\ responses' = IF responses = <<>> THEN <<>> ELSE Tail(responses)
  /\ UNCHANGED <<blocked, flowVars, snapshotVars, reserveVars, pendingVars, countVars,
                 settingVars>>

HandleRiskCommand ==
  \/ \E l \in LimitSettings, ok, counted \in DBResults : UpdateRiskLimit(l, ok, counted)
  \/ \E a \in Accounts, l \in LockSettings, ok \in DBResults :
       UpdateAccountLocked(a, l, ok)
  \/ /\ Respond(Reports(1))           \* a command that does not parse
     /\ UNCHANGED <<flowVars, snapshotVars, reserveVars, pendingVars, countVars,
                    settingVars>>

PollCommand ==
  /\ Poll("command", "request")
  /\ \/ HandleRiskCommand
     \/ UNCHANGED <<blocked, responses, flowVars, snapshotVars, reserveVars, pendingVars,
                    countVars, settingVars>>

\* More than 1000 ms pass since the window of the account started.
WindowExpires(a) ==
  /\ windowOpen[a]
  /\ windowOpen' = [windowOpen EXCEPT ![a] = FALSE]
  /\ UNCHANGED <<threadVars, flow, snapshotVars, reserveVars, pendingVars, countVars,
                 settingVars>>

\* Mutant: the counters of the day are not read back.
LoadConfigNoCounts ==
  /\ limits' = dbLimits
  /\ tickerCancelled' = [p \in Positions |-> 0]
  /\ accountLocked' = dbAccountLocked
  /\ responses' = <<Report>> /\ blocked' = FALSE

\* LoadConfig reads the three tables back and queues a report for every row.
LoadConfig ==
  /\ limits' = dbLimits
  /\ tickerCancelled' = dbTickerCancelled
  /\ accountLocked' = dbAccountLocked
  /\ LET n == 1 + CountRows(dbTickerCancelled) + LockRows(dbAccountLocked)
     IN  /\ responses' = Reports(IF n <= ResponseCap THEN n ELSE ResponseCap)
         /\ blocked' = (n > ResponseCap)

\* The process ends and starts again; what the tables do not hold starts empty.
Restart ==
  /\ turn' = "request"
  /\ LoadConfig
  /\ windowOpen' = [a \in Accounts |-> FALSE]
  /\ flow' = [a \in Accounts |-> 0]
  /\ accountFund' = [a \in Accounts |-> NoSnapshot]
  /\ accountPosition' = [p \in Positions |-> NoSnapshot]
  /\ orderReservation' = [k \in TokenKeys |-> NoReservation]
  /\ reservedBuyAmount' = [a \in Accounts |-> 0]
  /\ reservedSellVolume' = [p \in Positions |-> 0]
  /\ pendingOrder' = [ref \in OrderRefs |-> NotPending]
  /\ tickerPending' = [t \in Tickers |-> {}]
  /\ orderCancelled' = [ref \in OrderRefs |-> 0]
  /\ UNCHANGED <<dbTickerCancelled, dbAccountLocked, dbLimits>>

Next ==
  \/ PollRequest \/ HandleResponse \/ PollCommand
  \/ \E a \in Accounts : WindowExpires(a)
  \/ Restart

Spec == Init /\ [][Next]_vars

-----------------------------------------------------------------------------
(* Properties.                                                             *)

ThreadOK ==
  /\ turn \in {"request", "response", "command"} /\ blocked \in BOOLEAN
  /\ responses \in Seq(Responses) /\ Len(responses) <= ResponseCap
FlowOK == windowOpen \in [Accounts -> BOOLEAN] /\ flow \in [Accounts -> Nat]
SnapshotOK ==
  /\ accountFund \in [Accounts -> Nat \cup {NoSnapshot}]
  /\ accountPosition \in [Positions -> Nat \cup {NoSnapshot}]
ReserveOK ==
  /\ orderReservation \in [TokenKeys -> [held: BOOLEAN, buy: Nat, sell: Nat]]
  /\ reservedBuyAmount \in [Accounts -> Nat]
  /\ reservedSellVolume \in [Positions -> Nat]
PendingOK ==
  /\ pendingOrder \in [OrderRefs -> PendingOrder \cup {NotPending}]
  /\ tickerPending \in [Tickers -> SUBSET PendingOrder]
  /\ orderCancelled \in [OrderRefs -> Nat]
CountOK ==
  tickerCancelled \in [Positions -> Nat] /\ dbTickerCancelled \in [Positions -> Nat]
SettingOK ==
  /\ accountLocked \in [Accounts -> Lock] /\ dbAccountLocked \in [Accounts -> Lock]
  /\ limits \in Limits /\ dbLimits \in Limits

\* Every variable keeps its type, and the response queue its bound.
TypeOK ==
  ThreadOK /\ FlowOK /\ SnapshotOK /\ ReserveOK /\ PendingOK /\ CountOK /\ SettingOK

\* The checks admit an order only while the latest snapshot covers it together
\* with every order admitted before and not ended (AccountCapacity,
\* ReleaseOrderReservation): the engine implements the ledger.
Ledger == INSTANCE CapacityLedger
  WITH fund <- accountFund, position <- accountPosition, hold <- orderReservation
ImplementsLedger == Ledger!Spec

\* The two running totals AccountCapacity compares with the snapshots are the
\* sums of the live reservations: no path counts an order twice, frees it
\* twice, or frees it from another position.
ReservationsAccounted ==
  /\ \A a \in Accounts : reservedBuyAmount[a] = Cardinality(Ledger!BuyUnits(a))
  /\ \A p \in Positions : reservedSellVolume[p] = Cardinality(Ledger!SellUnits(p))

\* The map CancelLimited looks an order up in and the list SelfMatched walks
\* hold the same orders, so no check sees an order the other has dropped.
PendingAgree ==
  /\ \A ref \in OrderRefs : pendingOrder[ref].pending => pendingOrder[ref].ref = ref
  /\ \A t \in Tickers :
       tickerPending[t] =
         {pendingOrder[ref] : ref \in {x \in OrderRefs :
             pendingOrder[x].pending /\ pendingOrder[x].ticker = t}}

\* Cancel requests are counted only for orders the engine knows as pending:
\* an order that ended leaves no count behind for a later order.
CancelCountsOfPending ==
  \A ref \in OrderRefs : orderCancelled[ref] > 0 => pendingOrder[ref].pending

\* A day's count of cancelled orders of a ticker never goes down, over
\* commands, reloads and restarts, unless SQLite had lost a write of it.
CancelCountsDurable ==
  [][\A k \in Positions : tickerCancelled'[k] < tickerCancelled[k] =>
       dbTickerCancelled[k] < tickerCancelled[k]]_vars

\* An account the table says is locked for a direction is admitted no order of
\* that direction (AccountLocked).
NewlyHeld(k) == ~orderReservation[k].held /\ orderReservation'[k].held
LockedFor(a, t, side) ==
  \/ dbAccountLocked[a].side = "ELOCK_ACCOUNT"
  \/ dbAccountLocked[a].side = side /\ t \in dbAccountLocked[a].tickers
LockedAdmitsNothing ==
  [][\A k \in TokenKeys : NewlyHeld(k) =>
       /\ orderReservation'[k].buy > 0 => ~LockedFor(k[1], TokenTicker[k], "ELOCK_BUY")
       /\ orderReservation'[k].sell > 0 => ~LockedFor(k[1], TokenTicker[k], "ELOCK_SELL")]_vars

\* A decision always reaches the response queue.
NeverBlocked == ~blocked

=============================================================================
