---------------------------- MODULE CapacityLedger ----------------------------
(***************************************************************************)
(* What the capacity check of the risk engine promises, without the        *)
(* running totals it keeps: an order is admitted only while the cash (or   *)
(* the sellable shares) of the latest snapshot covers it together with     *)
(* every order admitted before and not ended.  RiskEngine implements it.   *)
(***************************************************************************)
EXTENDS Integers, FiniteSets

CONSTANTS Accounts, Tickers, Tokens, TokenTicker

VARIABLES
  fund,       \* the account's available cash, NoSnapshot before the first one
  position,   \* the sellable shares of an account and ticker
  hold        \* what the live order of an account and token holds

NoSnapshot == -1
NoHold     == [held |-> FALSE, buy |-> 0, sell |-> 0]

\* The units of cash (of shares) held by live orders, one element per unit:
\* their number is the sum of the holds.
BuyUnits(a) ==
  UNION {{tok} \X (1 .. hold[<<a, tok>>].buy) : tok \in Tokens}
SellUnits(p) ==
  UNION {{tok} \X (1 .. hold[<<p[1], tok>>].sell) :
           tok \in {x \in Tokens : TokenTicker[<<p[1], x>>] = p[2]}}

Empty ==
  [fund |-> [a \in Accounts |-> NoSnapshot],
   position |-> [p \in Accounts \X Tickers |-> NoSnapshot],
   hold |-> [k \in Accounts \X Tokens |-> NoHold]]

Init == fund = Empty.fund /\ position = Empty.position /\ hold = Empty.hold

Admit(k, buy, sell) ==
  /\ ~hold[k].held
  /\ hold' = [hold EXCEPT ![k] = [held |-> TRUE, buy |-> buy, sell |-> sell]]
  /\ UNCHANGED <<fund, position>>

AdmitBuy(a, tok) ==
  \E n \in 0 .. (fund[a] - Cardinality(BuyUnits(a))) : Admit(<<a, tok>>, n, 0)

AdmitSell(a, tok) ==
  LET p == <<a, TokenTicker[<<a, tok>>]>>
  IN  \E n \in 0 .. (position[p] - Cardinality(SellUnits(p))) : Admit(<<a, tok>>, 0, n)

EndOrder(k) ==
  /\ hold[k].held
  /\ hold' = [hold EXCEPT ![k] = NoHold]
  /\ UNCHANGED <<fund, position>>

Snapshot ==
  /\ \/ \E a \in Accounts : fund'[a] \in Nat /\ fund' = [fund EXCEPT ![a] = fund'[a]]
                            /\ UNCHANGED position
     \/ \E p \in Accounts \X Tickers :
          position'[p] \in Nat /\ position' = [position EXCEPT ![p] = position'[p]]
          /\ UNCHANGED fund
  /\ UNCHANGED hold

\* Nothing of the ledger survives the process.
Restart ==
  fund' = Empty.fund /\ position' = Empty.position /\ hold' = Empty.hold

Next ==
  \/ \E a \in Accounts, tok \in Tokens : AdmitBuy(a, tok) \/ AdmitSell(a, tok)
  \/ \E k \in Accounts \X Tokens : EndOrder(k)
  \/ Snapshot
  \/ Restart

Spec == Init /\ [][Next]_<<fund, position, hold>>

=============================================================================
