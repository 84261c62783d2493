--------------------------- MODULE RiskEngineProofs ---------------------------
(***************************************************************************)
(* Theorems about RiskEngine.  A first group of lemmas says what a step    *)
(* can do to each group of variables; the invariants follow group by       *)
(* group.                                                                  *)
(***************************************************************************)
EXTENDS RiskEngine, FiniteSetTheorems, SequenceTheorems, TLAPS

-----------------------------------------------------------------------------
(* What a step does to a group of variables.                               *)

Admission(r)  == OrderPasses(r) /\ Reserve(r) /\ UNCHANGED snapshotVars
Release(s)    == ReleaseOrderReservation(s) /\ UNCHANGED snapshotVars
FundUpdate(a, x) ==
  accountFund' = [accountFund EXCEPT ![a] = x] /\ UNCHANGED <<accountPosition, reserveVars>>
PositionUpdate(p, x) ==
  accountPosition' = [accountPosition EXCEPT ![p] = x] /\ UNCHANGED <<accountFund, reserveVars>>

\* Reservations and snapshots change only in an admission, a report, a
\* snapshot or a restart.
LEMMA CapacityCases ==
  ASSUME [Next]_vars
  PROVE  \/ UNCHANGED <<reserveVars, snapshotVars>>
         \/ \E r \in OrderRequests : Admission(r)
         \/ \E s \in OrderStatuses : Release(s)
         \/ \E a \in Accounts, x \in FundSnapshots : FundUpdate(a, x)
         \/ \E p \in Positions, x \in PositionSnapshots : PositionUpdate(p, x)
         \/ Restart
<1>1. CASE PollRequest
  <2>1. ASSUME NEW r \in OrderRequests, HandleOrderRequest(r)
        PROVE  UNCHANGED <<reserveVars, snapshotVars>> \/ Admission(r)
    BY <2>1 DEF HandleOrderRequest, Admission
  <2>2. ASSUME NEW a \in ActionRequests, HandleActionRequest(a)
        PROVE  UNCHANGED <<reserveVars, snapshotVars>>
    BY <2>2 DEF HandleActionRequest
  <2>3. ASSUME NEW s \in OrderStatuses, HandleOrderStatus(s)
        PROVE  Release(s)
    BY <2>3 DEF HandleOrderStatus, Release
  <2>4. ASSUME NEW a \in Accounts, NEW x \in FundSnapshots, UpdateAccountFund(a, x)
        PROVE  FundUpdate(a, x)
    BY <2>4 DEF UpdateAccountFund, FundUpdate
  <2>5. ASSUME NEW p \in Positions, NEW x \in PositionSnapshots, UpdateAccountPosition(p, x)
        PROVE  PositionUpdate(p, x)
    BY <2>5 DEF UpdateAccountPosition, PositionUpdate
  <2> QED
    BY <1>1, <2>1, <2>2, <2>3, <2>4, <2>5 DEF PollRequest, HandleRequest
<1>2. CASE HandleResponse
  BY <1>2 DEF HandleResponse
<1>3. CASE PollCommand
  <2>1. ASSUME NEW l, NEW ok, NEW counted, UpdateRiskLimit(l, ok, counted)
        PROVE  UNCHANGED <<reserveVars, snapshotVars>>
    BY <2>1 DEF UpdateRiskLimit
  <2>2. ASSUME NEW a, NEW l, NEW ok, UpdateAccountLocked(a, l, ok)
        PROVE  UNCHANGED <<reserveVars, snapshotVars>>
    BY <2>2 DEF UpdateAccountLocked
  <2> QED
    BY <1>3, <2>1, <2>2 DEF PollCommand, HandleRiskCommand
<1>4. ASSUME NEW a \in Accounts, WindowExpires(a)
      PROVE  UNCHANGED <<reserveVars, snapshotVars>>
  BY <1>4 DEF WindowExpires
<1>5. CASE UNCHANGED vars
  BY <1>5 DEF vars, reserveVars, snapshotVars
<1> QED
  BY <1>1, <1>2, <1>3, <1>4, <1>5 DEF Next

-----------------------------------------------------------------------------
(* Types of the reservations and the snapshots.                            *)

CapacityOK == SnapshotOK /\ ReserveOK

\* Requests and reports of the constant sets, field by field.
LEMMA InputTypes ==
  /\ \A r \in OrderRequests :
       /\ r.account \in Accounts /\ r.ticker \in Tickers /\ r.direction \in Directions
       /\ r.price \in Nat /\ r.volume \in Nat /\ r.token \in Tokens \cup {0}
       /\ r.token # 0 => r.ticker = TokenTicker[<<r.account, r.token>>]
  /\ \A s \in OrderStatuses :
       /\ s.account \in Accounts /\ s.ticker \in Tickers /\ s.ref \in OrderRefs
       /\ s.side \in Sides /\ s.price \in Nat /\ s.token \in Tokens \cup {0}
       /\ s.token # 0 => s.ticker = TokenTicker[<<s.account, s.token>>]
BY InputsAssumption, TokenTickerAssumption DEF OrderRequest, OrderStatus

\* The amounts an order reserves.
LEMMA ReservedTypes ==
  ASSUME NEW r \in OrderRequests
  PROVE  ReservedBuy(r) \in Nat /\ ReservedSell(r) \in Nat
<1>1. r.price \in Nat /\ r.volume \in Nat
  BY InputTypes
<1>2. r.price * r.volume \in Nat
  BY <1>1
<1> QED
  BY <1>1, <1>2 DEF ReservedBuy, ReservedSell, Notional

LEMMA CapacityTypeInit == Init => CapacityOK
BY DEF Init, CapacityOK, SnapshotOK, ReserveOK, NoReservation

LEMMA CapacityTypeStep ==
  ASSUME CapacityOK, [Next]_vars
  PROVE  CapacityOK'
<1> USE DEF CapacityOK
<1>1. CASE UNCHANGED <<reserveVars, snapshotVars>>
  BY <1>1 DEF reserveVars, snapshotVars, SnapshotOK, ReserveOK
<1>2. ASSUME NEW r \in OrderRequests, Admission(r)
      PROVE  CapacityOK'
  <2>1. SnapshotOK'
    BY <1>2 DEF Admission, snapshotVars, SnapshotOK
  <2>2. CASE r.token = 0
    BY <1>2, <2>1, <2>2 DEF Admission, Reserve, reserveVars, ReserveOK
  <2>3. CASE r.token # 0
    <3>1. OrderTokenKey(r) \in TokenKeys /\ PositionKey(r) \in Positions /\ r.account \in Accounts
      BY <2>3, InputTypes DEF OrderTokenKey, PositionKey, TokenKeys, Positions
    <3>2. [held |-> TRUE, buy |-> ReservedBuy(r), sell |-> ReservedSell(r)]
             \in [held: BOOLEAN, buy: Nat, sell: Nat]
      BY ReservedTypes
    <3>3. orderReservation' \in [TokenKeys -> [held: BOOLEAN, buy: Nat, sell: Nat]]
      BY <1>2, <2>3, <3>1, <3>2 DEF Admission, Reserve, ReserveOK
    <3>4. reservedBuyAmount' \in [Accounts -> Nat]
      BY <1>2, <2>3, <3>1, ReservedTypes DEF Admission, Reserve, ReserveOK
    <3>5. reservedSellVolume' \in [Positions -> Nat]
      BY <1>2, <2>3, <3>1, ReservedTypes DEF Admission, Reserve, ReserveOK
    <3> QED
      BY <2>1, <3>3, <3>4, <3>5 DEF ReserveOK
  <2> QED
    BY <2>2, <2>3
<1>3. ASSUME NEW s \in OrderStatuses, Release(s)
      PROVE  CapacityOK'
  <2>1. SnapshotOK'
    BY <1>3 DEF Release, snapshotVars, SnapshotOK
  <2>2. CASE UNCHANGED reserveVars
    BY <2>1, <2>2 DEF reserveVars, ReserveOK
  <2>3. CASE s.status \in TerminalStatuses /\ s.token # 0 /\ orderReservation[OrderTokenKey(s)].held
    <3>1. OrderTokenKey(s) \in TokenKeys /\ PositionKey(s) \in Positions /\ s.account \in Accounts
      BY <2>3, InputTypes DEF OrderTokenKey, PositionKey, TokenKeys, Positions
    <3>2. orderReservation' \in [TokenKeys -> [held: BOOLEAN, buy: Nat, sell: Nat]]
      <4>1. orderReservation' = [orderReservation EXCEPT ![OrderTokenKey(s)] = NoReservation]
        BY <1>3, <2>3 DEF Release, ReleaseOrderReservation
      <4>2. NoReservation \in [held: BOOLEAN, buy: Nat, sell: Nat]
        BY DEF NoReservation
      <4> QED
        BY <3>1, <4>1, <4>2 DEF ReserveOK
    <3>3. reservedBuyAmount' \in [Accounts -> Nat]
      BY <1>3, <2>3, <3>1 DEF Release, ReleaseOrderReservation, ReserveOK
    <3>4. reservedSellVolume' \in [Positions -> Nat]
      BY <1>3, <2>3, <3>1 DEF Release, ReleaseOrderReservation, ReserveOK
    <3> QED
      BY <2>1, <3>2, <3>3, <3>4 DEF ReserveOK
  <2> QED
    BY <1>3, <2>2, <2>3 DEF Release, ReleaseOrderReservation
<1>4. ASSUME NEW a \in Accounts, NEW x \in FundSnapshots, FundUpdate(a, x)
      PROVE  CapacityOK'
  BY <1>4, InputsAssumption DEF FundUpdate, SnapshotOK, ReserveOK, reserveVars
<1>5. ASSUME NEW p \in Positions, NEW x \in PositionSnapshots, PositionUpdate(p, x)
      PROVE  CapacityOK'
  BY <1>5, InputsAssumption DEF PositionUpdate, SnapshotOK, ReserveOK, reserveVars
<1>6. CASE Restart
  BY <1>6 DEF Restart, SnapshotOK, ReserveOK, NoReservation
<1> QED
  BY <1>1, <1>2, <1>3, <1>4, <1>5, <1>6, CapacityCases

-----------------------------------------------------------------------------
(* Sums as cardinalities: Units(T, f) has one element per unit of f.       *)

Units(T, f) == UNION {{x} \X (1 .. f[x]) : x \in T}

LEMMA UnitsFinite ==
  ASSUME NEW T, IsFiniteSet(T), NEW f \in [T -> Nat]
  PROVE  IsFiniteSet(Units(T, f))
<1> DEFINE Image == {{x} \X (1 .. f[x]) : x \in T}
           g == [x \in T |-> {x} \X (1 .. f[x])]
<1>1. g \in Surjection(T, Image)
  BY DEF Surjection
<1>2. IsFiniteSet(Image)
  BY <1>1, FS_Surjection
<1>3. ASSUME NEW x \in T
      PROVE  IsFiniteSet({x} \X (1 .. f[x]))
  <2>1. IsFiniteSet({x})
    BY FS_Singleton
  <2>2. IsFiniteSet(1 .. f[x])
    BY FS_Interval
  <2> QED
    BY <2>1, <2>2, FS_Product
<1>4. \A S \in Image : IsFiniteSet(S)
  BY <1>3
<1>5. IsFiniteSet(UNION Image)
  BY <1>2, <1>4, FS_UNION
<1> QED
  BY <1>5 DEF Units

LEMMA UnitsEmpty ==
  ASSUME NEW T, NEW f, \A x \in T : f[x] = 0
  PROVE  Cardinality(Units(T, f)) = 0
<1>1. Units(T, f) = {}
  BY DEF Units
<1> QED
  BY <1>1, FS_EmptySet

\* Raising one element from 0 to g[k] adds g[k] units.
LEMMA UnitsGrow ==
  ASSUME NEW T, IsFiniteSet(T), NEW f \in [T -> Nat], NEW g \in [T -> Nat], NEW k \in T,
         f[k] = 0, \A x \in T : x # k => g[x] = f[x]
  PROVE  Cardinality(Units(T, g)) = Cardinality(Units(T, f)) + g[k]
<1> DEFINE N == {k} \X (1 .. g[k])
<1>1. IsFiniteSet(N) /\ Cardinality(N) = g[k]
  <2>1. IsFiniteSet({k}) /\ Cardinality({k}) = 1
    BY FS_Singleton
  <2>2. IsFiniteSet(1 .. g[k]) /\ Cardinality(1 .. g[k]) = g[k]
    <3>1. g[k] \in Nat /\ 1 \in Int /\ g[k] \in Int
      OBVIOUS
    <3>2. IsFiniteSet(1 .. g[k]) /\ Cardinality(1 .. g[k]) = IF 1 > g[k] THEN 0 ELSE g[k] - 1 + 1
      BY <3>1, FS_Interval
    <3> QED
      BY <3>1, <3>2
  <2>3. IsFiniteSet(N) /\ Cardinality(N) = Cardinality({k}) * Cardinality(1 .. g[k])
    BY <2>1, <2>2, FS_Product
  <2>4. g[k] \in Nat /\ 1 * g[k] = g[k]
    OBVIOUS
  <2> QED
    BY <2>1, <2>2, <2>3, <2>4
<1>2. Units(T, g) = Units(T, f) \cup N
  <2>1. ASSUME NEW e \in Units(T, g)
        PROVE  e \in Units(T, f) \cup N
    <3>1. PICK x \in T : e \in {x} \X (1 .. g[x])
      BY DEF Units
    <3>2. CASE x = k
      BY <3>1, <3>2
    <3>3. CASE x # k
      BY <3>1, <3>3 DEF Units
    <3> QED
      BY <3>2, <3>3
  <2>2. ASSUME NEW e \in Units(T, f)
        PROVE  e \in Units(T, g)
    <3>1. PICK x \in T : e \in {x} \X (1 .. f[x])
      BY DEF Units
    <3>2. x # k
      BY <3>1
    <3> QED
      BY <3>1, <3>2 DEF Units
  <2>3. N \subseteq Units(T, g)
    BY DEF Units
  <2>4. \A e : e \in Units(T, g) <=> e \in Units(T, f) \/ e \in N
    <3> HIDE DEF N
    <3> QED
      BY <2>1, <2>2, <2>3
  <2> QED
    BY <2>4
<1>3. Units(T, f) \cap N = {}
  <2>1. ASSUME NEW e \in Units(T, f), e \in N
        PROVE  FALSE
    <3>1. PICK x \in T : e \in {x} \X (1 .. f[x])
      BY DEF Units
    <3>2. x = k
      BY <2>1, <3>1
    <3> QED
      BY <3>1, <3>2
  <2> QED
    BY <2>1
<1>4. Cardinality(Units(T, f) \cap N) = 0
  BY <1>3, FS_EmptySet
<1>5. IsFiniteSet(Units(T, f)) /\ Cardinality(Units(T, f)) \in Nat
  BY UnitsFinite, FS_CardinalityType
<1>6. Cardinality(Units(T, f) \cup N)
         = Cardinality(Units(T, f)) + Cardinality(N) - Cardinality(Units(T, f) \cap N)
  BY <1>1, <1>5, FS_Union
<1>7. g[k] \in Nat
  OBVIOUS
<1> HIDE DEF N
<1> QED
  BY <1>1, <1>2, <1>4, <1>5, <1>6, <1>7

\* The units of the ledger, in this form.
BuyOf(hold, a)  == [x \in Tokens |-> hold[<<a, x>>].buy]
TokensOf(p)     == {x \in Tokens : TokenTicker[<<p[1], x>>] = p[2]}
SellOf(hold, p) == [x \in TokensOf(p) |-> hold[<<p[1], x>>].sell]

LEMMA UnitsOfLedger ==
  /\ \A a : Ledger!BuyUnits(a) = Units(Tokens, BuyOf(orderReservation, a))
  /\ \A p : Ledger!SellUnits(p) = Units(TokensOf(p), SellOf(orderReservation, p))
BY DEF Ledger!BuyUnits, Ledger!SellUnits, Units, BuyOf, SellOf, TokensOf

LEMMA UnitsOfLedgerNext ==
  /\ \A a : Ledger!BuyUnits(a)' = Units(Tokens, BuyOf(orderReservation', a))
  /\ \A p : Ledger!SellUnits(p)' = Units(TokensOf(p), SellOf(orderReservation', p))
BY DEF Ledger!BuyUnits, Ledger!SellUnits, Units, BuyOf, SellOf, TokensOf

-----------------------------------------------------------------------------
(* The running totals are the sums of the live reservations.               *)

\* A token that holds nothing is empty: ReleaseOrderReservation erases.
IdleEmpty == \A k \in TokenKeys : ~orderReservation[k].held => orderReservation[k] = NoReservation

CapacityInv == CapacityOK /\ IdleEmpty /\ ReservationsAccounted

LEMMA AmountTypes ==
  ASSUME NEW hold \in [TokenKeys -> [held: BOOLEAN, buy: Nat, sell: Nat]]
  PROVE  /\ \A a \in Accounts : BuyOf(hold, a) \in [Tokens -> Nat]
         /\ \A p \in Positions : SellOf(hold, p) \in [TokensOf(p) -> Nat]
BY DEF BuyOf, SellOf, TokensOf, TokenKeys, Positions

LEMMA TokensOfFinite == ASSUME NEW p PROVE IsFiniteSet(TokensOf(p))
BY TokensAssumption, FS_Subset DEF TokensOf

LEMMA CapacityInit == Init => CapacityInv
<1> SUFFICES ASSUME Init PROVE CapacityInv
  OBVIOUS
<1>1. \A a \in Accounts : Cardinality(Units(Tokens, BuyOf(orderReservation, a))) = 0
  BY UnitsEmpty DEF Init, BuyOf, NoReservation, TokenKeys
<1>2. \A p \in Positions : Cardinality(Units(TokensOf(p), SellOf(orderReservation, p))) = 0
  BY UnitsEmpty DEF Init, SellOf, TokensOf, NoReservation, TokenKeys, Positions
<1>3. ReservationsAccounted
  BY <1>1, <1>2, UnitsOfLedger DEF Init, ReservationsAccounted
<1> QED
  BY <1>3, CapacityTypeInit DEF Init, CapacityInv, IdleEmpty

\* An admission adds its amounts to the units of its account and position.
LEMMA AdmissionAccounted ==
  ASSUME CapacityInv, CapacityOK', NEW r \in OrderRequests, Admission(r)
  PROVE  IdleEmpty' /\ ReservationsAccounted'
<1>1. CASE r.token = 0
  BY <1>1, UnitsOfLedger, UnitsOfLedgerNext
  DEF Admission, Reserve, reserveVars, CapacityInv, IdleEmpty, ReservationsAccounted
<1>2. CASE r.token # 0
  <2> DEFINE k == OrderTokenKey(r)
             pos == PositionKey(r)
             old == orderReservation
             new == orderReservation'
  <2>1. /\ r.account \in Accounts /\ r.token \in Tokens /\ pos \in Positions /\ k \in TokenKeys
        /\ k = <<r.account, r.token>> /\ pos = <<r.account, r.ticker>>
        /\ r.ticker = TokenTicker[k]
    BY <1>2, InputTypes DEF OrderTokenKey, PositionKey, TokenKeys, Positions
  <2>2. /\ new = [old EXCEPT ![k] =
                     [held |-> TRUE, buy |-> ReservedBuy(r), sell |-> ReservedSell(r)]]
        /\ reservedBuyAmount' = [reservedBuyAmount EXCEPT ![r.account] = @ + ReservedBuy(r)]
        /\ reservedSellVolume' = [reservedSellVolume EXCEPT ![pos] = @ + ReservedSell(r)]
    BY <1>2 DEF Admission, Reserve
  <2>3. old[k] = NoReservation
    BY <1>2, <2>1 DEF Admission, OrderPasses, HasCapacity, DuplicateToken, CapacityInv, IdleEmpty
  <2>4. /\ old \in [TokenKeys -> [held: BOOLEAN, buy: Nat, sell: Nat]]
        /\ new \in [TokenKeys -> [held: BOOLEAN, buy: Nat, sell: Nat]]
    BY DEF CapacityInv, CapacityOK, ReserveOK
  <2>5. IdleEmpty'
    BY <2>1, <2>2, <2>4 DEF CapacityInv, IdleEmpty
  <2>6. ASSUME NEW a \in Accounts
        PROVE  reservedBuyAmount'[a] = Cardinality(Units(Tokens, BuyOf(new, a)))
    <3>1. reservedBuyAmount[a] = Cardinality(Units(Tokens, BuyOf(old, a)))
      BY UnitsOfLedger DEF CapacityInv, ReservationsAccounted
    <3>2. CASE a = r.account
      <4>1. /\ BuyOf(old, a)[r.token] = 0 /\ BuyOf(new, a)[r.token] = ReservedBuy(r)
            /\ \A x \in Tokens : x # r.token => BuyOf(new, a)[x] = BuyOf(old, a)[x]
        BY <2>1, <2>2, <2>3, <2>4, <3>2 DEF BuyOf, NoReservation, TokenKeys
      <4>2. Cardinality(Units(Tokens, BuyOf(new, a)))
              = Cardinality(Units(Tokens, BuyOf(old, a))) + ReservedBuy(r)
        <5>1. BuyOf(old, a) \in [Tokens -> Nat] /\ BuyOf(new, a) \in [Tokens -> Nat]
          BY <2>4, AmountTypes
        <5>2. IsFiniteSet(Tokens)
          BY TokensAssumption
        <5> HIDE DEF old, new
        <5> QED
          BY <2>1, <4>1, <5>1, <5>2, UnitsGrow
      <4> QED
        BY <2>1, <2>2, <3>1, <3>2, <4>2 DEF CapacityInv, CapacityOK, ReserveOK
    <3>3. CASE a # r.account
      <4>1. BuyOf(new, a) = BuyOf(old, a)
        BY <2>1, <2>2, <2>4, <3>3 DEF BuyOf, TokenKeys
      <4> QED
        BY <2>1, <2>2, <3>1, <3>3, <4>1 DEF CapacityInv, CapacityOK, ReserveOK
    <3> QED
      BY <3>2, <3>3
  <2>7. ASSUME NEW p \in Positions
        PROVE  reservedSellVolume'[p] = Cardinality(Units(TokensOf(p), SellOf(new, p)))
    <3>1. reservedSellVolume[p] = Cardinality(Units(TokensOf(p), SellOf(old, p)))
      BY UnitsOfLedger DEF CapacityInv, ReservationsAccounted
    <3>2. CASE p = pos
      <4>1. r.token \in TokensOf(p) /\ p[1] = r.account
        BY <2>1, <3>2 DEF TokensOf
      <4>2. /\ SellOf(old, p)[r.token] = 0 /\ SellOf(new, p)[r.token] = ReservedSell(r)
            /\ \A x \in TokensOf(p) : x # r.token => SellOf(new, p)[x] = SellOf(old, p)[x]
        BY <2>1, <2>2, <2>3, <2>4, <4>1 DEF SellOf, TokensOf, NoReservation, TokenKeys
      <4>3. Cardinality(Units(TokensOf(p), SellOf(new, p)))
              = Cardinality(Units(TokensOf(p), SellOf(old, p))) + ReservedSell(r)
        BY <2>4, <4>1, <4>2, AmountTypes, TokensOfFinite, UnitsGrow
      <4> QED
        BY <2>1, <2>2, <3>1, <3>2, <4>3 DEF CapacityInv, CapacityOK, ReserveOK
    <3>3. CASE p # pos
      <4>1. \A x \in TokensOf(p) : <<p[1], x>> # k
        BY <2>1, <3>3 DEF TokensOf, Positions
      <4>2. \A x \in TokensOf(p) : new[<<p[1], x>>] = old[<<p[1], x>>]
        BY <2>2, <2>4, <4>1 DEF TokensOf, TokenKeys, Positions
      <4>3. SellOf(new, p) = SellOf(old, p)
        BY <4>2 DEF SellOf
      <4> QED
        BY <2>1, <2>2, <3>1, <3>3, <4>3 DEF CapacityInv, CapacityOK, ReserveOK
    <3> QED
      BY <3>2, <3>3
  <2> QED
    BY <2>5, <2>6, <2>7, UnitsOfLedgerNext DEF ReservationsAccounted
<1> QED
  BY <1>1, <1>2

\* A terminal report takes them away again; the totals cover them, so the
\* max(0, ...) of the code never cuts anything off.
LEMMA ReleaseAccounted ==
  ASSUME CapacityInv, CapacityOK', NEW s \in OrderStatuses, Release(s)
  PROVE  IdleEmpty' /\ ReservationsAccounted'
<1>1. CASE UNCHANGED reserveVars
  BY <1>1, UnitsOfLedger, UnitsOfLedgerNext
  DEF reserveVars, CapacityInv, IdleEmpty, ReservationsAccounted
<1>2. CASE s.status \in TerminalStatuses /\ s.token # 0 /\ orderReservation[OrderTokenKey(s)].held
  <2> DEFINE k == OrderTokenKey(s)
             pos == PositionKey(s)
             old == orderReservation
             new == orderReservation'
             Less(x, y) == IF x >= y THEN x - y ELSE 0
  <2>1. /\ s.account \in Accounts /\ s.token \in Tokens /\ pos \in Positions /\ k \in TokenKeys
        /\ k = <<s.account, s.token>> /\ pos = <<s.account, s.ticker>>
        /\ s.ticker = TokenTicker[k]
    BY <1>2, InputTypes DEF OrderTokenKey, PositionKey, TokenKeys, Positions
  <2>2. /\ new = [old EXCEPT ![k] = NoReservation]
        /\ reservedBuyAmount' = [reservedBuyAmount EXCEPT ![s.account] = Less(@, old[k].buy)]
        /\ reservedSellVolume' = [reservedSellVolume EXCEPT ![pos] = Less(@, old[k].sell)]
    BY <1>2 DEF Release, ReleaseOrderReservation
  <2>3. /\ old \in [TokenKeys -> [held: BOOLEAN, buy: Nat, sell: Nat]]
        /\ new \in [TokenKeys -> [held: BOOLEAN, buy: Nat, sell: Nat]]
        /\ reservedBuyAmount \in [Accounts -> Nat] /\ reservedSellVolume \in [Positions -> Nat]
    BY DEF CapacityInv, CapacityOK, ReserveOK
  <2>4. old[k].buy \in Nat /\ old[k].sell \in Nat
    BY <2>1, <2>3
  <2>5. IdleEmpty'
    BY <2>1, <2>2, <2>3 DEF CapacityInv, IdleEmpty
  <2>6. ASSUME NEW a \in Accounts
        PROVE  reservedBuyAmount'[a] = Cardinality(Units(Tokens, BuyOf(new, a)))
    <3>1. reservedBuyAmount[a] = Cardinality(Units(Tokens, BuyOf(old, a)))
      BY UnitsOfLedger DEF CapacityInv, ReservationsAccounted
    <3>2. BuyOf(old, a) \in [Tokens -> Nat] /\ BuyOf(new, a) \in [Tokens -> Nat]
      BY <2>3, AmountTypes
    <3>3. IsFiniteSet(Tokens)
      BY TokensAssumption
    <3>4. CASE a = s.account
      <4>1. /\ BuyOf(new, a)[s.token] = 0 /\ BuyOf(old, a)[s.token] = old[k].buy
            /\ \A x \in Tokens : x # s.token => BuyOf(old, a)[x] = BuyOf(new, a)[x]
        BY <2>1, <2>2, <2>3, <3>4 DEF BuyOf, NoReservation, TokenKeys
      <4>2. Cardinality(Units(Tokens, BuyOf(old, a)))
              = Cardinality(Units(Tokens, BuyOf(new, a))) + old[k].buy
        <5> HIDE DEF old, new, k
        <5> QED
          BY <2>1, <3>2, <3>3, <4>1, UnitsGrow
      <4>3. Cardinality(Units(Tokens, BuyOf(new, a))) \in Nat
        BY <3>2, <3>3, UnitsFinite, FS_CardinalityType
      <4>4. reservedBuyAmount'[a] = Less(reservedBuyAmount[a], old[k].buy)
        BY <2>1, <2>2, <2>3, <3>4
      <4> HIDE DEF old, new, k
      <4> QED
        BY <2>4, <3>1, <4>2, <4>3, <4>4
    <3>5. CASE a # s.account
      <4>1. BuyOf(new, a) = BuyOf(old, a)
        BY <2>1, <2>2, <2>3, <3>5 DEF BuyOf, TokenKeys
      <4> QED
        BY <2>1, <2>2, <2>3, <3>1, <3>5, <4>1
    <3> QED
      BY <3>4, <3>5
  <2>7. ASSUME NEW p \in Positions
        PROVE  reservedSellVolume'[p] = Cardinality(Units(TokensOf(p), SellOf(new, p)))
    <3>1. reservedSellVolume[p] = Cardinality(Units(TokensOf(p), SellOf(old, p)))
      BY UnitsOfLedger DEF CapacityInv, ReservationsAccounted
    <3>2. SellOf(old, p) \in [TokensOf(p) -> Nat] /\ SellOf(new, p) \in [TokensOf(p) -> Nat]
      BY <2>3, AmountTypes
    <3>3. IsFiniteSet(TokensOf(p))
      BY TokensOfFinite
    <3>4. CASE p = pos
      <4>1. s.token \in TokensOf(p) /\ p[1] = s.account
        BY <2>1, <3>4 DEF TokensOf
      <4>2. /\ SellOf(new, p)[s.token] = 0 /\ SellOf(old, p)[s.token] = old[k].sell
            /\ \A x \in TokensOf(p) : x # s.token => SellOf(old, p)[x] = SellOf(new, p)[x]
        BY <2>1, <2>2, <2>3, <4>1 DEF SellOf, TokensOf, NoReservation, TokenKeys
      <4>3. Cardinality(Units(TokensOf(p), SellOf(old, p)))
              = Cardinality(Units(TokensOf(p), SellOf(new, p))) + old[k].sell
        <5> HIDE DEF old, new, k
        <5> QED
          BY <3>2, <3>3, <4>1, <4>2, UnitsGrow
      <4>4. Cardinality(Units(TokensOf(p), SellOf(new, p))) \in Nat
        BY <3>2, <3>3, UnitsFinite, FS_CardinalityType
      <4>5. reservedSellVolume'[p] = Less(reservedSellVolume[p], old[k].sell)
        BY <2>1, <2>2, <2>3, <3>4
      <4> HIDE DEF old, new, k
      <4> QED
        BY <2>4, <3>1, <4>3, <4>4, <4>5
    <3>5. CASE p # pos
      <4>1. \A x \in TokensOf(p) : <<p[1], x>> # k
        BY <2>1, <3>5 DEF TokensOf, Positions
      <4>2. \A x \in TokensOf(p) : new[<<p[1], x>>] = old[<<p[1], x>>]
        BY <2>2, <2>3, <4>1 DEF TokensOf, TokenKeys, Positions
      <4>3. SellOf(new, p) = SellOf(old, p)
        BY <4>2 DEF SellOf
      <4> QED
        BY <2>1, <2>2, <2>3, <3>1, <3>5, <4>3
    <3> QED
      BY <3>4, <3>5
  <2> QED
    BY <2>5, <2>6, <2>7, UnitsOfLedgerNext DEF ReservationsAccounted
<1> QED
  BY <1>1, <1>2 DEF Release, ReleaseOrderReservation

LEMMA CapacityStep ==
  ASSUME CapacityInv, [Next]_vars
  PROVE  CapacityInv'
<1>1. CapacityOK'
  BY CapacityTypeStep DEF CapacityInv
<1>2. CASE UNCHANGED reserveVars
  BY <1>1, <1>2, UnitsOfLedger, UnitsOfLedgerNext
  DEF reserveVars, CapacityInv, IdleEmpty, ReservationsAccounted
<1>3. ASSUME NEW r \in OrderRequests, Admission(r)
      PROVE  CapacityInv'
  BY <1>1, <1>3, AdmissionAccounted DEF CapacityInv
<1>4. ASSUME NEW s \in OrderStatuses, Release(s)
      PROVE  CapacityInv'
  BY <1>1, <1>4, ReleaseAccounted DEF CapacityInv
<1>5. CASE Restart
  <2>1. /\ \A a \in Accounts : Cardinality(Units(Tokens, BuyOf(orderReservation', a))) = 0
        /\ \A p \in Positions : Cardinality(Units(TokensOf(p), SellOf(orderReservation', p))) = 0
    BY <1>5, UnitsEmpty
    DEF Restart, BuyOf, SellOf, TokensOf, NoReservation, TokenKeys, Positions
  <2>2. ReservationsAccounted'
    BY <1>5, <2>1, UnitsOfLedgerNext DEF Restart, ReservationsAccounted
  <2> QED
    BY <1>1, <1>5, <2>2 DEF Restart, CapacityInv, IdleEmpty
<1> QED
  BY <1>2, <1>3, <1>4, <1>5, CapacityCases DEF FundUpdate, PositionUpdate

\* The running totals AccountCapacity keeps are, in every state, the sums of
\* what the live orders reserve.
THEOREM TotalsAreSums == Spec => []ReservationsAccounted
<1>1. Init => CapacityInv
  BY CapacityInit
<1>2. CapacityInv /\ [Next]_vars => CapacityInv'
  BY CapacityStep
<1>3. CapacityInv => ReservationsAccounted
  BY DEF CapacityInv
<1> QED
  BY <1>1, <1>2, <1>3, PTL DEF Spec

-----------------------------------------------------------------------------
(* The engine implements the ledger.                                       *)

LedgerVars == <<accountFund, accountPosition, orderReservation>>

\* The two modules count with the same operator.
LEMMA SameCardinality == ASSUME NEW S PROVE Ledger!Cardinality(S) = Cardinality(S)
BY Zenon DEF Ledger!Cardinality, Cardinality, Ledger!IsFiniteSet, IsFiniteSet

\* The guard on the running totals is the guard on the live orders.
LEMMA AdmissionImplements ==
  ASSUME CapacityInv, NEW r \in OrderRequests, Admission(r)
  PROVE  Ledger!Next \/ UNCHANGED LedgerVars
<1>1. CASE r.token = 0
  BY <1>1 DEF Admission, Reserve, reserveVars, snapshotVars, LedgerVars
<1>2. CASE r.token # 0
  <2> DEFINE k == OrderTokenKey(r)
             pos == PositionKey(r)
  <2>1. /\ r.account \in Accounts /\ r.token \in Tokens /\ pos \in Positions /\ k \in TokenKeys
        /\ k = <<r.account, r.token>> /\ pos = <<r.account, r.ticker>>
        /\ r.ticker = TokenTicker[k] /\ r.direction \in Directions
    BY <1>2, InputTypes DEF OrderTokenKey, PositionKey, TokenKeys, Positions
  <2>2. /\ orderReservation' = [orderReservation EXCEPT ![k] =
                [held |-> TRUE, buy |-> ReservedBuy(r), sell |-> ReservedSell(r)]]
        /\ UNCHANGED <<accountFund, accountPosition>>
    BY <1>2 DEF Admission, Reserve, snapshotVars
  <2>3. HasCapacity(r) /\ ~orderReservation[k].held
    BY <1>2 DEF Admission, OrderPasses, HasCapacity, DuplicateToken
  <2>4. ReservedBuy(r) \in Nat /\ ReservedSell(r) \in Nat
    BY ReservedTypes
  <2>5. /\ reservedBuyAmount[r.account] = Cardinality(Ledger!BuyUnits(r.account))
        /\ reservedSellVolume[pos] = Cardinality(Ledger!SellUnits(pos))
        /\ reservedBuyAmount[r.account] \in Nat /\ reservedSellVolume[pos] \in Nat
    BY <2>1 DEF CapacityInv, CapacityOK, ReserveOK, ReservationsAccounted
  <2>6. /\ accountFund[r.account] \in Nat \cup {NoSnapshot}
        /\ accountPosition[pos] \in Nat \cup {NoSnapshot}
    BY <2>1 DEF CapacityInv, CapacityOK, SnapshotOK
  <2>7. CASE r.direction = "EBUY"
    <3>1. ReservedBuy(r) = Notional(r) /\ ReservedSell(r) = 0
      BY <2>7 DEF ReservedBuy, ReservedSell
    <3>2. ReservedBuy(r) \in 0 .. (accountFund[r.account] - Cardinality(Ledger!BuyUnits(r.account)))
      BY <2>3, <2>4, <2>5, <2>6, <2>7, <3>1 DEF HasCapacity, NoSnapshot
    <3>3. Ledger!Admit(k, ReservedBuy(r), 0)
      BY <2>2, <2>3, <3>1 DEF Ledger!Admit
    <3>4. Ledger!AdmitBuy(r.account, r.token)
      BY <2>1, <3>2, <3>3, SameCardinality DEF Ledger!AdmitBuy
    <3> QED
      BY <2>1, <3>4 DEF Ledger!Next
  <2>8. CASE r.direction = "ESELL"
    <3>1. ReservedBuy(r) = 0 /\ ReservedSell(r) = r.volume
      BY <2>8 DEF ReservedBuy, ReservedSell
    <3>2. ReservedSell(r) \in 0 .. (accountPosition[pos] - Cardinality(Ledger!SellUnits(pos)))
      BY <2>3, <2>4, <2>5, <2>6, <2>8, <3>1 DEF HasCapacity, NoSnapshot
    <3>3. Ledger!Admit(k, 0, ReservedSell(r))
      BY <2>2, <2>3, <3>1 DEF Ledger!Admit
    <3>4. Ledger!AdmitSell(r.account, r.token)
      BY <2>1, <3>2, <3>3, SameCardinality DEF Ledger!AdmitSell
    <3> QED
      BY <2>1, <3>4 DEF Ledger!Next
  <2> QED
    BY <2>1, <2>7, <2>8 DEF Directions
<1> QED
  BY <1>1, <1>2

LEMMA ReleaseImplements ==
  ASSUME CapacityInv, NEW s \in OrderStatuses, Release(s)
  PROVE  Ledger!Next \/ UNCHANGED LedgerVars
<1>1. CASE UNCHANGED reserveVars
  BY <1>1 DEF Release, reserveVars, snapshotVars, LedgerVars
<1>2. CASE s.status \in TerminalStatuses /\ s.token # 0 /\ orderReservation[OrderTokenKey(s)].held
  <2>1. OrderTokenKey(s) \in Accounts \X Tokens
    BY <1>2, InputTypes DEF OrderTokenKey
  <2>2. Ledger!EndOrder(OrderTokenKey(s))
    BY <1>2 DEF Release, ReleaseOrderReservation, snapshotVars, Ledger!EndOrder,
       Ledger!NoHold, NoReservation
  <2> QED
    BY <2>1, <2>2 DEF Ledger!Next
<1> QED
  BY <1>1, <1>2 DEF Release, ReleaseOrderReservation

LEMMA LedgerStep ==
  ASSUME CapacityInv, [Next]_vars
  PROVE  [Ledger!Next]_LedgerVars
<1>1. CASE UNCHANGED <<reserveVars, snapshotVars>>
  BY <1>1 DEF reserveVars, snapshotVars, LedgerVars
<1>2. ASSUME NEW r \in OrderRequests, Admission(r)
      PROVE  Ledger!Next \/ UNCHANGED LedgerVars
  BY <1>2, AdmissionImplements
<1>3. ASSUME NEW s \in OrderStatuses, Release(s)
      PROVE  Ledger!Next \/ UNCHANGED LedgerVars
  BY <1>3, ReleaseImplements
<1>4. ASSUME NEW a \in Accounts, NEW x \in FundSnapshots, FundUpdate(a, x)
      PROVE  Ledger!Next
  <2>1. accountFund \in [Accounts -> Nat \cup {NoSnapshot}]
    BY DEF CapacityInv, CapacityOK, SnapshotOK
  <2>2. x \in Nat
    BY InputsAssumption
  <2>3. accountFund'[a] = x
    BY <1>4, <2>1 DEF FundUpdate
  <2>4. Ledger!Snapshot
    BY <1>4, <2>2, <2>3 DEF FundUpdate, reserveVars, Ledger!Snapshot
  <2> QED
    BY <2>4 DEF Ledger!Next
<1>5. ASSUME NEW p \in Positions, NEW x \in PositionSnapshots, PositionUpdate(p, x)
      PROVE  Ledger!Next
  <2>1. accountPosition \in [Positions -> Nat \cup {NoSnapshot}]
    BY DEF CapacityInv, CapacityOK, SnapshotOK
  <2>2. x \in Nat
    BY InputsAssumption
  <2>3. accountPosition'[p] = x
    BY <1>5, <2>1 DEF PositionUpdate
  <2>4. Ledger!Snapshot
    BY <1>5, <2>2, <2>3 DEF PositionUpdate, reserveVars, Positions, Ledger!Snapshot
  <2> QED
    BY <2>4 DEF Ledger!Next
<1>6. CASE Restart
  <2>1. Ledger!Restart
    BY <1>6 DEF Restart, Ledger!Restart, Ledger!Empty, Ledger!NoHold, Ledger!NoSnapshot,
       NoReservation, NoSnapshot, Positions, TokenKeys
  <2> QED
    BY <2>1 DEF Ledger!Next
<1> QED
  BY <1>1, <1>2, <1>3, <1>4, <1>5, <1>6, CapacityCases

\* The risk engine implements the ledger: an order is admitted only while the
\* latest snapshot covers it and every order admitted before and not ended.
THEOREM EngineImplementsLedger == Spec => ImplementsLedger
<1>1. Init => CapacityInv
  BY CapacityInit
<1>2. CapacityInv /\ [Next]_vars => CapacityInv'
  BY CapacityStep
<1>3. Init => Ledger!Init
  BY DEF Init, Ledger!Init, Ledger!Empty, Ledger!NoHold, Ledger!NoSnapshot,
     NoReservation, NoSnapshot, Positions, TokenKeys
<1>4. CapacityInv /\ [Next]_vars => [Ledger!Next]_LedgerVars
  BY LedgerStep
<1> QED
  BY <1>1, <1>2, <1>3, <1>4, PTL DEF Spec, ImplementsLedger, Ledger!Spec, LedgerVars

-----------------------------------------------------------------------------
(* The pending orders.                                                     *)

CancelCounted(a) == CountCancel(a) /\ UNCHANGED <<pendingOrder, tickerPending>>
Added(s)   == s.status \in PendingStatuses /\ AddPending(s)
Removed(s) == s.status \notin PendingStatuses /\ RemovePending(s)

LEMMA PendingCases ==
  ASSUME [Next]_vars
  PROVE  \/ UNCHANGED pendingVars
         \/ \E a \in ActionRequests : CancelCounted(a)
         \/ \E s \in OrderStatuses : Added(s) \/ Removed(s)
         \/ Restart
<1>1. CASE PollRequest
  <2>1. ASSUME NEW r \in OrderRequests, HandleOrderRequest(r)
        PROVE  UNCHANGED pendingVars
    BY <2>1 DEF HandleOrderRequest
  <2>2. ASSUME NEW a \in ActionRequests, HandleActionRequest(a)
        PROVE  CancelCounted(a)
    BY <2>2 DEF HandleActionRequest, CancelCounted
  <2>3. ASSUME NEW s \in OrderStatuses, HandleOrderStatus(s)
        PROVE  Added(s) \/ Removed(s)
    BY <2>3 DEF HandleOrderStatus, Added, Removed
  <2>4. ASSUME NEW a \in Accounts, NEW x \in FundSnapshots, UpdateAccountFund(a, x)
        PROVE  UNCHANGED pendingVars
    BY <2>4 DEF UpdateAccountFund
  <2>5. ASSUME NEW p \in Positions, NEW x \in PositionSnapshots, UpdateAccountPosition(p, x)
        PROVE  UNCHANGED pendingVars
    BY <2>5 DEF UpdateAccountPosition
  <2> QED
    BY <1>1, <2>1, <2>2, <2>3, <2>4, <2>5 DEF PollRequest, HandleRequest
<1>2. CASE HandleResponse
  BY <1>2 DEF HandleResponse
<1>3. CASE PollCommand
  <2>1. ASSUME NEW l, NEW ok, NEW counted, UpdateRiskLimit(l, ok, counted)
        PROVE  UNCHANGED pendingVars
    BY <2>1 DEF UpdateRiskLimit
  <2>2. ASSUME NEW a, NEW l, NEW ok, UpdateAccountLocked(a, l, ok)
        PROVE  UNCHANGED pendingVars
    BY <2>2 DEF UpdateAccountLocked
  <2> QED
    BY <1>3, <2>1, <2>2 DEF PollCommand, HandleRiskCommand
<1>4. ASSUME NEW a \in Accounts, WindowExpires(a)
      PROVE  UNCHANGED pendingVars
  BY <1>4 DEF WindowExpires
<1>5. CASE UNCHANGED vars
  BY <1>5 DEF vars, pendingVars
<1> QED
  BY <1>1, <1>2, <1>3, <1>4, <1>5 DEF Next

\* Every pending order has the ticker of its reference, so a report removes it
\* from the list it is in.
TickerOfRef ==
  /\ ~pendingOrder[NoRef].pending
  /\ \A ref \in OrderRefs :
       pendingOrder[ref].pending => pendingOrder[ref].ticker = RefTicker[ref]

PendingInv == PendingOK /\ TickerOfRef /\ PendingAgree /\ CancelCountsOfPending

LEMMA PendingInit == Init => PendingInv
<1> SUFFICES ASSUME Init PROVE PendingInv
  OBVIOUS
<1>1. \A ref \in OrderRefs : pendingOrder[ref] = NotPending /\ ~pendingOrder[ref].pending
  BY DEF Init, NotPending
<1>2. PendingOK
  BY DEF Init, PendingOK, NotPending
<1>3. PendingAgree
  BY <1>1 DEF Init, PendingAgree
<1> QED
  BY <1>1, <1>2, <1>3, RefTickerAssumption
  DEF Init, PendingInv, TickerOfRef, CancelCountsOfPending

LEMMA CancelCountedStep ==
  ASSUME PendingInv, NEW a \in ActionRequests, CancelCounted(a)
  PROVE  PendingInv'
<1>1. a.ref \in OrderRefs
  BY InputsAssumption DEF ActionRequest
<1>2. orderCancelled' \in [OrderRefs -> Nat]
  BY <1>1 DEF PendingInv, PendingOK, CancelCounted, CountCancel
<1>3. CancelCountsOfPending'
  BY <1>1 DEF PendingInv, PendingOK, CancelCountsOfPending, CancelCounted, CountCancel,
     CountsCancel
<1> QED
  BY <1>2, <1>3 DEF PendingInv, PendingOK, TickerOfRef, PendingAgree, CancelCounted

LEMMA AddedStep ==
  ASSUME PendingInv, NEW s \in OrderStatuses, Added(s)
  PROVE  PendingInv'
<1>1. CASE pendingOrder[s.ref].pending
  BY <1>1 DEF Added, AddPending, PendingInv, PendingOK, TickerOfRef, PendingAgree,
     CancelCountsOfPending
<1>2. CASE ~pendingOrder[s.ref].pending
  <2>1. /\ s.ref \in OrderRefs /\ s.account \in Accounts /\ s.ticker \in Tickers
        /\ s.side \in Sides /\ s.price \in Nat
    BY InputTypes
  <2>2. s.ticker = RefTicker[s.ref] /\ s.ref # NoRef /\ NoRef \in OrderRefs
    BY RefTickerAssumption DEF Added
  <2>3. AsPending(s) \in PendingOrder /\ AsPending(s).pending /\ AsPending(s).ref = s.ref
        /\ AsPending(s).ticker = s.ticker
    BY <2>1 DEF AsPending, PendingOrder
  <2>4. /\ pendingOrder' = [pendingOrder EXCEPT ![s.ref] = AsPending(s)]
        /\ tickerPending' = [tickerPending EXCEPT ![s.ticker] = @ \cup {AsPending(s)}]
        /\ UNCHANGED orderCancelled
    BY <1>2 DEF Added, AddPending
  <2>5. PendingOK'
    BY <2>1, <2>3, <2>4 DEF PendingInv, PendingOK
  <2>6. TickerOfRef'
    BY <2>1, <2>2, <2>3, <2>4 DEF PendingInv, PendingOK, TickerOfRef
  <2>7. \A ref \in OrderRefs : ref # s.ref => pendingOrder'[ref] = pendingOrder[ref]
    BY <2>1, <2>4 DEF PendingInv, PendingOK
  <2>8. pendingOrder'[s.ref] = AsPending(s)
    BY <2>1, <2>4 DEF PendingInv, PendingOK
  <2>9. ASSUME NEW t \in Tickers
        PROVE  tickerPending'[t] =
                 {pendingOrder'[ref] : ref \in {x \in OrderRefs :
                     pendingOrder'[x].pending /\ pendingOrder'[x].ticker = t}}
    <3>1. tickerPending[t] =
            {pendingOrder[ref] : ref \in {x \in OrderRefs :
                pendingOrder[x].pending /\ pendingOrder[x].ticker = t}}
      BY DEF PendingInv, PendingAgree
    <3>2. CASE t = s.ticker
      <4>1. tickerPending'[t] = tickerPending[t] \cup {AsPending(s)}
        BY <2>1, <2>4, <3>2 DEF PendingInv, PendingOK
      <4> QED
        BY <1>2, <2>1, <2>3, <2>7, <2>8, <3>1, <3>2, <4>1
    <3>3. CASE t # s.ticker
      <4>1. tickerPending'[t] = tickerPending[t]
        BY <2>1, <2>4, <3>3 DEF PendingInv, PendingOK
      <4> QED
        BY <1>2, <2>1, <2>3, <2>7, <2>8, <3>1, <3>3, <4>1
    <3> QED
      BY <3>2, <3>3
  <2>10. PendingAgree'
    BY <2>3, <2>7, <2>8, <2>9 DEF PendingInv, PendingAgree
  <2>11. CancelCountsOfPending'
    BY <2>3, <2>4, <2>7, <2>8 DEF PendingInv, CancelCountsOfPending
  <2> QED
    BY <2>5, <2>6, <2>10, <2>11 DEF PendingInv
<1> QED
  BY <1>1, <1>2

LEMMA RemovedStep ==
  ASSUME PendingInv, NEW s \in OrderStatuses, Removed(s)
  PROVE  PendingInv'
<1>1. s.ref \in OrderRefs /\ s.ticker \in Tickers /\ NoRef \in OrderRefs
  BY InputTypes, RefTickerAssumption
<1>2. s.ref = NoRef \/ s.ticker = RefTicker[s.ref]
  BY RefTickerAssumption
<1>3. /\ pendingOrder' = [pendingOrder EXCEPT ![s.ref] = NotPending]
      /\ tickerPending' = [tickerPending EXCEPT ![s.ticker] = {o \in @ : o.ref # s.ref}]
      /\ orderCancelled' = [orderCancelled EXCEPT ![s.ref] = 0]
  BY DEF Removed, RemovePending
<1>4. PendingOK'
  BY <1>1, <1>3 DEF PendingInv, PendingOK
<1>5. \A ref \in OrderRefs : ref # s.ref => pendingOrder'[ref] = pendingOrder[ref]
  BY <1>1, <1>3 DEF PendingInv, PendingOK
<1>6. ~pendingOrder'[s.ref].pending
  BY <1>1, <1>3 DEF PendingInv, PendingOK, NotPending
<1>7. TickerOfRef'
  BY <1>1, <1>5, <1>6 DEF PendingInv, TickerOfRef
<1>8. CancelCountsOfPending'
  BY <1>1, <1>3, <1>5 DEF PendingInv, PendingOK, CancelCountsOfPending
<1>9. ASSUME NEW t \in Tickers
      PROVE  tickerPending'[t] =
               {pendingOrder'[ref] : ref \in {x \in OrderRefs :
                   pendingOrder'[x].pending /\ pendingOrder'[x].ticker = t}}
  <2>1. tickerPending[t] =
          {pendingOrder[ref] : ref \in {x \in OrderRefs :
              pendingOrder[x].pending /\ pendingOrder[x].ticker = t}}
    BY DEF PendingInv, PendingAgree
  <2>2. \A ref \in OrderRefs : pendingOrder[ref].pending => pendingOrder[ref].ref = ref
    BY DEF PendingInv, PendingAgree
  <2>3. {pendingOrder'[ref] : ref \in {x \in OrderRefs :
             pendingOrder'[x].pending /\ pendingOrder'[x].ticker = t}}
          = {o \in tickerPending[t] : o.ref # s.ref}
    BY <1>1, <1>5, <1>6, <2>1, <2>2
  <2>4. CASE t = s.ticker
    BY <1>1, <1>3, <2>3, <2>4 DEF PendingInv, PendingOK
  <2>5. CASE t # s.ticker
    <3>1. \A o \in tickerPending[t] : o.ref # s.ref
      BY <1>1, <1>2, <2>1, <2>2, <2>5 DEF PendingInv, TickerOfRef
    <3>2. tickerPending'[t] = tickerPending[t]
      BY <1>1, <1>3, <2>5 DEF PendingInv, PendingOK
    <3> QED
      BY <2>3, <3>1, <3>2
  <2> QED
    BY <2>4, <2>5
<1>10. PendingAgree'
  BY <1>5, <1>6, <1>9 DEF PendingInv, PendingAgree
<1> QED
  BY <1>4, <1>7, <1>8, <1>10 DEF PendingInv

LEMMA PendingStep ==
  ASSUME PendingInv, [Next]_vars
  PROVE  PendingInv'
<1>1. CASE UNCHANGED pendingVars
  BY <1>1 DEF pendingVars, PendingInv, PendingOK, TickerOfRef, PendingAgree,
     CancelCountsOfPending
<1>2. ASSUME NEW a \in ActionRequests, CancelCounted(a)
      PROVE  PendingInv'
  BY <1>2, CancelCountedStep
<1>3. ASSUME NEW s \in OrderStatuses, Added(s) \/ Removed(s)
      PROVE  PendingInv'
  BY <1>3, AddedStep, RemovedStep
<1>4. CASE Restart
  <2>1. /\ pendingOrder' = [ref \in OrderRefs |-> NotPending]
        /\ tickerPending' = [t \in Tickers |-> {}]
        /\ orderCancelled' = [ref \in OrderRefs |-> 0]
    BY <1>4 DEF Restart
  <2>2. \A ref \in OrderRefs : pendingOrder'[ref] = NotPending /\ ~pendingOrder'[ref].pending
    BY <2>1 DEF NotPending
  <2>3. PendingOK'
    BY <2>1 DEF PendingOK, NotPending
  <2>4. PendingAgree'
    BY <2>1, <2>2 DEF PendingAgree
  <2> QED
    BY <2>1, <2>2, <2>3, <2>4, RefTickerAssumption
    DEF PendingInv, TickerOfRef, CancelCountsOfPending
<1> QED
  BY <1>1, <1>2, <1>3, <1>4, PendingCases

\* CancelLimited and SelfMatched see the same orders, under their references.
THEOREM PendingMapsAgree == Spec => []PendingAgree
<1>1. Init => PendingInv
  BY PendingInit
<1>2. PendingInv /\ [Next]_vars => PendingInv'
  BY PendingStep
<1>3. PendingInv => PendingAgree
  BY DEF PendingInv
<1> QED
  BY <1>1, <1>2, <1>3, PTL DEF Spec

\* No count of cancel requests outlives the pending order it counts for.
THEOREM CancelCountsEndWithOrder == Spec => []CancelCountsOfPending
<1>1. Init => PendingInv
  BY PendingInit
<1>2. PendingInv /\ [Next]_vars => PendingInv'
  BY PendingStep
<1>3. PendingInv => CancelCountsOfPending
  BY DEF PendingInv
<1> QED
  BY <1>1, <1>2, <1>3, PTL DEF Spec

-----------------------------------------------------------------------------
(* The remaining types.                                                    *)

Answers == UNCHANGED <<responses, blocked>> \/ \E msgs \in Seq(Responses) : Respond(msgs)

LEMMA RespondType ==
  ASSUME responses \in Seq(Responses), NEW msgs \in Seq(Responses), Respond(msgs)
  PROVE  responses' \in Seq(Responses) /\ Len(responses') <= ResponseCap /\ blocked' \in BOOLEAN
<1> DEFINE all == responses \o msgs
           n == IF Len(all) <= ResponseCap THEN Len(all) ELSE ResponseCap
<1>1. all \in Seq(Responses) /\ Len(all) \in Nat
  BY ConcatProperties, LenProperties
<1>2. ResponseCap \in Nat
  BY BoundsAssumption
<1>3. n \in 0 .. Len(all) /\ n <= ResponseCap
  BY <1>1, <1>2
<1>4. SubSeq(all, 1, n) \in Seq(Responses) /\ Len(SubSeq(all, 1, n)) = n
  <2>1. \A i \in 1 .. n : all[i] \in Responses
    BY <1>1, <1>3, ElementOfSeq
  <2> HIDE DEF all, n
  <2> QED
    BY <1>1, <1>3, <2>1, SubSeqProperties
<1>5. responses' = SubSeq(all, 1, n) /\ blocked' = (Len(all) > ResponseCap)
  BY DEF Respond
<1> HIDE DEF n
<1> QED
  BY <1>3, <1>4, <1>5

LEMMA ReportsType == ASSUME NEW n \in Nat PROVE Reports(n) \in Seq(Responses)
BY DEF Reports, Responses

LEMMA RowCounts ==
  /\ \A count : CountRows(count) \in Nat
  /\ \A lock : LockRows(lock) \in Nat
<1>1. IsFiniteSet(Positions) /\ IsFiniteSet(Accounts)
  BY SetsAssumption, FS_Product DEF Positions
<1>2. ASSUME NEW count
      PROVE  CountRows(count) \in Nat
  BY <1>1, FS_Subset, FS_CardinalityType DEF CountRows
<1>3. ASSUME NEW lock
      PROVE  LockRows(lock) \in Nat
  BY <1>1, FS_Subset, FS_CardinalityType DEF LockRows
<1> QED
  BY <1>2, <1>3

\* Every handler answers with messages of the engine, or not at all.
LEMMA HandlersAnswer ==
  /\ HandleRequest => Answers
  /\ HandleRiskCommand => Answers
<1>1. ASSUME NEW r \in OrderRequests, HandleOrderRequest(r)
      PROVE  Answers
  <2>1. \A st \in RiskStatuses : OrderReply(r, st) \in Responses
    BY DEF Responses
  <2>2. Report \in Responses /\ {"ECHECK_INIT", "ECHECKED_PASS", "ECHECKED_NOPASS"} = RiskStatuses
    BY DEF Responses, RiskStatuses
  <2>3. /\ <<OrderReply(r, "ECHECK_INIT")>> \in Seq(Responses)
        /\ <<OrderReply(r, "ECHECKED_PASS")>> \in Seq(Responses)
        /\ <<Report, OrderReply(r, "ECHECKED_NOPASS")>> \in Seq(Responses)
    BY <2>1, <2>2
  <2> QED
    BY <1>1, <2>3 DEF HandleOrderRequest, Answers
<1>2. ASSUME NEW a \in ActionRequests, HandleActionRequest(a)
      PROVE  Answers
  <2>1. \A st \in RiskStatuses : ActionReply(a, st) \in Responses
    BY DEF Responses
  <2>2. Report \in Responses /\ {"ECHECKED_PASS", "ECHECKED_NOPASS"} \subseteq RiskStatuses
    BY DEF Responses, RiskStatuses
  <2>3. /\ <<ActionReply(a, "ECHECKED_PASS")>> \in Seq(Responses)
        /\ <<Report, ActionReply(a, "ECHECKED_NOPASS")>> \in Seq(Responses)
    BY <2>1, <2>2
  <2> QED
    BY <1>2, <2>3 DEF HandleActionRequest, Answers
<1>3. ASSUME NEW s \in OrderStatuses, HandleOrderStatus(s)
      PROVE  Answers
  <2>1. <<Report>> \in Seq(Responses)
    BY DEF Responses
  <2> QED
    BY <1>3, <2>1 DEF HandleOrderStatus, Answers
<1>4. ASSUME NEW l, NEW ok, NEW counted, UpdateRiskLimit(l, ok, counted)
      PROVE  Answers
  <2>1. Reports(2) \in Seq(Responses) /\ Reports(CountRows(tickerCancelled) + 2) \in Seq(Responses)
    BY ReportsType, RowCounts
  <2> QED
    BY <1>4, <2>1 DEF UpdateRiskLimit, Answers
<1>5. ASSUME NEW a, NEW l, NEW ok, UpdateAccountLocked(a, l, ok)
      PROVE  Answers
  <2>1. \A lock : Reports(LockRows(lock) + 1) \in Seq(Responses)
    BY ReportsType, RowCounts
  <2>2. Reports(1) \in Seq(Responses)
    BY ReportsType
  <2> QED
    BY <1>5, <2>1, <2>2 DEF UpdateAccountLocked, Answers
<1>6. Reports(1) \in Seq(Responses)
  BY ReportsType
<1>7. HandleRequest => Answers
  BY <1>1, <1>2, <1>3 DEF HandleRequest, UpdateAccountFund, UpdateAccountPosition, Answers
<1>8. HandleRiskCommand => Answers
  BY <1>4, <1>5, <1>6 DEF HandleRiskCommand, Answers
<1> QED
  BY <1>7, <1>8

LEMMA ThreadTypeStep ==
  ASSUME ThreadOK, [Next]_vars
  PROVE  ThreadOK'
<1>1. ASSUME Answers, turn' \in {"request", "response", "command"}
      PROVE  ThreadOK'
  BY <1>1, RespondType DEF ThreadOK, Answers
<1>2. CASE PollRequest
  BY <1>1, <1>2, HandlersAnswer DEF PollRequest, Poll, Answers
<1>3. CASE HandleResponse
  <2>1. turn' \in {"request", "response", "command"} /\ blocked' \in BOOLEAN
    BY <1>3 DEF HandleResponse, Poll, ThreadOK
  <2>2. CASE responses = <<>>
    BY <1>3, <2>1, <2>2 DEF HandleResponse, ThreadOK
  <2>3. CASE responses # <<>>
    <3>1. Tail(responses) \in Seq(Responses) /\ Len(Tail(responses)) = Len(responses) - 1
      BY <2>3, HeadTailProperties DEF ThreadOK
    <3>2. Len(responses) \in Nat /\ ResponseCap \in Nat
      BY LenProperties, BoundsAssumption DEF ThreadOK
    <3> QED
      BY <1>3, <2>1, <2>3, <3>1, <3>2 DEF HandleResponse, ThreadOK
  <2> QED
    BY <2>2, <2>3
<1>4. CASE PollCommand
  BY <1>1, <1>4, HandlersAnswer DEF PollCommand, Poll, Answers
<1>5. ASSUME NEW a \in Accounts, WindowExpires(a)
      PROVE  ThreadOK'
  BY <1>5 DEF WindowExpires, threadVars, ThreadOK
<1>6. CASE Restart
  <2> DEFINE n == 1 + CountRows(dbTickerCancelled) + LockRows(dbAccountLocked)
             m == IF n <= ResponseCap THEN n ELSE ResponseCap
  <2>1. n \in Nat /\ ResponseCap \in Nat
    BY RowCounts, BoundsAssumption
  <2>2. m \in Nat /\ m <= ResponseCap
    BY <2>1
  <2>3. Reports(m) \in Seq(Responses) /\ Len(Reports(m)) = m
    <3> HIDE DEF m
    <3> QED
      BY <2>2, ReportsType DEF Reports
  <2>4. responses' = Reports(m) /\ blocked' = (n > ResponseCap) /\ turn' = "request"
    BY <1>6 DEF Restart, LoadConfig
  <2> HIDE DEF m
  <2> QED
    BY <2>2, <2>3, <2>4 DEF ThreadOK
<1>7. CASE UNCHANGED vars
  BY <1>7 DEF vars, threadVars, ThreadOK
<1> QED
  BY <1>2, <1>3, <1>4, <1>5, <1>6, <1>7 DEF Next

\* The handlers' part in the flow counters, the cancel counts and the settings.
LimitUpdate(l) ==
  /\ dbLimits' \in {l, dbLimits} /\ limits' = dbLimits'
  /\ UNCHANGED <<accountLocked, dbAccountLocked>>
LockUpdate(a, l) ==
  /\ \/ dbAccountLocked' = dbAccountLocked
     \/ dbAccountLocked' = [dbAccountLocked EXCEPT ![a] = l]
  /\ \/ accountLocked' = accountLocked
     \/ \E erased : accountLocked' = [b \in Accounts |->
           IF b \in erased THEN Unlocked ELSE ReloadLocks(dbAccountLocked', accountLocked)[b]]
  /\ UNCHANGED <<limits, dbLimits>>
Reloaded ==
  /\ tickerCancelled' = ReloadCounts(dbTickerCancelled, tickerCancelled)
  /\ UNCHANGED dbTickerCancelled

LEMMA CounterCases ==
  ASSUME [Next]_vars
  PROVE  /\ \/ UNCHANGED flowVars
            \/ \E a \in Accounts : CountFlow(a) \/ WindowExpires(a)
            \/ Restart
         /\ \/ UNCHANGED countVars
            \/ \E s \in OrderStatuses, ok \in DBResults : CountTickerCancel(s, ok)
            \/ Reloaded
            \/ Restart
         /\ \/ UNCHANGED settingVars
            \/ \E l \in LimitSettings : LimitUpdate(l)
            \/ \E a \in Accounts, l \in LockSettings : LockUpdate(a, l)
            \/ Restart
<1>1. CASE PollRequest
  <2>1. ASSUME NEW r \in OrderRequests, HandleOrderRequest(r)
        PROVE  /\ UNCHANGED flowVars \/ CountFlow(r.account)
               /\ UNCHANGED <<countVars, settingVars>>
    BY <2>1 DEF HandleOrderRequest
  <2>2. ASSUME NEW a \in ActionRequests, HandleActionRequest(a)
        PROVE  CountFlow(a.account) /\ UNCHANGED <<countVars, settingVars>>
    BY <2>2 DEF HandleActionRequest
  <2>3. ASSUME NEW s \in OrderStatuses, HandleOrderStatus(s)
        PROVE  /\ UNCHANGED <<flowVars, settingVars>>
               /\ UNCHANGED countVars \/ \E ok \in DBResults : CountTickerCancel(s, ok)
    BY <2>3 DEF HandleOrderStatus
  <2>4. ASSUME NEW a \in Accounts, NEW x \in FundSnapshots, UpdateAccountFund(a, x)
        PROVE  UNCHANGED <<flowVars, countVars, settingVars>>
    BY <2>4 DEF UpdateAccountFund
  <2>5. ASSUME NEW p \in Positions, NEW x \in PositionSnapshots, UpdateAccountPosition(p, x)
        PROVE  UNCHANGED <<flowVars, countVars, settingVars>>
    BY <2>5 DEF UpdateAccountPosition
  <2>6. /\ \A r \in OrderRequests : r.account \in Accounts
        /\ \A a \in ActionRequests : a.account \in Accounts
    BY InputTypes, InputsAssumption DEF ActionRequest
  <2> QED
    BY <1>1, <2>1, <2>2, <2>3, <2>4, <2>5, <2>6 DEF PollRequest, HandleRequest
<1>2. CASE HandleResponse
  BY <1>2 DEF HandleResponse
<1>3. CASE PollCommand
  <2>1. ASSUME NEW l, NEW ok, NEW counted, UpdateRiskLimit(l, ok, counted)
        PROVE  UNCHANGED flowVars /\ (UNCHANGED countVars \/ Reloaded) /\ LimitUpdate(l)
    BY <2>1 DEF UpdateRiskLimit, Reloaded, LimitUpdate, countVars
  <2>2. ASSUME NEW a, NEW l, NEW ok, UpdateAccountLocked(a, l, ok)
        PROVE  UNCHANGED <<flowVars, countVars>> /\ LockUpdate(a, l)
    <3>1. CASE UNCHANGED <<accountLocked, dbAccountLocked>>
      BY <2>2, <3>1 DEF UpdateAccountLocked, LockUpdate
    <3>2. CASE ~(l = Unlocked /\ accountLocked[a] = Unlocked)
      <4>1. dbAccountLocked' = IF ok THEN [dbAccountLocked EXCEPT ![a] = l] ELSE dbAccountLocked
        BY <2>2, <3>2 DEF UpdateAccountLocked
      <4>2. \E erased : accountLocked' = [b \in Accounts |->
                IF b \in erased THEN Unlocked
                                ELSE ReloadLocks(dbAccountLocked', accountLocked)[b]]
        BY <2>2, <3>2, <4>1 DEF UpdateAccountLocked
      <4> QED
        BY <2>2, <4>1, <4>2 DEF UpdateAccountLocked, LockUpdate
    <3> QED
      BY <2>2, <3>1, <3>2 DEF UpdateAccountLocked
  <2> QED
    BY <1>3, <2>1, <2>2 DEF PollCommand, HandleRiskCommand
<1>4. ASSUME NEW a \in Accounts, WindowExpires(a)
      PROVE  UNCHANGED <<countVars, settingVars>>
  BY <1>4 DEF WindowExpires
<1>5. CASE UNCHANGED vars
  BY <1>5 DEF vars, flowVars, countVars, settingVars
<1> QED
  BY <1>1, <1>2, <1>3, <1>4, <1>5 DEF Next

LEMMA LockTypes ==
  /\ Unlocked \in Lock
  /\ \A l \in LockSettings : l \in Lock
BY SettingsAssumption DEF Unlocked, Lock, LockSides

CounterOK == FlowOK /\ CountOK /\ SettingOK

LEMMA CounterTypeInit == Init => CounterOK
BY LockTypes, SettingsAssumption DEF Init, CounterOK, FlowOK, CountOK, SettingOK

LEMMA CounterTypeStep ==
  ASSUME CounterOK, [Next]_vars
  PROVE  CounterOK'
<1>1. FlowOK'
  <2>1. ASSUME NEW a \in Accounts, CountFlow(a)
        PROVE  FlowOK'
    BY <2>1 DEF CountFlow, FlowCount, CounterOK, FlowOK
  <2>2. ASSUME NEW a \in Accounts, WindowExpires(a)
        PROVE  FlowOK'
    BY <2>2 DEF WindowExpires, CounterOK, FlowOK
  <2>3. CASE UNCHANGED flowVars
    BY <2>3 DEF flowVars, CounterOK, FlowOK
  <2>4. CASE Restart
    BY <2>4 DEF Restart, FlowOK
  <2> QED
    BY <2>1, <2>2, <2>3, <2>4, CounterCases
<1>2. CountOK'
  <2>1. ASSUME NEW s \in OrderStatuses, NEW ok, CountTickerCancel(s, ok)
        PROVE  CountOK'
    <3>1. PositionKey(s) \in Positions
      BY InputTypes DEF PositionKey, Positions
    <3> QED
      BY <2>1, <3>1 DEF CountTickerCancel, CounterOK, CountOK
  <2>2. CASE Reloaded
    BY <2>2 DEF Reloaded, ReloadCounts, CounterOK, CountOK
  <2>3. CASE UNCHANGED countVars
    BY <2>3 DEF countVars, CounterOK, CountOK
  <2>4. CASE Restart
    BY <2>4 DEF Restart, LoadConfig, CounterOK, CountOK
  <2> QED
    BY <2>1, <2>2, <2>3, <2>4, CounterCases
<1>3. SettingOK'
  <2>1. ASSUME NEW l \in LimitSettings, LimitUpdate(l)
        PROVE  SettingOK'
    BY <2>1, SettingsAssumption DEF LimitUpdate, CounterOK, SettingOK
  <2>2. ASSUME NEW a \in Accounts, NEW l \in LockSettings, LockUpdate(a, l)
        PROVE  SettingOK'
    <3>1. dbAccountLocked' \in [Accounts -> Lock]
      BY <2>2, LockTypes DEF LockUpdate, CounterOK, SettingOK
    <3>2. ReloadLocks(dbAccountLocked', accountLocked) \in [Accounts -> Lock]
      BY <3>1 DEF ReloadLocks, CounterOK, SettingOK
    <3>3. accountLocked' \in [Accounts -> Lock]
      BY <2>2, <3>2, LockTypes DEF LockUpdate, CounterOK, SettingOK
    <3> QED
      BY <2>2, <3>1, <3>3 DEF LockUpdate, CounterOK, SettingOK
  <2>3. CASE UNCHANGED settingVars
    BY <2>3 DEF settingVars, CounterOK, SettingOK
  <2>4. CASE Restart
    BY <2>4 DEF Restart, LoadConfig, CounterOK, SettingOK
  <2> QED
    BY <2>1, <2>2, <2>3, <2>4, CounterCases
<1> QED
  BY <1>1, <1>2, <1>3 DEF CounterOK

\* Every variable keeps its type, and the response queue its bound.
THEOREM TypeCorrect == Spec => []TypeOK
<1> DEFINE Inv == ThreadOK /\ CapacityOK /\ PendingInv /\ CounterOK
<1>1. Init => Inv
  <2>1. Init => ThreadOK
    <3> SUFFICES ASSUME Init PROVE ThreadOK
      OBVIOUS
    <3>1. responses = <<Report>> /\ Report \in Responses
      BY DEF Init, Responses
    <3>2. responses \in Seq(Responses) /\ Len(responses) = 1
      BY <3>1
    <3>3. 1 <= ResponseCap
      BY BoundsAssumption
    <3> QED
      BY <3>2, <3>3 DEF Init, ThreadOK
  <2> QED
    BY <2>1, CapacityTypeInit, PendingInit, CounterTypeInit
<1>2. Inv /\ [Next]_vars => Inv'
  BY ThreadTypeStep, CapacityTypeStep, PendingStep, CounterTypeStep
<1>3. Inv => TypeOK
  BY DEF TypeOK, CapacityOK, PendingInv, CounterOK
<1> QED
  BY <1>1, <1>2, <1>3, PTL DEF Spec

\* A day's count of cancelled orders goes down only where SQLite lost a write.
THEOREM CancelCountsSurvive == Spec => CancelCountsDurable
<1> DEFINE Durable == \A k \in Positions :
             tickerCancelled'[k] < tickerCancelled[k] => dbTickerCancelled[k] < tickerCancelled[k]
<1>1. Init => CounterOK
  BY CounterTypeInit
<1>2. CounterOK /\ [Next]_vars => CounterOK'
  BY CounterTypeStep
<1>3. ASSUME CounterOK, [Next]_vars
      PROVE  Durable
  <2>1. CountOK
    BY <1>3 DEF CounterOK
  <2>2. ASSUME NEW s \in OrderStatuses, NEW ok, CountTickerCancel(s, ok)
        PROVE  Durable
    <3>1. PositionKey(s) \in Positions
      BY InputTypes DEF PositionKey, Positions
    <3> QED
      BY <2>1, <2>2, <3>1 DEF CountTickerCancel, CountOK
  <2>3. CASE Reloaded
    BY <2>1, <2>3 DEF Reloaded, ReloadCounts, CountOK
  <2>4. CASE UNCHANGED countVars
    BY <2>1, <2>4 DEF countVars, CountOK
  <2>5. CASE Restart
    BY <2>1, <2>5 DEF Restart, LoadConfig, CountOK
  <2> QED
    BY <1>3, <2>2, <2>3, <2>4, <2>5, CounterCases
<1>4. CounterOK /\ [Next]_vars => [Durable]_vars
  BY <1>3
<1> QED
  BY <1>1, <1>2, <1>4, PTL DEF Spec, CancelCountsDurable

-----------------------------------------------------------------------------
(* Locked accounts.                                                        *)

\* The map in memory holds every lock the table holds.
LocksInv ==
  \A a \in Accounts : dbAccountLocked[a] # Unlocked => accountLocked[a] = dbAccountLocked[a]

\* The locks change only at a lock command or a restart.
LEMMA LockCases ==
  ASSUME [Next]_vars
  PROVE  \/ UNCHANGED <<accountLocked, dbAccountLocked>>
         \/ \E a \in Accounts, l \in LockSettings, ok \in DBResults : UpdateAccountLocked(a, l, ok)
         \/ Restart
<1>1. CASE PollRequest
  <2>1. ASSUME NEW r \in OrderRequests, HandleOrderRequest(r)
        PROVE  UNCHANGED settingVars
    BY <2>1 DEF HandleOrderRequest
  <2>2. ASSUME NEW a \in ActionRequests, HandleActionRequest(a)
        PROVE  UNCHANGED settingVars
    BY <2>2 DEF HandleActionRequest
  <2>3. ASSUME NEW s \in OrderStatuses, HandleOrderStatus(s)
        PROVE  UNCHANGED settingVars
    BY <2>3 DEF HandleOrderStatus
  <2>4. ASSUME NEW a \in Accounts, NEW x \in FundSnapshots, UpdateAccountFund(a, x)
        PROVE  UNCHANGED settingVars
    BY <2>4 DEF UpdateAccountFund
  <2>5. ASSUME NEW p \in Positions, NEW x \in PositionSnapshots, UpdateAccountPosition(p, x)
        PROVE  UNCHANGED settingVars
    BY <2>5 DEF UpdateAccountPosition
  <2>6. UNCHANGED settingVars
    BY <1>1, <2>1, <2>2, <2>3, <2>4, <2>5 DEF PollRequest, HandleRequest
  <2> QED
    BY <2>6 DEF settingVars
<1>2. CASE HandleResponse
  BY <1>2 DEF HandleResponse, settingVars
<1>3. CASE PollCommand
  <2>1. ASSUME NEW l, NEW ok, NEW counted, UpdateRiskLimit(l, ok, counted)
        PROVE  UNCHANGED <<accountLocked, dbAccountLocked>>
    BY <2>1 DEF UpdateRiskLimit
  <2> QED
    BY <1>3, <2>1 DEF PollCommand, HandleRiskCommand, settingVars
<1>4. ASSUME NEW a \in Accounts, WindowExpires(a)
      PROVE  UNCHANGED <<accountLocked, dbAccountLocked>>
  BY <1>4 DEF WindowExpires, settingVars
<1>5. CASE UNCHANGED vars
  BY <1>5 DEF vars, settingVars
<1> QED
  BY <1>1, <1>2, <1>3, <1>4, <1>5 DEF Next

\* A lock command reads the table back over the map; what it erases afterwards
\* is the account whose row it deleted, when no name contains another.
LEMMA LocksStep ==
  ASSUME \A a \in Accounts : NameWithin[a] = {a},
         CounterOK, LocksInv, [Next]_vars
  PROVE  LocksInv'
<1>1. CASE UNCHANGED <<accountLocked, dbAccountLocked>>
  BY <1>1 DEF LocksInv
<1>2. ASSUME NEW a \in Accounts, NEW l \in LockSettings, NEW ok \in DBResults,
             UpdateAccountLocked(a, l, ok)
      PROVE  LocksInv'
  <2> DEFINE erased == IF ok /\ l = Unlocked
                       THEN {b \in NameWithin[a] : accountLocked[b] # Unlocked} ELSE {}
  <2>1. CASE UNCHANGED <<accountLocked, dbAccountLocked>>
    BY <2>1 DEF LocksInv
  <2>2. CASE ~(l = Unlocked /\ accountLocked[a] = Unlocked)
    <3>1. dbAccountLocked' = IF ok THEN [dbAccountLocked EXCEPT ![a] = l] ELSE dbAccountLocked
      BY <1>2, <2>2 DEF UpdateAccountLocked
    <3>2. accountLocked' = [b \in Accounts |->
             IF b \in erased THEN Unlocked ELSE ReloadLocks(dbAccountLocked', accountLocked)[b]]
      BY <1>2, <2>2, <3>1 DEF UpdateAccountLocked
    <3>3. ASSUME NEW b \in erased
          PROVE  dbAccountLocked'[b] = Unlocked
      <4>1. b = a /\ ok /\ l = Unlocked
        BY <3>3
      <4>2. dbAccountLocked \in [Accounts -> Lock]
        BY DEF CounterOK, SettingOK
      <4> QED
        BY <3>1, <4>1, <4>2
    <3> HIDE DEF erased
    <3>4. ASSUME NEW b \in Accounts, dbAccountLocked'[b] # Unlocked
          PROVE  accountLocked'[b] = dbAccountLocked'[b]
      <4>1. b \notin erased
        BY <3>3, <3>4
      <4>2. accountLocked'[b] = ReloadLocks(dbAccountLocked', accountLocked)[b]
        BY <3>2, <4>1
      <4> QED
        BY <3>4, <4>2 DEF ReloadLocks
    <3> QED
      BY <3>4 DEF LocksInv
  <2> QED
    BY <1>2, <2>1, <2>2 DEF UpdateAccountLocked
<1>3. CASE Restart
  BY <1>3 DEF Restart, LoadConfig, LocksInv
<1> QED
  BY <1>1, <1>2, <1>3, LockCases

\* A step that makes a reservation live is the admission of its order.
LEMMA NewlyHeldAdmits ==
  ASSUME CapacityOK, [Next]_vars, NEW k \in TokenKeys, NewlyHeld(k)
  PROVE  \E r \in OrderRequests :
           /\ Admission(r) /\ r.token # 0 /\ k = OrderTokenKey(r)
           /\ orderReservation'[k].buy = ReservedBuy(r)
           /\ orderReservation'[k].sell = ReservedSell(r)
<1>1. ASSUME NEW r \in OrderRequests, Admission(r)
      PROVE  /\ r.token # 0 /\ k = OrderTokenKey(r)
             /\ orderReservation'[k].buy = ReservedBuy(r)
             /\ orderReservation'[k].sell = ReservedSell(r)
  <2>1. r.token # 0
    BY <1>1 DEF Admission, Reserve, reserveVars, NewlyHeld
  <2>2. orderReservation' = [orderReservation EXCEPT ![OrderTokenKey(r)] =
            [held |-> TRUE, buy |-> ReservedBuy(r), sell |-> ReservedSell(r)]]
    BY <1>1, <2>1 DEF Admission, Reserve
  <2>3. orderReservation \in [TokenKeys -> [held: BOOLEAN, buy: Nat, sell: Nat]]
    BY DEF CapacityOK, ReserveOK
  <2>4. k = OrderTokenKey(r)
    BY <2>2, <2>3 DEF NewlyHeld
  <2> QED
    BY <2>1, <2>2, <2>3, <2>4
<1>2. ASSUME NEW s \in OrderStatuses, Release(s)
      PROVE  FALSE
  BY <1>2 DEF Release, ReleaseOrderReservation, reserveVars, NewlyHeld, NoReservation,
     CapacityOK, ReserveOK
<1>3. ~UNCHANGED orderReservation
  BY DEF NewlyHeld
<1>4. ~Restart
  BY DEF NewlyHeld, Restart, NoReservation
<1> QED
  BY <1>1, <1>2, <1>3, <1>4, CapacityCases DEF reserveVars, FundUpdate, PositionUpdate

\* An account the table says is locked for a direction is admitted no order of
\* that direction (AccountLocked), through lock commands, failed writes and
\* restarts, as long as no account's name occurs in another's.
THEOREM LockedAdmits ==
  ASSUME \A a \in Accounts : NameWithin[a] = {a}
  PROVE  Spec => LockedAdmitsNothing
<1> DEFINE Inv == CapacityOK /\ CounterOK /\ LocksInv
           Refused(k) ==
             /\ orderReservation'[k].buy > 0 => ~LockedFor(k[1], TokenTicker[k], "ELOCK_BUY")
             /\ orderReservation'[k].sell > 0 => ~LockedFor(k[1], TokenTicker[k], "ELOCK_SELL")
           Refuses == \A k \in TokenKeys : NewlyHeld(k) => Refused(k)
<1>1. Init => Inv
  BY CapacityTypeInit, CounterTypeInit DEF Init, LocksInv
<1>2. Inv /\ [Next]_vars => Inv'
  BY CapacityTypeStep, CounterTypeStep, LocksStep
<1>3. ASSUME Inv, [Next]_vars, NEW k \in TokenKeys, NewlyHeld(k)
      PROVE  Refused(k)
  <2>1. PICK r \in OrderRequests :
          /\ Admission(r) /\ r.token # 0 /\ k = OrderTokenKey(r)
          /\ orderReservation'[k].buy = ReservedBuy(r)
          /\ orderReservation'[k].sell = ReservedSell(r)
    BY <1>3, NewlyHeldAdmits
  <2>2. k[1] = r.account /\ r.account \in Accounts /\ r.ticker = TokenTicker[k]
    BY <2>1, InputTypes DEF OrderTokenKey
  <2>3. ~AccountLocked(r)
    BY <2>1 DEF Admission, OrderPasses
  <2>4. ASSUME NEW side, side # "EUNLOCK", LockedFor(k[1], TokenTicker[k], side)
        PROVE  \/ accountLocked[r.account].side = "ELOCK_ACCOUNT"
               \/ /\ accountLocked[r.account].side = side
                  /\ r.ticker \in accountLocked[r.account].tickers
    <3>1. dbAccountLocked[r.account].side # "EUNLOCK"
      BY <2>2, <2>4 DEF LockedFor
    <3>2. accountLocked[r.account] = dbAccountLocked[r.account]
      BY <1>3, <2>2, <3>1 DEF LocksInv, Unlocked
    <3> QED
      BY <2>2, <2>4, <3>2 DEF LockedFor
  <2>5. CASE orderReservation'[k].buy > 0
    <3>1. r.direction = "EBUY"
      BY <2>1, <2>5 DEF ReservedBuy
    <3> QED
      BY <2>1, <2>3, <2>4, <3>1 DEF AccountLocked, ReservedSell
  <2>6. CASE orderReservation'[k].sell > 0
    <3>1. r.direction = "ESELL"
      BY <2>1, <2>6 DEF ReservedSell
    <3> QED
      BY <2>1, <2>3, <2>4, <3>1 DEF AccountLocked, ReservedBuy
  <2> QED
    BY <2>5, <2>6
<1>4. Inv /\ [Next]_vars => [Refuses]_vars
  BY <1>3
<1> QED
  BY <1>1, <1>2, <1>4, PTL DEF Spec, LockedAdmitsNothing

=============================================================================
