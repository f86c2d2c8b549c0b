----------------------------- MODULE AccountBook ------------------------------
(***************************************************************************)
(* The books of one simulated account and the rules that change them: the  *)
(* domain functions of backend/internal/modules/investment/domain that the *)
(* paper account's commands (PaperAccount) and the replay of a backtest    *)
(* (Backtest) both call.  Each operator takes the books and returns them   *)
(* changed.                                                                *)
(*                                                                         *)
(* Time runs in ticks, three a day: midnight, the session's open, and its  *)
(* close with the half hour after it.  Prices are money per share.         *)
(***************************************************************************)
EXTENDS Integers, FiniteSets, FiniteSetsExt

CONSTANTS
    Instruments,    \* the securities of the account's universe
    OrderIds,       \* ids orders are created with
    Actions,        \* corporate actions the source may publish
    Kind,           \* "split" or "dividend", of each action
    Security,       \* the instrument of each action
    EffectiveAt,    \* its effective time
    PayAt,          \* a dividend's payment time
    Ratio,          \* a split's <<numerator, denominator>>
    Amount,         \* a dividend's amount, a split's cash in lieu, per share
    Last,           \* the last session of the calendar
    Horizon,        \* the last tick
    InitialCash,
    None

Sessions == 0 .. Last
OpenAt(k) == 3 * k + 1
CloseAt(k) == 3 * k + 2
SettlementStart(k) == 3 * (k + 1)   \* midnight after the session's day
ExpiresAt(k) == CloseAt(k + 1)
Times == 0 .. Horizon

ASSUME BookAssumption ==
    /\ Last \in Nat /\ Horizon \in CloseAt(0) .. CloseAt(Last) /\ InitialCash \in Nat \ {0}
    /\ IsFiniteSet(OrderIds) /\ IsFiniteSet(Actions)
    /\ OrderIds \cap Actions = {} /\ None \notin OrderIds \cup Actions \cup Nat

ASSUME ActionAssumption ==
    /\ Kind \in [Actions -> {"split", "dividend"}]
    /\ Security \in [Actions -> Instruments]
    /\ EffectiveAt \in [Actions -> CloseAt(0) .. Horizon] /\ PayAt \in [Actions -> Times]
    /\ \A a \in Actions : EffectiveAt[a] <= PayAt[a]
    /\ Ratio \in [Actions -> (Nat \ {0}) \X (Nat \ {0})]
    /\ Amount \in [Actions -> Nat]

-------------------------------------------------------------------------------
OrderStates == {"none", "pending", "awaiting_bar", "filled", "partially_filled_cancelled",
                "expired", "rejected", "cancelled"}

(* cash and shares are what the order has reserved, session its target.    *)
OrderRows ==
    [state : OrderStates, side : {"buy", "sell"}, instrument : Instruments \cup {None},
     quantity : Nat, capacity : Nat, cash : Nat, shares : Nat, session : Sessions]
NoOrder == [state |-> "none", side |-> "buy", instrument |-> None, quantity |-> 0,
            capacity |-> 0, cash |-> 0, shares |-> 0, session |-> 0]

Balances == [available : Nat, reserved : Nat, unsettled : Nat, dividends : Nat]
Delta(a, r, u, d) == [available |-> a, reserved |-> r, unsettled |-> u, dividends |-> d]
Plus(b, d) == [f \in DOMAIN b |-> b[f] + d[f]]

(* A ledger row; <<kind, of>> is its event key, and at the effective time  *)
(* of a row that moves shares: the others' tells nothing here.             *)
LedgerRows ==
    [kind : {"initial_credit", "reserve", "buy_fill", "sell_fill", "release",
             "settlement", "split", "dividend_accrual", "dividend_payment"},
     of : OrderIds \cup Actions \cup {None},
     delta : [available : Int, reserved : Int, unsettled : Int, dividends : Int],
     instrument : Instruments \cup {None}, quantity : Int, at : Times]
Row(kind, of, delta, i, quantity, at) ==
    [kind |-> kind, of |-> of, delta |-> delta, instrument |-> i, quantity |-> quantity,
     at |-> at]

(* The editions of an action a source can publish, and of which one is     *)
(* recorded when it is applied; "none" is neither.                         *)
Editions == {"none", "incomplete", "complete", "revised"}

(* A position, its cost the money its shares were bought with.             *)
Positions == [Instruments -> [quantity : Nat, reserved : Nat, cost : Nat]]
NoPosition == [quantity |-> 0, reserved |-> 0, cost |-> 0]

(* The part of the books that both users share; splits is history: the     *)
(* splits recorded before each action was.                                 *)
Books ==
    [balances : Balances,
     positions : Positions,
     orders : [OrderIds -> OrderRows],
     ledger : SUBSET LedgerRows,
     recorded : [Actions -> Editions],
     splits : [Actions -> SUBSET Actions]]

(* The books of an account that was just created.                          *)
NewBooks ==
    [balances |-> Delta(InitialCash, 0, 0, 0),
     positions |-> [i \in Instruments |-> NoPosition],
     orders |-> [o \in OrderIds |-> NoOrder],
     ledger |-> {Row("initial_credit", None, Delta(InitialCash, 0, 0, 0), None, 0, 0)},
     recorded |-> [a \in Actions |-> "none"],
     splits |-> [a \in Actions |-> {}]]

-------------------------------------------------------------------------------
(* Money.                                                                  *)
GrossValue(p, q) == p * q
TradeFee(gross) == LET fee == gross \div 10000 + (IF gross % 10000 # 0 THEN 1 ELSE 0)
                   IN IF fee < 1 THEN 1 ELSE fee
PurchaseCost(p, q) == GrossValue(p, q) + TradeFee(GrossValue(p, q))

(* roundedRatMoney: half up.                                               *)
Rounded(num, den) == (2 * num + den) \div (2 * den)

-------------------------------------------------------------------------------
(* The changes of the books.                                               *)

(* ReserveOrders, for one order of the batch.                              *)
Reserve(b, o, order) ==
    LET delta == Delta(-order.cash, order.cash, 0, 0) IN
    [b EXCEPT !.balances = Plus(@, delta),
              !.positions[order.instrument].reserved = @ + order.shares,
              !.orders[o] = order,
              !.ledger = @ \cup {Row("reserve", o, delta, order.instrument, 0, 0)}]

CanReserve(b, order) ==
    IF order.side = "buy"
    THEN order.cash > 0 /\ order.cash <= b.balances.available
    ELSE order.shares <= b.positions[order.instrument].quantity
                         - b.positions[order.instrument].reserved

Closed(order, state) == [order EXCEPT !.state = state, !.cash = 0, !.shares = 0]

(* ReleaseOrder for each order of S, which ends in the given state.        *)
(* Fault: the shares of a sell stay reserved.                              *)
ReleaseCashOnly(b, S, state) ==
    LET cash == SumFunction([o \in S |-> b.orders[o].cash]) IN
    [b EXCEPT !.balances = Plus(@, Delta(cash, -cash, 0, 0)),
              !.orders = [o \in OrderIds |-> IF o \in S THEN Closed(@[o], state) ELSE @[o]],
              !.ledger = @ \cup {Row("release", o, Delta(b.orders[o].cash, -b.orders[o].cash, 0, 0),
                                     b.orders[o].instrument, 0, 0) : o \in S}]
Release(b, S, state) ==
    LET cash == SumFunction([o \in S |-> b.orders[o].cash])
        shares(i) == SumFunction([o \in {r \in S : b.orders[r].instrument = i} |-> b.orders[o].shares]) IN
    [b EXCEPT !.balances = Plus(@, Delta(cash, -cash, 0, 0)),
              !.positions = [i \in Instruments |-> [b.positions[i] EXCEPT !.reserved = @ - shares(i)]],
              !.orders = [o \in OrderIds |-> IF o \in S THEN Closed(@[o], state) ELSE @[o]],
              !.ledger = @ \cup {Row("release", o, Delta(b.orders[o].cash, -b.orders[o].cash, 0, 0),
                                     b.orders[o].instrument, 0, 0) : o \in S}]

Advance(b, S) ==
    [b EXCEPT !.orders = [o \in OrderIds |->
                             IF o \in S THEN [b.orders[o] EXCEPT !.state = "awaiting_bar"] ELSE @[o]]]

(* The cost basis after a fill: a sale takes its share of it with it.      *)
CostAfter(b, order, paid, q) ==
    LET pos == b.positions[order.instrument] IN
    IF order.side = "buy" THEN pos.cost + paid
                          ELSE pos.cost - Rounded(pos.cost * q, pos.quantity)

(* ApplyFill of q shares at price p.                                       *)
Fill(b, o, p, q) ==
    LET order == b.orders[o]
        gross == GrossValue(p, q)
        fee == TradeFee(gross)
        delta == IF order.side = "buy"
                 THEN Delta(order.cash - (gross + fee), -order.cash, 0, 0)
                 ELSE Delta(0, 0, gross - fee, 0)
        signed == IF order.side = "buy" THEN q ELSE -q IN
    [b EXCEPT
        !.balances = Plus(@, delta),
        !.positions[order.instrument] =
            [quantity |-> @.quantity + signed, reserved |-> @.reserved - order.shares,
             cost |-> CostAfter(b, order, gross + fee, q)],
        !.orders[o] = Closed(order, IF q < order.quantity
                                    THEN "partially_filled_cancelled" ELSE "filled"),
        !.ledger = @ \cup {Row(IF order.side = "buy" THEN "buy_fill" ELSE "sell_fill", o, delta,
                               order.instrument, signed, OpenAt(order.session))}]

(* What ApplyFill refuses to do.                                           *)
CanFill(b, o, p, q) ==
    LET order == b.orders[o]
        pos == b.positions[order.instrument] IN
    IF order.side = "buy"
    THEN PurchaseCost(p, q) <= order.cash
    ELSE /\ q <= pos.quantity /\ order.shares <= pos.reserved /\ q <= order.shares
         /\ TradeFee(GrossValue(p, q)) <= GrossValue(p, q)

(* SettleReceivables: the sales whose settlement day has begun.            *)
(* Fault: a sale that was settled is found again.                          *)
UnsettledAgain(b) == {e \in b.ledger : e.kind = "sell_fill"}
Unsettled(b) ==
    {e \in b.ledger : /\ e.kind = "sell_fill"
                      /\ ~\E s \in b.ledger : s.kind = "settlement" /\ s.of = e.of}
Settle(b, through) ==
    LET due == {e \in Unsettled(b) : SettlementStart(b.orders[e.of].session) <= through}
        sum == SumFunction([e \in due |-> e.delta.unsettled]) IN
    [b EXCEPT !.balances = Plus(@, Delta(sum, 0, -sum, 0)),
              !.ledger = @ \cup {Row("settlement", e.of,
                                     Delta(e.delta.unsettled, 0, -e.delta.unsettled, 0),
                                     e.instrument, 0, 0)
                                 : e \in due}]

-------------------------------------------------------------------------------
(* Corporate actions.                                                      *)

Split(a) == Kind[a] = "split"
Recorded(b, a) == b.recorded[a] # "none"

(* The holding a split turns into, and the cash for the fraction lost.     *)
AfterSplit(a, q) == (q * Ratio[a][1]) \div Ratio[a][2]
CashInLieu(a, q) == Rounded(Amount[a] * ((q * Ratio[a][1]) % Ratio[a][2]), Ratio[a][2])

(* ActionEligibility: the shares held as the action's day begins.          *)
Eligible(b, a) ==
    LET rows == {e \in b.ledger : /\ e.instrument = Security[a]
                                  /\ \/ e.at < EffectiveAt[a]
                                     \/ e.at = EffectiveAt[a] /\ e.kind = "split"} IN
    SumFunction([e \in rows |-> e.quantity])

(* The edition e of the action is the one recorded.  A split's lost        *)
(* fraction takes its part of the cost basis with it.                      *)
ApplyCorporateAction(b, a, e) ==
    LET i == Security[a]
        held == b.positions[i].quantity
        lost == (held * Ratio[a][1]) % Ratio[a][2]
        cost == IF Split(a) /\ lost # 0
                THEN Rounded(b.positions[i].cost * lost, held * Ratio[a][1]) ELSE 0
        delta == IF Split(a) THEN Delta(CashInLieu(a, held), 0, 0, 0)
                             ELSE Delta(0, 0, 0, Amount[a] * Eligible(b, a))
        gained == IF Split(a) THEN AfterSplit(a, held) - held ELSE 0 IN
    [b EXCEPT !.balances = Plus(@, delta),
              !.positions[i] = [@ EXCEPT !.quantity = held + gained, !.cost = b.positions[i].cost - cost],
              !.ledger = @ \cup {Row(IF Split(a) THEN "split" ELSE "dividend_accrual", a, delta,
                                     i, gained, EffectiveAt[a])},
              !.recorded[a] = e,
              !.splits[a] = {s \in Actions : Split(s) /\ Recorded(b, s)}]

(* PayDividend, from the accrual's amount.                                 *)
PayDividend(b, a) ==
    LET accrual == CHOOSE e \in b.ledger : e.kind = "dividend_accrual" /\ e.of = a
        delta == Delta(accrual.delta.dividends, 0, 0, -accrual.delta.dividends) IN
    [b EXCEPT !.balances = Plus(@, delta),
              !.ledger = @ \cup {Row("dividend_payment", a, delta, Security[a], 0, 0)}]
(* Fault: a dividend already paid is paid again.                           *)
PaymentDueAgain(b, a, through) == Kind[a] = "dividend" /\ Recorded(b, a) /\ PayAt[a] <= through
PaymentDue(b, a, through) ==
    /\ Kind[a] = "dividend" /\ Recorded(b, a) /\ PayAt[a] <= through
    /\ ~\E e \in b.ledger : e.kind = "dividend_payment" /\ e.of = a

(* The shares held of i once the events of time t have happened, had every *)
(* one of the fills and every split of S been recorded at its effective    *)
(* time: a split comes before the fills of its time.                       *)
Replayed(trades, i, S, t) ==
    LET fills(u) == {e \in trades : e.instrument = i /\ e.at = u}
        splits(u) == {a \in S : Security[a] = i /\ EffectiveAt[a] = u}
        opening(u, q) == IF splits(u) = {} THEN q ELSE AfterSplit(CHOOSE a \in splits(u) : TRUE, q)
        held[u \in Times] ==
            opening(u, IF u = 0 THEN 0 ELSE held[u - 1])
            + SumFunction([e \in fills(u) |-> e.quantity])
    IN held[t]

===============================================================================
