------------------------------ MODULE RiskRules -------------------------------
(***************************************************************************)
(* The risk rules of backend/internal/modules/investment/domain: how much  *)
(* of an order ValidateOrder admits, and the orders BuildRebalance plans.  *)
(* Pure operators over a portfolio, shared by the account's commands and   *)
(* the replay of a backtest.                                               *)
(*                                                                         *)
(* A signal's score is only which of the strategy's two thresholds it      *)
(* reaches, its rank its place in the sequence of signals; every           *)
(* instrument has a known industry.  A price of 0 is a missing quote.      *)
(***************************************************************************)
EXTENDS AccountBook, Sequences

Seqs == INSTANCE SequencesExt

CONSTANTS
    Industry,     \* the industry of each instrument
    ByID,         \* the instruments in the order of their ids
    Policy,       \* RiskPolicy, its weights in percent
    MaxHoldings,  \* StrategyParameters: the holdings an account may have,
    Band          \* and the least difference it trades for, in percent

Levels == {"single", "industry", "stock"}

ASSUME RiskAssumption ==
    /\ Industry \in [Instruments -> STRING]
    /\ ByID \in Seq(Instruments) /\ Seqs!ToSet(ByID) = Instruments /\ Seqs!IsInjective(ByID)
    /\ Policy \in [Levels \cup {"pause", "stop", "turnover"} -> 1 .. 100]
    /\ Policy.single <= Policy.industry /\ Policy.industry <= Policy.stock
    /\ MaxHoldings \in Nat \ {0} /\ Band \in Nat

(* What Evaluate ranks: each instrument at most once.                      *)
Signals ==
    {s \in Seq([instrument : Instruments, score : {"entry", "hold", "exit"}, risk : {"low", "high"}]) :
        \A m, n \in DOMAIN s : s[m].instrument = s[n].instrument => m = n}

(* SlippedPrice, 10 basis points against the order, half up.               *)
SlippedPrice(p, side) == (p * (IF side = "buy" THEN 10010 ELSE 9990) + 5000) \div 10000
ReservationCost(close, q) == PurchaseCost(SlippedPrice(close, "buy"), q)

MoneyLimit(nav, weight) == (nav * weight) \div 100
DrawdownReached(value, peak, threshold) == peak > 0 /\ 100 * value <= (100 - threshold) * peak

Emergency == {"stop_loss", "reduce_single_risk", "reduce_industry_risk", "reduce_stock_risk"}

(* The instruments whose exposure one level of the policy limits for i.    *)
Group(level, i) ==
    CASE level = "single" -> {i}
      [] level = "industry" -> {j \in Instruments : Industry[j] = Industry[i]}
      [] level = "stock" -> Instruments

Worth(positions, prices, S) ==
    SumFunction([i \in S |-> GrossValue(prices[i], positions[i].quantity)])

-------------------------------------------------------------------------------
(* A portfolio p an order is judged by: its positions, the rows of its     *)
(* orders and which others are open, the session, quotes, NAV, peak NAV    *)
(* and the money traded in the session so far.                             *)

(* portfolioExposure: what is held and what open buys may still buy.       *)
Exposure(p, prices, S) ==
    Worth(p.positions, prices, S)
    + SumFunction([o \in {r \in p.open : p.rows[r].instrument \in S} |-> p.rows[o].cash])

(* What the turnover limit leaves, the session's open orders counted.      *)
TurnoverLeft(p, prices) ==
    LET gross(o) == IF p.rows[o].side = "buy" THEN (p.rows[o].cash * 10000) \div 10001
                    ELSE GrossValue(SlippedPrice(prices[p.rows[o].instrument], "sell"),
                                    p.rows[o].quantity)
        left == MoneyLimit(p.nav, Policy.turnover) - p.traded
                - SumFunction([o \in {r \in p.open : p.rows[r].session = p.session} |-> gross(o)]) IN
    IF left < 0 THEN 0 ELSE left

(* ValidateOrder's MaxQuantity, for a sale of i at a price; own is what    *)
(* the order itself has reserved.                                          *)
MaxSale(p, i, price, reason, own) ==
    LET available == p.positions[i].quantity - p.positions[i].reserved + own IN
    Max({q \in 0 .. available :
            \/ q = 0 \/ reason \in Emergency
            \/ GrossValue(price, q) <= TurnoverLeft(p, [p.prices EXCEPT ![i] = price])})

(* What the limits leave for a purchase of i.                              *)
Room(p, i, prices) ==
    Min({TurnoverLeft(p, prices)} \cup
        {MoneyLimit(p.nav, Policy[l]) - Exposure(p, prices, Group(l, i)) : l \in Levels})

(* MaxQuantity for a purchase with so much cash; nothing is bought when    *)
(* the drawdown from the peak has reached the pause.                       *)
MaxPurchase(p, i, price, cash) ==
    IF DrawdownReached(p.nav, p.peak, Policy.pause) THEN 0
    ELSE Max({q \in 0 .. cash \div price :
                 \/ q = 0
                 \/ /\ GrossValue(price, q) <= Room(p, i, [p.prices EXCEPT ![i] = price])
                    /\ PurchaseCost(price, q) <= cash})

-------------------------------------------------------------------------------
(***************************************************************************)
(* BuildRebalance.  A plan r carries its orders, what it has blocked, and  *)
(* the cash, the turnover and the positions that are left as it goes.      *)
(***************************************************************************)
Portfolio(r) == [positions |-> r.positions, rows |-> <<>>, open |-> {}, session |-> 0,
                 prices |-> r.prices, nav |-> r.nav, peak |-> r.peak, traded |-> r.traded]

Planned(r, i, side, reason, q) ==
    [r EXCEPT !.orders = Append(@, [instrument |-> i, side |-> side, reason |-> reason, quantity |-> q]),
              !.traded = @ + GrossValue(r.prices[i], q),
              !.positions[i].quantity = IF side = "buy" THEN @ + q ELSE @ - q]

(* appendSell, of as much as ValidateOrder admits.                         *)
PlanSale(r, i, quantity, reason) ==
    LET q == Min({quantity, MaxSale(Portfolio(r), i, r.prices[i], reason, 0)}) IN
    IF q <= 0 THEN r ELSE [Planned(r, i, "sell", reason, q) EXCEPT !.blocked = @ \cup {i}]

Held(r, i) == r.positions[i].quantity

StopLoss(r, i) ==
    IF /\ Held(r, i) > 0 /\ r.positions[i].cost > 0
       /\ DrawdownReached(GrossValue(r.prices[i], Held(r, i)), r.positions[i].cost, Policy.stop)
    THEN PlanSale(r, i, Held(r, i), "stop_loss") ELSE r

ExitSignal(r, i) ==
    IF /\ Held(r, i) > 0 /\ i \notin r.blocked
       /\ \E n \in DOMAIN r.signals : r.signals[n].instrument = i /\ r.signals[n].score = "exit"
    THEN PlanSale(r, i, Held(r, i), "exit_signal") ELSE r

(* A holding is cut until the level's limit is kept, although it may have  *)
(* been cut before.                                                        *)
ReductionReason(level) ==
    CASE level = "single" -> "reduce_single_risk" [] level = "industry" -> "reduce_industry_risk"
      [] level = "stock" -> "reduce_stock_risk"
Excess(level, r, i) ==
    Worth(r.positions, r.prices, Group(level, i)) - MoneyLimit(r.nav, Policy[level])
Keep(level, r, i) ==
    LET kept == GrossValue(r.prices[i], Held(r, i)) - Excess(level, r, i) IN
    IF kept < 0 THEN 0 ELSE kept \div r.prices[i]
Reduction(level, r, i) ==
    IF Held(r, i) > 0 /\ Excess(level, r, i) > 0
    THEN PlanSale(r, i, Held(r, i) - Keep(level, r, i), ReductionReason(level)) ELSE r

(* What a candidate lacks to the limit of one holding.                     *)
Desired(r, i) == MoneyLimit(r.nav, Policy.single) \div r.prices[i] - Held(r, i)

(* It is not bought if it has been sold or unquoted, is one holding too    *)
(* many, or is closer to the limit than the band.                          *)
PassedOver(r, n) ==
    LET i == r.signals[n].instrument IN
    \/ r.signals[n].score # "entry" \/ r.signals[n].risk = "high" \/ i \in r.blocked
    \/ r.prices[i] = 0
    \/ Held(r, i) = 0 /\ Cardinality({j \in Instruments : Held(r, j) > 0}) >= MaxHoldings
    \/ MoneyLimit(r.nav, Policy.single) - GrossValue(r.prices[i], Held(r, i)) < MoneyLimit(r.nav, Band)
    \/ n > MaxHoldings \/ Desired(r, i) <= 0

(* Purchases are of what is admitted; sales add nothing to their cash.     *)
PlanPurchase(r, n) ==
    LET i == r.signals[n].instrument
        price == r.prices[i]
        q == Min({Desired(r, i), MaxPurchase(Portfolio(r), i, price, r.cash)}) IN
    IF PassedOver(r, n) \/ q <= 0
    THEN r
    ELSE [Planned(r, i, "buy", "entry_signal", q) EXCEPT !.cash = @ - PurchaseCost(price, q)]

EntrySignals(start) == Seqs!FoldLeft(PlanPurchase, start, [n \in DOMAIN start.signals |-> n])

(* The passes, each over all holdings, in the order of their ids.          *)
Reduce(level, start) == Seqs!FoldLeft(LAMBDA r, i : Reduction(level, r, i), start, ByID)
Sales(start) ==
    Reduce("stock", Reduce("industry", Reduce("single",
        Seqs!FoldLeft(ExitSignal, Seqs!FoldLeft(StopLoss, start, ByID), ByID))))

BuildRebalance(positions, cash, prices, nav, peak, signals) ==
    EntrySignals(Sales([positions |-> positions, cash |-> cash, prices |-> prices, nav |-> nav,
                        peak |-> peak, signals |-> signals, traded |-> 0, orders |-> <<>>,
                        blocked |-> {}]))

===============================================================================
