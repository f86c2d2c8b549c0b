------------------------------- MODULE Backtest -------------------------------
(***************************************************************************)
(* A backtest: the run a request creates over frozen data, the Worker's    *)
(* job that carries it out (RunBacktestHandler), and the replay it makes   *)
(* in memory (domain/backtest.go), session by session, of the orders the   *)
(* strategy would have placed.  The job is interrupted, crashes and is     *)
(* retried; only the run's row outlives an attempt.                        *)
(*                                                                         *)
(* The replayed account follows the rules of AccountBook and RiskRules,    *)
(* as the paper account does.  The length of the history, the factors a    *)
(* score is made of and the volume behind a capacity are left out: signals *)
(* and capacities are part of the frozen data.                             *)
(***************************************************************************)
EXTENDS RiskRules

CONSTANTS
    Benchmark,     \* the instrument of SPY
    Pasts,         \* what a source may hold: each session's bars and signals
    ActionOrder,   \* the actions as reconcile sorts them
    Capacity,      \* PreviousVolumeCapacity of each instrument
    MaxAttempts    \* the job's attempts

Universe == Instruments \ {Benchmark}
Window == 1 .. Last - 1     \* the sessions replayed; session 0 comes before

(* Why an order is placed, in the order of BuildRebalance's passes.        *)
Passes == <<"stop_loss", "exit_signal", "reduce_single_risk", "reduce_industry_risk",
            "reduce_stock_risk", "entry_signal">>

(* A bar, and whether it is known only as the next session closes; opens   *)
(* is FALSE when there was no opening trade.                               *)
Bars == [open : Nat \ {0}, close : Nat \ {0}, opens : BOOLEAN, late : BOOLEAN]

(* By effective time, splits first; ids, which decide among the rest, are  *)
(* left to ActionOrder.                                                    *)
Sooner(a, c) == \/ EffectiveAt[a] < EffectiveAt[c]
                \/ EffectiveAt[a] = EffectiveAt[c] /\ Kind[a] = "split" /\ Kind[c] # "split"

ASSUME BacktestAssumption ==
    /\ Last > 1 /\ Horizon = CloseAt(Last)
    /\ Benchmark \in Instruments
    /\ OrderIds = Window \X Instruments \X Seqs!ToSet(Passes)
    /\ ActionOrder \in Seq(Actions)
    /\ Seqs!ToSet(ActionOrder) = Actions /\ Seqs!IsInjective(ActionOrder)
    /\ \A m, n \in DOMAIN ActionOrder : m < n => ~Sooner(ActionOrder[n], ActionOrder[m])
    /\ \A days \in Pasts : \A k \in {0} \cup Window :
          /\ k \in DOMAIN days
          /\ days[k].bars \in [Instruments -> Bars \cup {None}]
          /\ days[k].signals \in Signals
    /\ Capacity \in [Instruments -> Nat] /\ MaxAttempts \in Nat \ {0}

VARIABLES
    snapshot,   \* the frozen data: each session's day, each action's history
    run,        \* the row of investment.backtest_runs, and its job
    replay      \* the attempt under way, in the Worker's memory

vars == <<snapshot, run, replay>>

-------------------------------------------------------------------------------
(* The frozen data s.  An action is there from the start, or its last      *)
(* version came after its effect, as a first version or a correction.      *)
Histories == {"absent", "timely", "late"}

AvailableAt(s, k, i) == IF s.days[k].bars[i].late THEN CloseAt(k + 1) ELSE CloseAt(k)

(* SelectSnapshot: what was available at time t.  Fault: all of it.        *)
SelectAll(s, k, i, t) == s.days[k].bars[i] # None
Selected(s, k, i, t) == s.days[k].bars[i] # None /\ AvailableAt(s, k, i) <= t
Close(s, k, i, t) == IF Selected(s, k, i, t) THEN s.days[k].bars[i].close ELSE 0
Closes(s, k, t) == [i \in Instruments |-> Close(s, k, i, t)]

Opened(s, k, i, t) == Selected(s, k, i, t) /\ s.days[k].bars[i].opens

(* The opens of session k known at t, and the closes of the session before *)
(* where there is none.                                                    *)
Opens(s, k, t) == [i \in Instruments |-> IF Opened(s, k, i, t) THEN s.days[k].bars[i].open
                                         ELSE Close(s, k - 1, i, OpenAt(k) - 1)]

ActionsBy(s, t, asOf, S) ==
    {a \in Actions : /\ s.history[a] # "absent" /\ Security[a] \in S
                     /\ EffectiveAt[a] <= t
                     /\ s.history[a] = "late" => EffectiveAt[a] < asOf}

-------------------------------------------------------------------------------
(* The replayed book: AccountBook's, with the fills it reports, the peak   *)
(* NAV, whether automation is still on, and whether an error has stopped   *)
(* it.                                                                     *)
NewReplayBook ==
    [balances |-> NewBooks.balances, positions |-> NewBooks.positions, orders |-> NewBooks.orders,
     ledger |-> NewBooks.ledger, recorded |-> NewBooks.recorded, splits |-> NewBooks.splits,
     fills |-> {}, peak |-> InitialCash, automatic |-> TRUE, broken |-> FALSE]
Break(b) == [b EXCEPT !.broken = TRUE]

Active(b) == {o \in OrderIds : b.orders[o].state \in {"pending", "awaiting_bar"}}
Holding(b) == {i \in Instruments : b.positions[i].quantity > 0}
Priced(b, prices) == \A i \in Holding(b) : prices[i] > 0
Total(d) == d.available + d.reserved + d.unsettled + d.dividends
NAV(b, prices) == Total(b.balances) + Worth(b.positions, prices, Holding(b))

(* An order is <<session, instrument, reason>>; the id that plan gives it  *)
(* tells sales from purchases, and two sales of one holding not at all.    *)
Sale(o) == o[3] # "entry_signal"
Id(o) == <<o[1], o[2], Sale(o)>>

(* A split cancels the orders that open after it; an action is applied     *)
(* once, and a dividend paid when it is due.                               *)
CancelAtSplit(b, a) ==
    IF Split(a) /\ ~Recorded(b, a)
    THEN Release(b, {o \in Active(b) : /\ b.orders[o].instrument = Security[a]
                                      /\ EffectiveAt[a] <= OpenAt(b.orders[o].session)}, "cancelled")
    ELSE b
ApplyOnce(b, a) == IF Recorded(b, a) THEN b ELSE ApplyCorporateAction(b, a, "complete")
PayWhenDue(b, a, t) == IF PaymentDue(b, a, t) THEN PayDividend(b, a) ELSE b

(* One action of reconcile's loop: a split can not divide reserved shares. *)
Indivisible(b, a) ==
    ~Recorded(b, a) /\ Split(a) /\ CancelAtSplit(b, a).positions[Security[a]].reserved # 0
ReconcileAction(b, a, t) ==
    IF b.broken \/ Indivisible(b, a) THEN Break(b)
    ELSE PayWhenDue(ApplyOnce(CancelAtSplit(b, a), a), a, t)

(* The receivables due at t, then every action seen, in order.             *)
ReconcileIfSeen(b, a, t, seen) == IF a \in seen THEN ReconcileAction(b, a, t) ELSE b
ReconcileActions(b, t, seen) ==
    Seqs!FoldLeft(LAMBDA c, a : ReconcileIfSeen(c, a, t, seen), Settle(b, t), ActionOrder)

(* reconcile at t, with the data of asOf, for the instruments of S.  Two   *)
(* sales to settle under one event key are an error (SettleReceivables).   *)
KeyRepeated(b) == \E e, r \in Unsettled(b) : e # r /\ Id(e.of) = Id(r.of)
Reconcile(s, b, t, asOf, S) ==
    LET seen == ActionsBy(s, t, asOf, S) IN
    IF b.broken \/ KeyRepeated(b) \/ \E a \in seen : s.history[a] = "late" THEN Break(b)
    ELSE ReconcileActions(b, t, seen)

-------------------------------------------------------------------------------
(* plan: the orders for session k, decided as session k - 1 has closed.    *)

(* One order of the plan, cut to what its reservation can pay.             *)
PlaceOrder(b, p, k, prices) ==
    LET close == prices[p.instrument]
        affordable == Max({q \in 0 .. p.quantity :
                              q = 0 \/ ReservationCost(close, q) <= b.balances.available})
        q == IF p.side = "buy" THEN affordable ELSE p.quantity
        order == [state |-> "pending", side |-> p.side, instrument |-> p.instrument,
                  quantity |-> q, capacity |-> Capacity[p.instrument], session |-> k,
                  cash |-> IF p.side = "buy" THEN ReservationCost(close, q) ELSE 0,
                  shares |-> IF p.side = "sell" THEN q ELSE 0] IN
    IF q = 0 THEN b
    ELSE IF ~CanReserve(b, order) THEN Break(b)
    ELSE Reserve(b, <<k, p.instrument, p.reason>>, order)

PlaceOrders(b, orders, k, prices) ==
    Seqs!FoldLeft(LAMBDA c, p : PlaceOrder(c, p, k, prices), b, orders)

Rebalance(s, b, k) ==
    LET prices == Closes(s, k - 1, CloseAt(k - 1)) IN
    BuildRebalance(b.positions, b.balances.available, prices, NAV(b, prices), b.peak,
                   s.days[k - 1].signals)

Plan(s, b, k) ==
    LET prices == Closes(s, k - 1, CloseAt(k - 1)) IN
    IF b.broken \/ ~b.automatic \/ Active(b) # {} THEN b
    ELSE IF ~Priced(b, prices) THEN Break(b)
    ELSE IF DrawdownReached(NAV(b, prices), b.peak, Policy.pause) THEN [b EXCEPT !.automatic = FALSE]
    ELSE PlaceOrders(b, Rebalance(s, b, k).orders, k, prices)

-------------------------------------------------------------------------------
(* execute: one order o, as session k has closed.                          *)

FillsIn(b, k) == {f \in b.fills : f.at = OpenAt(k)}
Shares(f) == IF f.quantity < 0 THEN -f.quantity ELSE f.quantity
(* Fault: only what was confirmed before this close counts.                *)
SessionTurnoverBefore(b, k) ==
    SumFunction([f \in {g \in FillsIn(b, k) : g.recorded > CloseAt(k)} |-> f.gross])
SessionTurnover(b, k) == SumFunction([f \in FillsIn(b, k) |-> f.gross])

CapacityLeft(b, o) ==
    LET peers == {r \in OrderIds : /\ b.orders[r].state # "none" /\ r[2] = o[2]
                                   /\ b.orders[r].session = b.orders[o].session}
        rivals == {f \in FillsIn(b, b.orders[o].session) : f.instrument = o[2]}
        used == SumFunction([f \in rivals |-> Shares(f)])
        left == Min({b.orders[r].capacity : r \in peers}) - used IN
    IF left < 0 THEN 0 ELSE left

ReservedShares(b, S) == SumFunction([o \in S |-> b.orders[o].shares])

(* MatchAtOpen: the quantity of the fill, 0 when the order is rejected.    *)
(* It is not told the peak NAV, so a drawdown counts from the initial cash; *)
(* and by ExcludeOrderID it leaves out every order with the order's id.    *)
Matched(b, o, price, prices) ==
    LET order == b.orders[o]
        same == {r \in Active(b) : Id(r) = Id(o)}
        p == [positions |-> b.positions, rows |-> b.orders, open |-> Active(b) \ same,
              session |-> order.session, prices |-> prices, nav |-> NAV(b, prices),
              peak |-> InitialCash, traded |-> SessionTurnover(b, order.session)]
        admitted == IF order.side = "buy" THEN MaxPurchase(p, o[2], price, order.cash)
                    ELSE MaxSale(p, o[2], price, o[3], ReservedShares(b, same))
        q == Min({order.quantity, admitted, order.capacity, CapacityLeft(b, o)})
        gross == GrossValue(price, q) IN
    IF order.side = "sell" /\ gross < TradeFee(gross) THEN 0 ELSE q

Reported(o, i, q, price, at, recorded) ==
    [of |-> o, instrument |-> i, quantity |-> q, gross |-> GrossValue(price, IF q < 0 THEN -q ELSE q),
     fee |-> TradeFee(GrossValue(price, IF q < 0 THEN -q ELSE q)), at |-> at, recorded |-> recorded]

Execute(s, b, o, k) ==
    LET order == b.orders[o]
        prices == Opens(s, order.session, CloseAt(k))
        price == SlippedPrice(prices[o[2]], order.side)
        q == Matched(b, o, price, prices) IN
    IF ~Opened(s, order.session, o[2], CloseAt(k))
    THEN IF ExpiresAt(order.session) <= CloseAt(k) THEN Release(b, {o}, "expired")
                                                   ELSE Advance(b, {o})
    ELSE IF ~Priced(b, prices) THEN Break(b)
    ELSE IF q = 0 THEN Release(b, {o}, "rejected")
    ELSE IF ~CanFill(b, o, price, q) THEN Break(b)
    ELSE [Fill(b, o, price, q) EXCEPT
             !.fills = @ \cup {Reported(o, o[2], IF order.side = "buy" THEN q ELSE -q, price,
                                        OpenAt(order.session), CloseAt(k))}]

(* Earlier sessions first, then sells, then by id; and what has the same   *)
(* id as it was planned (sort.SliceStable).                                *)
Place(i) == CHOOSE n \in DOMAIN ByID : ByID[n] = i
Pass(reason) == CHOOSE n \in DOMAIN Passes : Passes[n] = reason
Precedes(o, r) ==
    \/ o[1] < r[1]
    \/ o[1] = r[1] /\ Sale(o) /\ ~Sale(r)
    \/ o[1] = r[1] /\ Sale(o) = Sale(r) /\ Place(o[2]) < Place(r[2])
    \/ Id(o) = Id(r) /\ Pass(o[3]) < Pass(r[3])
Upcoming(S) == CHOOSE o \in S : \A r \in S \ {o} : Precedes(o, r)

-------------------------------------------------------------------------------
(* buyBenchmark: all the cash in the benchmark at the first open.          *)
BuyBenchmark(s, b, k) ==
    LET price == SlippedPrice(s.days[k].bars[Benchmark].open, "buy")
        q == Max({n \in 0 .. Capacity[Benchmark] : n = 0 \/ PurchaseCost(price, n) <= b.balances.available})
        o == <<k, Benchmark, "entry_signal">>
        order == [NoOrder EXCEPT !.state = "pending", !.instrument = Benchmark, !.quantity = q,
                                 !.capacity = Capacity[Benchmark], !.cash = PurchaseCost(price, q),
                                 !.session = k] IN
    IF b.broken \/ ~Opened(s, k, Benchmark, CloseAt(k)) THEN Break(b)
    ELSE IF q = 0 THEN Break(b)
    ELSE [Fill(Reserve(b, o, order), o, price, q)
             EXCEPT !.fills = {Reported(o, Benchmark, q, price, OpenAt(k), CloseAt(k))}]

FollowBenchmark(s, b, k) ==
    LET opened == Reconcile(s, b, OpenAt(k), CloseAt(k), {Benchmark})
        bought == IF k = 1 THEN BuyBenchmark(s, opened, k) ELSE opened
        closed == Reconcile(s, bought, CloseAt(k), CloseAt(k), {Benchmark}) IN
    IF Priced(closed, Closes(s, k, CloseAt(k))) THEN closed ELSE Break(closed)

-------------------------------------------------------------------------------
(* economicCurve: the NAV at each close of what had taken effect by then,  *)
(* whenever it was recorded, at the closes known a session later.  The     *)
(* other rows move money between the balances and leave their total.       *)
(* Fault: fills count from when they were recorded.                        *)
EffectiveRecorded(b, t) ==
    {e \in b.ledger : e.at <= t /\ \A f \in b.fills : f.of = e.of => f.recorded <= t}
Effective(b, t) == {e \in b.ledger : e.at <= t}

HeldAt(b, t) ==
    [i \in Instruments |->
        SumFunction([e \in {r \in Effective(b, t) : r.instrument = i} |-> e.quantity])]
CurvePrices(s, k) == Closes(s, k, Min({CloseAt(k + 1), CloseAt(Last - 1)}))
HasCurve(s, b) == \A k \in Window, i \in Instruments :
                  HeldAt(b, CloseAt(k))[i] > 0 => CurvePrices(s, k)[i] > 0
EconomicCurve(s, b) ==
    [k \in Window |->
        SumFunction([e \in Effective(b, CloseAt(k)) |-> Total(e.delta)])
        + SumFunction([i \in Instruments |->
                          GrossValue(CurvePrices(s, k)[i], HeldAt(b, CloseAt(k))[i])])]

-------------------------------------------------------------------------------
(* The run and its job.                                                    *)

NoResult == [curve |-> <<>>, fills |-> {}, index |-> <<>>, bought |-> {}]
NoRun == [status |-> "none", result |-> NoResult, job |-> "none", attempt |-> 0]
NoReplay == [phase |-> "idle", session |-> 0, book |-> NewReplayBook, benchmark |-> NewReplayBook,
             todo |-> {}]
Done(status) == status \in {"completed", "failed"}

Init ==
    /\ snapshot = [days |-> <<>>, history |-> <<>>]
    /\ run = NoRun
    /\ replay = NoReplay

(* CreateBacktestHandler freezes the source's data, and schedules the job  *)
(* in the same transaction.                                                *)
CreateBacktest(days, history) ==
    /\ run.status = "none"
    /\ snapshot' = [days |-> days, history |-> history]
    /\ run' = [NoRun EXCEPT !.status = "queued", !.job = "available"]
    /\ UNCHANGED replay

Fetch ==
    /\ run.job = "available"
    /\ run' = [run EXCEPT !.job = "working", !.attempt = @ + 1]
    /\ replay' = [NoReplay EXCEPT !.phase = "start"]
    /\ UNCHANGED snapshot

(* A run that is done already is left as it is.                            *)
Start ==
    /\ replay.phase = "start"
    /\ IF Done(run.status)
       THEN /\ run' = [run EXCEPT !.job = "ended"]
            /\ replay' = NoReplay
       ELSE /\ run' = [run EXCEPT !.status = "running"]
            /\ replay' = [replay EXCEPT !.phase = "decide", !.session = 1]
    /\ UNCHANGED snapshot

(* A session's evening before, and its open.                               *)
Evening(s, b, k) == Plan(s, Reconcile(s, b, CloseAt(k - 1), CloseAt(k - 1), Universe), k)
Decide ==
    LET k == replay.session
        opened == Reconcile(snapshot, Evening(snapshot, replay.book, k), OpenAt(k), CloseAt(k), Universe) IN
    /\ replay.phase = "decide"
    /\ replay' = [replay EXCEPT !.book = opened, !.todo = Active(opened),
                                !.phase = IF opened.broken THEN "finish" ELSE "execute"]
    /\ UNCHANGED <<snapshot, run>>

ExecuteNext ==
    LET o == Upcoming(replay.todo)
        b == Execute(snapshot, replay.book, o, replay.session) IN
    /\ replay.phase = "execute" /\ replay.todo # {}
    /\ replay' = [replay EXCEPT !.book = b, !.todo = @ \ {o},
                                !.phase = IF b.broken THEN "finish" ELSE @]
    /\ UNCHANGED <<snapshot, run>>

CloseSession ==
    LET k == replay.session
        b == Reconcile(snapshot, replay.book, CloseAt(k), CloseAt(k), Universe)
        prices == Closes(snapshot, k, CloseAt(k))
        closed == IF b.broken \/ ~Priced(b, prices) THEN Break(b)
                  ELSE [b EXCEPT !.peak = Max({@, NAV(b, prices)})] IN
    /\ replay.phase = "execute" /\ replay.todo = {}
    /\ replay' = [replay EXCEPT
          !.book = closed,
          !.benchmark = IF closed.broken \/ @.broken THEN @ ELSE FollowBenchmark(snapshot, @, k),
          !.session = IF k + 1 \in Window THEN k + 1 ELSE k,
          !.phase = IF closed.broken \/ k + 1 \notin Window THEN "finish" ELSE "decide"]
    /\ UNCHANGED <<snapshot, run>>

(* The result, of which the benchmark is a part if its data were complete. *)
Result(b, bench) ==
    [curve |-> EconomicCurve(snapshot, b), fills |-> b.fills,
     index |-> IF bench.broken THEN <<>> ELSE EconomicCurve(snapshot, bench),
     bought |-> IF bench.broken THEN {} ELSE bench.fills]
Fails(b, bench) ==
    b.broken \/ ~HasCurve(snapshot, b) \/ (~bench.broken /\ ~HasCurve(snapshot, bench))

(* The outcome is saved under the row's lock; when the answer of the       *)
(* commit is lost the attempt ends in an error all the same.               *)
Finish ==
    /\ replay.phase = "finish"
    /\ \E acknowledged \in BOOLEAN :
          run' = [run EXCEPT
                     !.status = IF Fails(replay.book, replay.benchmark) THEN "failed" ELSE "completed",
                     !.result = IF Fails(replay.book, replay.benchmark) THEN NoResult
                                ELSE Result(replay.book, replay.benchmark),
                     !.job = IF acknowledged \/ run.attempt >= MaxAttempts THEN "ended"
                             ELSE "available"]
    /\ replay' = NoReplay
    /\ UNCHANGED snapshot

(* A statement fails, the job's time is over, or the Worker dies: the      *)
(* attempt leaves nothing behind.  The last one marks the run, unless it   *)
(* can not do that either.  Fault: a run that is done is marked too.       *)
InterruptAlways ==
    /\ run.job = "working"
    /\ \E marked \in BOOLEAN :
          run' = IF run.attempt < MaxAttempts THEN [run EXCEPT !.job = "available"]
                 ELSE IF marked
                 THEN [run EXCEPT !.job = "ended", !.status = "failed"]
                 ELSE [run EXCEPT !.job = "ended"]
    /\ replay' = NoReplay
    /\ UNCHANGED snapshot
Interrupt ==
    /\ run.job = "working"
    /\ \E marked \in BOOLEAN :
          run' = IF run.attempt < MaxAttempts THEN [run EXCEPT !.job = "available"]
                 ELSE IF marked /\ ~Done(run.status)
                 THEN [run EXCEPT !.job = "ended", !.status = "failed"]
                 ELSE [run EXCEPT !.job = "ended"]
    /\ replay' = NoReplay
    /\ UNCHANGED snapshot

Next ==
    \/ \E days \in Pasts, history \in [Actions -> Histories] : CreateBacktest(days, history)
    \/ Fetch \/ Start \/ Decide \/ ExecuteNext \/ CloseSession \/ Finish \/ Interrupt

Spec == Init /\ [][Next]_vars

-------------------------------------------------------------------------------
(* Type correctness, and the two halves of a run agree: a result is kept   *)
(* exactly with the status that reports it (SaveBacktest writes both), and *)
(* what is reserved in the replayed book is what its open orders reserve.  *)
ReservedCash(b, S) == SumFunction([o \in S |-> b.orders[o].cash])
BackedBook(b) ==
    /\ b.balances \in Balances /\ b.positions \in Positions
    /\ b.balances.reserved = ReservedCash(b, Active(b))
    /\ \A i \in Instruments :
          /\ b.positions[i].reserved <= b.positions[i].quantity
          /\ b.positions[i].reserved = ReservedShares(b, {o \in Active(b) : o[2] = i})
TypeOK ==
    /\ run.status \in {"none", "queued", "running", "completed", "failed"}
    /\ run.job \in {"none", "available", "working", "ended"} /\ run.attempt \in 0 .. MaxAttempts
    /\ replay.phase \in {"idle", "start", "decide", "execute", "finish"}
    /\ replay.todo \subseteq Active(replay.book)
    /\ BackedBook(replay.book) /\ BackedBook(replay.benchmark)
    /\ run.status = "completed" <=> run.result # NoResult

(* What BuildRebalance plans respects the policy as if it were executed at *)
(* the closes it sees, in whatever order the reductions and the purchases  *)
(* were projected.                                                         *)
Signed(p) == IF p.side = "buy" THEN p.quantity ELSE -p.quantity
Projected(b, orders) ==
    [i \in Instruments |->
        b.positions[i].quantity
        + SumFunction([n \in DOMAIN orders |-> IF orders[n].instrument = i THEN Signed(orders[n]) ELSE 0])]
Weighs(holdings, prices, S) == SumFunction([i \in S |-> GrossValue(prices[i], holdings[i])])
Kept(holdings, prices, nav, S) ==
    \A i \in S, l \in Levels : Weighs(holdings, prices, Group(l, i)) <= MoneyLimit(nav, Policy[l])
PlanKept(b, k) ==
    LET prices == Closes(snapshot, k - 1, CloseAt(k - 1))
        orders == Rebalance(snapshot, b, k).orders
        traded(S) == SumFunction([n \in S |-> GrossValue(prices[orders[n].instrument],
                                                         orders[n].quantity)])
        ordinary == {n \in DOMAIN orders : orders[n].reason \notin Emergency}
        nav == NAV(b, prices) IN
    (/\ ~b.broken /\ b.automatic /\ Active(b) = {} /\ Priced(b, prices)
     /\ ~DrawdownReached(nav, b.peak, Policy.pause)) =>
        /\ Kept(Projected(b, orders), prices, nav, Universe)
        /\ traded(ordinary) <= MoneyLimit(nav, Policy.turnover)
        /\ (\E n \in ordinary : orders[n].side = "buy") =>
              traded(DOMAIN orders) <= MoneyLimit(nav, Policy.turnover)

(* What execute makes of session k's orders once its bars are there: the   *)
(* instruments bought keep to the policy at the opens, of the NAV that     *)
(* the account opened with, whatever the gap from the closes the orders    *)
(* were planned at, and however partly they were filled; and something is  *)
(* bought only within the turnover, all the session's sales counted.       *)
OnTime(b, k) == {f \in FillsIn(b, k) : f.recorded = CloseAt(k)}
OpeningNAV(b, k) ==
    LET prices == Opens(snapshot, k, CloseAt(k))
        quoted(f) == GrossValue(prices[f.instrument], Shares(f))
        slipped(f) == IF f.quantity > 0 THEN f.gross - quoted(f) ELSE quoted(f) - f.gross IN
    NAV(b, prices) + SumFunction([f \in OnTime(b, k) |-> f.fee + slipped(f)])
ExecutionKept(b, k) ==
    LET fills == OnTime(b, k)
        bought == {f \in fills : f.quantity > 0}
        holdings == [i \in Instruments |-> b.positions[i].quantity]
        traded(S) == SumFunction([f \in S |-> f.gross]) IN
    /\ Kept(holdings, Opens(snapshot, k, CloseAt(k)), OpeningNAV(b, k), {f.instrument : f \in bought})
    /\ traded({f \in fills : f.of[3] \notin Emergency}) <= MoneyLimit(OpeningNAV(b, k), Policy.turnover)
    /\ bought # {} => traded(fills) <= MoneyLimit(OpeningNAV(b, k), Policy.turnover)

WithinPolicy ==
    LET k == replay.session
        b == replay.book IN
    /\ replay.phase = "decide" =>
          PlanKept(Reconcile(snapshot, b, CloseAt(k - 1), CloseAt(k - 1), Universe), k)
    /\ replay.phase = "execute" /\ replay.todo = {} => ExecutionKept(b, k)

(***************************************************************************)
(* No look-ahead: the orders of a session, with the corporate actions that *)
(* are applied before they are planned, and later what each of them comes  *)
(* to, are the same whatever the data say that was not available yet:      *)
(* closes to come, bars known late, actions and corrections still to be    *)
(* published (SelectSnapshot at decisionAt, now, and before the open).     *)
(* Known is the time of the step under way: the evening before the session *)
(* while its orders are decided, its own close when they are executed.     *)
(***************************************************************************)
Known ==
    IF replay.phase = "decide" THEN CloseAt(replay.session - 1) ELSE CloseAt(replay.session)

Censored ==
    [days |-> [k \in DOMAIN snapshot.days |->
        [bars |-> [i \in Instruments |->
            IF snapshot.days[k].bars[i] # None /\ AvailableAt(snapshot, k, i) <= Known
            THEN snapshot.days[k].bars[i] ELSE None],
         signals |-> IF CloseAt(k) <= Known THEN snapshot.days[k].signals ELSE <<>>]],
     history |-> [a \in DOMAIN snapshot.history |->
        IF EffectiveAt[a] < Known THEN snapshot.history[a]
        ELSE IF EffectiveAt[a] = Known /\ snapshot.history[a] = "timely" THEN "timely" ELSE "absent"]]

NoLookAhead ==
    LET k == replay.session
        b == replay.book IN
    /\ replay.phase = "decide" => Evening(snapshot, b, k) = Evening(Censored, b, k)
    /\ replay.phase = "execute" =>
          /\ replay.todo # {} => LET o == Upcoming(replay.todo) IN
                                 Execute(snapshot, b, o, k) = Execute(Censored, b, o, k)
          /\ Reconcile(snapshot, b, CloseAt(k), CloseAt(k), Universe)
                = Reconcile(Censored, b, CloseAt(k), CloseAt(k), Universe)

(* Every fill has a key of its own, as every corporate action and every    *)
(* settlement has: what a sale comes to is found by it.                    *)
FillKeysUnique ==
    \A e, r \in replay.book.ledger :
        e.kind = "sell_fill" /\ r.kind = "sell_fill" /\ Id(e.of) = Id(r.of) => e = r

(* The curve of a completed run is what its own fills and the frozen data  *)
(* say the account was worth at each close (economicCurve), although it is *)
(* summed from ledger rows written in the order of confirmation.  A fill   *)
(* is overtaken if an action of its instrument was applied before the fill *)
(* was recorded and takes effect after it: nothing repeats the action.     *)
Overtaken(f) == \E a \in Actions : /\ Security[a] = f.instrument /\ snapshot.history[a] # "absent"
                                  /\ f.at < EffectiveAt[a] /\ EffectiveAt[a] < f.recorded
WorthOf(fills, k, S) ==
    LET t == CloseAt(k)
        known == {a \in Actions : Security[a] \in S /\ snapshot.history[a] # "absent"}
        splits == {a \in known : Split(a)}
        paid(f) == IF f.quantity > 0 THEN f.gross + f.fee ELSE f.fee - f.gross
        before(a) == {f \in fills : f.at < EffectiveAt[a]}
        gain(a) == IF Split(a)
                   THEN CashInLieu(a, Replayed(fills, Security[a], splits, EffectiveAt[a] - 1))
                   ELSE Amount[a] * Replayed(before(a), Security[a], splits, EffectiveAt[a]) IN
    InitialCash
    - SumFunction([f \in {g \in fills : g.at <= t} |-> paid(f)])
    + SumFunction([a \in {c \in known : EffectiveAt[c] <= t} |-> gain(a)])
    + SumFunction([i \in {j \in S : Replayed(fills, j, splits, t) > 0} |->
                      snapshot.days[k].bars[i].close * Replayed(fills, i, splits, t)])
CurveHonest ==
    run.status = "completed" =>
        /\ (\A f \in run.result.fills : ~Overtaken(f)) =>
              run.result.curve = [k \in Window |-> WorthOf(run.result.fills, k, Universe)]
        /\ run.result.index # <<>> =>
              run.result.index = [k \in Window |-> WorthOf(run.result.bought, k, {Benchmark})]

===============================================================================
