---------------------------- MODULE BacktestProofs ----------------------------
(***************************************************************************)
(* Theorems about Backtest, for every frozen data, policy and calendar.    *)
(***************************************************************************)
EXTENDS Backtest, AccountBookProofs

-------------------------------------------------------------------------------
(* What holds of 0, and of each number's successor, holds up to n: G is    *)
(* the set of those of which it holds.                                     *)
LEMMA CountingUp ==
    ASSUME NEW n \in Nat, NEW G, 0 \in G, \A m \in 0 .. n - 1 : m \in G => m + 1 \in G
    PROVE  n \in G
<1> SUFFICES ASSUME n \notin G PROVE FALSE
  OBVIOUS
<1>1. PICK B : B = {m \in 0 .. n : m \notin G}
  OBVIOUS
<1>2. B \in SUBSET Nat /\ B # {}
  BY <1>1
<1>3. PICK m : m = Min(B)
  OBVIOUS
<1>4. m \in B /\ \A y \in B : m <= y
  BY <1>2, <1>3, MinIs
<1>5. m - 1 \in 0 .. n - 1 /\ m - 1 \notin B /\ m \in 0 .. n /\ m \notin G
  BY <1>1, <1>2, <1>4
<1> QED BY <1>1, <1>5

Largest(s) == CHOOSE x \in s : \A y \in s : x >= y

LEMMA LargestIs ==
    ASSUME NEW n \in Nat, NEW s \in SUBSET (1 .. n), s # {}
    PROVE  Largest(s) \in s /\ \A y \in s : Largest(s) >= y
<1>1. PICK G : G = {m \in 0 .. n : \A u \in SUBSET (1 .. m) : u # {} => \E x \in u : \A y \in u : x >= y}
  OBVIOUS
<1>2. 0 \in G
  <2>1. \A u \in SUBSET (1 .. 0) : u = {}
    OBVIOUS
  <2> QED BY <1>1, <2>1, 0 \in 0 .. n
<1>3. ASSUME NEW m \in 0 .. n - 1, m \in G PROVE m + 1 \in G
  <2>1. ASSUME NEW u \in SUBSET (1 .. m + 1), u # {} PROVE \E x \in u : \A y \in u : x >= y
    <3>1. CASE m + 1 \in u
      BY <3>1
    <3>2. CASE m + 1 \notin u
      BY <1>1, <1>3, <2>1, <3>2
    <3> QED BY <3>1, <3>2
  <2> QED BY <1>1, <2>1
<1>4. n \in G
  BY <1>2, <1>3, CountingUp
<1>5. \E x \in s : \A y \in s : x >= y
  BY <1>1, <1>4
<1> QED BY <1>5 DEF Largest

(* The operations that the replay folds over a sequence, named by w.       *)
FoldStep(w, c, x) ==
    CASE w.op = "action"  -> ReconcileIfSeen(c, x, w.time, w.seen)
      [] w.op = "order"   -> PlaceOrder(c, x, w.session, w.prices)
      [] w.op = "stop"    -> StopLoss(c, x)
      [] w.op = "exit"    -> ExitSignal(c, x)
      [] w.op = "reduce"  -> Reduction(w.level, c, x)
      [] w.op = "entry"   -> PlanPurchase(c, x)

FoldOf(w, base, seq, g, s) ==
    IF s = {} THEN base ELSE FoldStep(w, g[s \ {Largest(s)}], seq[Largest(s)])

FoldSolves(g, w, base, seq, n) == g = [s \in SUBSET (1 .. n) |-> FoldOf(w, base, seq, g, s)]

(* A fold is a recursive function on the subsets of the positions, which   *)
(* exists.                                                                 *)
LEMMA FoldExists ==
    ASSUME NEW w, NEW base, NEW seq, NEW n \in Nat
    PROVE  \E g : FoldSolves(g, w, base, seq, n)
<1>1. PICK G : G = {m \in 0 .. n : \E g : g = [s \in SUBSET (1 .. m) |-> FoldOf(w, base, seq, g, s)]}
  OBVIOUS
<1>2. 0 \in G
  <2>1. PICK g : g = [s \in SUBSET (1 .. 0) |-> base]
    OBVIOUS
  <2>2. \A s \in SUBSET (1 .. 0) : s = {}
    OBVIOUS
  <2>3. g = [s \in SUBSET (1 .. 0) |-> FoldOf(w, base, seq, g, s)]
    BY <2>1, <2>2 DEF FoldOf
  <2> QED BY <1>1, <2>3
<1>3. ASSUME NEW m \in 0 .. n - 1, m \in G PROVE m + 1 \in G
  <2>1. PICK g : g = [s \in SUBSET (1 .. m) |-> FoldOf(w, base, seq, g, s)]
    BY <1>1, <1>3
  <2>2. PICK h : h = [s \in SUBSET (1 .. m + 1) |->
                        IF m + 1 \in s THEN FoldStep(w, g[s \ {m + 1}], seq[m + 1]) ELSE g[s]]
    OBVIOUS
  <2>3. ASSUME NEW s \in SUBSET (1 .. m + 1) PROVE h[s] = FoldOf(w, base, seq, h, s)
    <3>1. CASE m + 1 \in s
      <4>1. Largest(s) = m + 1
        <5>1. Largest(s) \in s /\ \A y \in s : Largest(s) >= y
          BY <3>1, LargestIs, m + 1 \in Nat
        <5>2. Largest(s) \in 1 .. m + 1 /\ Largest(s) >= m + 1
          BY <3>1, <5>1
        <5> QED BY <5>2
      <4>2. s \ {m + 1} \in SUBSET (1 .. m) /\ s \ {m + 1} \in SUBSET (1 .. m + 1)
        OBVIOUS
      <4>3. h[s \ {m + 1}] = g[s \ {m + 1}]
        BY <2>2, <4>2
      <4> QED BY <2>2, <3>1, <4>1, <4>3 DEF FoldOf
    <3>2. CASE m + 1 \notin s
      <4>1. s \in SUBSET (1 .. m) /\ h[s] = g[s]
        BY <2>2, <3>2
      <4>2. g[s] = FoldOf(w, base, seq, g, s)
        BY <2>1, <4>1
      <4>3. CASE s = {}
        BY <4>1, <4>2, <4>3 DEF FoldOf
      <4>4. CASE s # {}
        <5>1. s \ {Largest(s)} \in SUBSET (1 .. m) /\ m + 1 \notin s \ {Largest(s)}
          BY <4>1
        <5>2. h[s \ {Largest(s)}] = g[s \ {Largest(s)}]
          BY <2>2, <5>1
        <5> QED BY <4>1, <4>2, <5>2 DEF FoldOf
      <4> QED BY <4>3, <4>4
    <3> QED BY <3>1, <3>2
  <2>4. h = [s \in SUBSET (1 .. m + 1) |-> FoldOf(w, base, seq, h, s)]
    BY <2>2, <2>3
  <2> QED BY <1>1, <2>4
<1>4. n \in G
  BY <1>2, <1>3, CountingUp
<1> QED BY <1>1, <1>4 DEF FoldSolves

(* Its values on the first m positions are what the fold goes through.     *)
Runs(h, w, base, seq, n) ==
    h[0] = base /\ \A m \in 0 .. n - 1 : h[m + 1] = FoldStep(w, h[m], seq[m + 1])

LEMMA FoldRuns ==
    ASSUME NEW w, NEW base, NEW seq, NEW n \in Nat,
           NEW g, FoldSolves(g, w, base, seq, n)
    PROVE  \E h : Runs(h, w, base, seq, n) /\ h[n] = g[1 .. n]
<1>g. g = [s \in SUBSET (1 .. n) |-> FoldOf(w, base, seq, g, s)]
  BY DEF FoldSolves
<1>1. PICK h : h = [m \in 0 .. n |-> g[1 .. m]]
  OBVIOUS
<1>2. h[0] = base
  BY <1>g, <1>1, 1 .. 0 = {} DEF FoldOf
<1>3. ASSUME NEW m \in 0 .. n - 1 PROVE h[m + 1] = FoldStep(w, h[m], seq[m + 1])
  <2>1. 1 .. m + 1 \in SUBSET (1 .. n) /\ 1 .. m + 1 # {} /\ m + 1 \in Nat
    OBVIOUS
  <2>2. Largest(1 .. m + 1) = m + 1
    <3>1. Largest(1 .. m + 1) \in 1 .. m + 1 /\ \A y \in 1 .. m + 1 : Largest(1 .. m + 1) >= y
      BY <2>1, LargestIs
    <3> QED BY <3>1
  <2>3. (1 .. m + 1) \ {m + 1} = 1 .. m
    OBVIOUS
  <2>4. g[1 .. m + 1] = FoldStep(w, g[1 .. m], seq[m + 1])
    BY <1>g, <2>1, <2>2, <2>3 DEF FoldOf
  <2> QED BY <1>1, <2>4
<1>4. Runs(h, w, base, seq, n)
  BY <1>2, <1>3 DEF Runs
<1>5. h[n] = g[1 .. n]
  BY <1>1
<1> QED BY <1>4, <1>5

(* The value of the fold is the last of them.                              *)
Folded(w, base, seq, n) == (CHOOSE f : FoldSolves(f, w, base, seq, n))[1 .. n]

LEMMA FoldedRuns ==
    ASSUME NEW w, NEW base, NEW seq, NEW n \in Nat
    PROVE  \E h : Runs(h, w, base, seq, n) /\ h[n] = Folded(w, base, seq, n)
<1>1. PICK g : g = CHOOSE f : FoldSolves(f, w, base, seq, n)
  OBVIOUS
<1>2. FoldSolves(g, w, base, seq, n)
  BY <1>1, FoldExists
<1>3. Folded(w, base, seq, n) = g[1 .. n]
  BY <1>1 DEF Folded
<1>4. PICK h : Runs(h, w, base, seq, n) /\ h[n] = g[1 .. n]
  BY <1>2, FoldRuns
<1> QED BY <1>3, <1>4

(* The folds of the replay.                                                *)
ActionWork(t, seen) == [op |-> "action", time |-> t, seen |-> seen]
OrderWork(k, prices) == [op |-> "order", session |-> k, prices |-> prices]
StopWork == [op |-> "stop"]
ExitWork == [op |-> "exit"]
ReduceWork(level) == [op |-> "reduce", level |-> level]
EntryWork == [op |-> "entry"]

LEMMA WorkSteps ==
    ASSUME NEW c, NEW x
    PROVE  /\ \A t, seen : FoldStep(ActionWork(t, seen), c, x) = ReconcileIfSeen(c, x, t, seen)
           /\ \A k, prices : FoldStep(OrderWork(k, prices), c, x) = PlaceOrder(c, x, k, prices)
           /\ FoldStep(StopWork, c, x) = StopLoss(c, x)
           /\ FoldStep(ExitWork, c, x) = ExitSignal(c, x)
           /\ \A level : FoldStep(ReduceWork(level), c, x) = Reduction(level, c, x)
           /\ FoldStep(EntryWork, c, x) = PlanPurchase(c, x)
BY DEF FoldStep, ActionWork, OrderWork, StopWork, ExitWork, ReduceWork, EntryWork

LEMMA ActionFold ==
    ASSUME NEW b, NEW t, NEW seen, NEW n \in Nat, n = Len(ActionOrder)
    PROVE  \E h : Runs(h, ActionWork(t, seen), Settle(b, t), ActionOrder, n)
                  /\ h[n] = ReconcileActions(b, t, seen)
<1>1. DOMAIN ActionOrder = 1 .. n
  BY BacktestAssumption
<1>2. PICK w : w = ActionWork(t, seen)
  OBVIOUS
<1>3. w.op = "action" /\ w.time = t /\ w.seen = seen
  BY <1>2 DEF ActionWork
<1>4. ReconcileActions(b, t, seen) = Folded(w, Settle(b, t), ActionOrder, n)
  BY <1>1, <1>3 DEF ReconcileActions, Seqs!FoldLeft, Seqs!MapThenFoldSet, Seqs!Max, FoldSolves, FoldOf,
                    FoldStep, Largest, Folded
<1> QED BY <1>2, <1>4, FoldedRuns

LEMMA OrderFold ==
    ASSUME NEW b, NEW X, NEW orders \in Seq(X), NEW k, NEW prices, NEW n \in Nat, n = Len(orders)
    PROVE  \E h : Runs(h, OrderWork(k, prices), b, orders, n)
                  /\ h[n] = PlaceOrders(b, orders, k, prices)
<1>1. DOMAIN orders = 1 .. n
  OBVIOUS
<1>2. PICK w : w = OrderWork(k, prices)
  OBVIOUS
<1>3. w.op = "order" /\ w.session = k /\ w.prices = prices
  BY <1>2 DEF OrderWork
<1>4. PlaceOrders(b, orders, k, prices) = Folded(w, b, orders, n)
  BY <1>1, <1>3 DEF PlaceOrders, Seqs!FoldLeft, Seqs!MapThenFoldSet, Seqs!Max, FoldSolves, FoldOf,
                    FoldStep, Largest, Folded
<1> QED BY <1>2, <1>4, FoldedRuns

LEMMA StopFold ==
    ASSUME NEW r, NEW n \in Nat, n = Len(ByID)
    PROVE  \E h : Runs(h, StopWork, r, ByID, n) /\ h[n] = Seqs!FoldLeft(StopLoss, r, ByID)
<1>1. DOMAIN ByID = 1 .. n
  BY RiskAssumption
<1>2. PICK w : w = StopWork
  OBVIOUS
<1>3. w.op = "stop"
  BY <1>2 DEF StopWork
<1>4. Seqs!FoldLeft(StopLoss, r, ByID) = Folded(w, r, ByID, n)
  BY <1>1, <1>3 DEF Seqs!FoldLeft, Seqs!MapThenFoldSet, Seqs!Max, FoldSolves, FoldOf,
                    FoldStep, Largest, Folded
<1> QED BY <1>2, <1>4, FoldedRuns

LEMMA ExitFold ==
    ASSUME NEW r, NEW n \in Nat, n = Len(ByID)
    PROVE  \E h : Runs(h, ExitWork, r, ByID, n) /\ h[n] = Seqs!FoldLeft(ExitSignal, r, ByID)
<1>1. DOMAIN ByID = 1 .. n
  BY RiskAssumption
<1>2. PICK w : w = ExitWork
  OBVIOUS
<1>3. w.op = "exit"
  BY <1>2 DEF ExitWork
<1>4. Seqs!FoldLeft(ExitSignal, r, ByID) = Folded(w, r, ByID, n)
  BY <1>1, <1>3 DEF Seqs!FoldLeft, Seqs!MapThenFoldSet, Seqs!Max, FoldSolves, FoldOf,
                    FoldStep, Largest, Folded
<1> QED BY <1>2, <1>4, FoldedRuns

LEMMA ReduceFold ==
    ASSUME NEW r, NEW level, NEW n \in Nat, n = Len(ByID)
    PROVE  \E h : Runs(h, ReduceWork(level), r, ByID, n) /\ h[n] = Reduce(level, r)
<1>1. DOMAIN ByID = 1 .. n
  BY RiskAssumption
<1>2. PICK w : w = ReduceWork(level)
  OBVIOUS
<1>3. w.op = "reduce" /\ w.level = level
  BY <1>2 DEF ReduceWork
<1>4. Reduce(level, r) = Folded(w, r, ByID, n)
  BY <1>1, <1>3 DEF Reduce, Seqs!FoldLeft, Seqs!MapThenFoldSet, Seqs!Max, FoldSolves, FoldOf,
                    FoldStep, Largest, Folded
<1> QED BY <1>2, <1>4, FoldedRuns

LEMMA EntryFold ==
    ASSUME NEW r, NEW X, r.signals \in Seq(X), NEW n \in Nat, n = Len(r.signals),
           NEW places, places = [m \in 1 .. n |-> m]
    PROVE  \E h : Runs(h, EntryWork, r, places, n) /\ h[n] = EntrySignals(r)
<1>1. DOMAIN r.signals = 1 .. n /\ DOMAIN places = 1 .. n
  OBVIOUS
<1>2. PICK w : w = EntryWork
  OBVIOUS
<1>3. w.op = "entry"
  BY <1>2 DEF EntryWork
<1>4. EntrySignals(r) = Folded(w, r, places, n)
  BY <1>1, <1>3 DEF EntrySignals, Seqs!FoldLeft, Seqs!MapThenFoldSet, Seqs!Max, FoldSolves, FoldOf,
                    FoldStep, Largest, Folded
<1> QED BY <1>2, <1>4, FoldedRuns

-------------------------------------------------------------------------------
(* A replayed book has the fields of AccountBook's, its core, and four     *)
(* more, which the operations of AccountBook leave alone.                  *)
Core(b) ==
    [balances |-> b.balances, positions |-> b.positions, orders |-> b.orders,
     ledger |-> b.ledger, recorded |-> b.recorded, splits |-> b.splits]
ReplayBook(b) ==
    b = [balances |-> b.balances, positions |-> b.positions, orders |-> b.orders,
         ledger |-> b.ledger, recorded |-> b.recorded, splits |-> b.splits,
         fills |-> b.fills, peak |-> b.peak, automatic |-> b.automatic, broken |-> b.broken]
Beside(b, c) ==
    c.fills = b.fills /\ c.peak = b.peak /\ c.automatic = b.automatic /\ c.broken = b.broken

LEMMA CoreFields ==
    ASSUME NEW b
    PROVE  /\ Core(b).balances = b.balances /\ Core(b).positions = b.positions
           /\ Core(b).orders = b.orders /\ Core(b).ledger = b.ledger
           /\ Core(b).recorded = b.recorded /\ Core(b).splits = b.splits
           /\ \A a : Recorded(Core(b), a) <=> Recorded(b, a)
           /\ Unsettled(Core(b)) = Unsettled(b)
           /\ \A a, t : PaymentDue(Core(b), a, t) <=> PaymentDue(b, a, t)
           /\ \A o, p, q : CanFill(Core(b), o, p, q) <=> CanFill(b, o, p, q)
           /\ \A order : CanReserve(Core(b), order) <=> CanReserve(b, order)
BY DEF Core, Recorded, Unsettled, PaymentDue, CanFill, CanReserve

(* A book of which only the core has changed.                              *)
LEMMA CoreUpdate ==
    ASSUME NEW b, NEW x, NEW y, NEW z, NEW l, NEW r, NEW s, NEW c,
           c = [balances |-> x, positions |-> y, orders |-> z, ledger |-> l, recorded |-> r, splits |-> s,
                fills |-> b.fills, peak |-> b.peak, automatic |-> b.automatic, broken |-> b.broken]
    PROVE  /\ Core(c) = [balances |-> x, positions |-> y, orders |-> z, ledger |-> l, recorded |-> r,
                         splits |-> s]
           /\ ReplayBook(c) /\ Beside(b, c)
BY DEF Core, ReplayBook, Beside

(* Reserving does to the core what it does to the book,                    *)
LEMMA ReserveCore ==
    ASSUME NEW b, ReplayBook(b), NEW o, NEW order, NEW c, c = Reserve(b, o, order)
    PROVE  Core(c) = Reserve(Core(b), o, order) /\ ReplayBook(c) /\ Beside(b, c)
<1>1. PICK x, y, z, l :
         /\ x = Plus(b.balances, Delta(-order.cash, order.cash, 0, 0))
         /\ y = [b.positions EXCEPT ![order.instrument].reserved = @ + order.shares]
         /\ z = [b.orders EXCEPT ![o] = order]
         /\ l = b.ledger \cup {Row("reserve", o, Delta(-order.cash, order.cash, 0, 0), order.instrument, 0, 0)}
  OBVIOUS
<1>2. c = [b EXCEPT !.balances = x, !.positions = y, !.orders = z, !.ledger = l]
  BY <1>1 DEF Reserve
<1>3. Reserve(Core(b), o, order) = [Core(b) EXCEPT !.balances = x, !.positions = y, !.orders = z, !.ledger = l]
  BY <1>1 DEF Reserve, Core
<1>4. Reserve(Core(b), o, order)
        = [balances |-> x, positions |-> y, orders |-> z, ledger |-> l, recorded |-> b.recorded, splits |-> b.splits]
  BY <1>3 DEF Core
<1>5. c = [balances |-> x, positions |-> y, orders |-> z, ledger |-> l, recorded |-> b.recorded, splits |-> b.splits,
           fills |-> b.fills, peak |-> b.peak, automatic |-> b.automatic, broken |-> b.broken]
  BY <1>2 DEF ReplayBook
<1> QED BY <1>4, <1>5, CoreUpdate

(* and so do the other operations.                                         *)
LEMMA ReleaseCore ==
    ASSUME NEW b, ReplayBook(b), NEW S, NEW state, NEW c, c = Release(b, S, state)
    PROVE  Core(c) = Release(Core(b), S, state) /\ ReplayBook(c) /\ Beside(b, c)
<1>1. PICK n, x, y, z, l :
         /\ n = SumFunction([o \in S |-> b.orders[o].cash])
         /\ x = Plus(b.balances, Delta(n, -n, 0, 0))
         /\ y = [i \in Instruments |->
                [b.positions[i] EXCEPT
                    !.reserved = @ - SumFunction([o \in {r \in S : b.orders[r].instrument = i}
                                                     |-> b.orders[o].shares])]]
         /\ z = [o \in OrderIds |-> IF o \in S THEN Closed(b.orders[o], state) ELSE b.orders[o]]
         /\ l = b.ledger \cup {Row("release", o, Delta(b.orders[o].cash, -b.orders[o].cash, 0, 0),
                               b.orders[o].instrument, 0, 0) : o \in S}
  OBVIOUS
<1>2. c = [b EXCEPT !.balances = x, !.positions = y, !.orders = z, !.ledger = l]
  BY <1>1 DEF Release
<1>3. Release(Core(b), S, state) = [Core(b) EXCEPT !.balances = x, !.positions = y, !.orders = z, !.ledger = l]
  BY <1>1 DEF Release, Core
<1>4. Release(Core(b), S, state)
        = [balances |-> x, positions |-> y, orders |-> z, ledger |-> l, recorded |-> b.recorded, splits |-> b.splits]
  BY <1>3 DEF Core
<1>5. c = [balances |-> x, positions |-> y, orders |-> z, ledger |-> l, recorded |-> b.recorded, splits |-> b.splits,
           fills |-> b.fills, peak |-> b.peak, automatic |-> b.automatic, broken |-> b.broken]
  BY <1>2 DEF ReplayBook
<1> QED BY <1>4, <1>5, CoreUpdate

LEMMA AdvanceCore ==
    ASSUME NEW b, ReplayBook(b), NEW S, NEW c, c = Advance(b, S)
    PROVE  Core(c) = Advance(Core(b), S) /\ ReplayBook(c) /\ Beside(b, c)
<1>1. PICK z :
         /\ z = [o \in OrderIds |-> IF o \in S THEN [b.orders[o] EXCEPT !.state = "awaiting_bar"] ELSE b.orders[o]]
  OBVIOUS
<1>2. c = [b EXCEPT !.orders = z]
  BY <1>1 DEF Advance
<1>3. Advance(Core(b), S) = [Core(b) EXCEPT !.orders = z]
  BY <1>1 DEF Advance, Core
<1>4. Advance(Core(b), S)
        = [balances |-> b.balances, positions |-> b.positions, orders |-> z, ledger |-> b.ledger, recorded |-> b.recorded, splits |-> b.splits]
  BY <1>3 DEF Core
<1>5. c = [balances |-> b.balances, positions |-> b.positions, orders |-> z, ledger |-> b.ledger, recorded |-> b.recorded, splits |-> b.splits,
           fills |-> b.fills, peak |-> b.peak, automatic |-> b.automatic, broken |-> b.broken]
  BY <1>2 DEF ReplayBook
<1> QED BY <1>4, <1>5, CoreUpdate

LEMMA FillCore ==
    ASSUME NEW b, ReplayBook(b), NEW o, NEW p, NEW q, NEW c, c = Fill(b, o, p, q)
    PROVE  Core(c) = Fill(Core(b), o, p, q) /\ ReplayBook(c) /\ Beside(b, c)
<1>1. PICK order, gross, fee, d, n, cost, x, y, z, l :
         /\ order = b.orders[o]
         /\ gross = GrossValue(p, q)
         /\ fee = TradeFee(gross)
         /\ d = IF order.side = "buy" THEN Delta(order.cash - (gross + fee), -order.cash, 0, 0)
                                     ELSE Delta(0, 0, gross - fee, 0)
         /\ n = IF order.side = "buy" THEN q ELSE -q
         /\ cost = CostAfter(b, order, gross + fee, q)
         /\ x = Plus(b.balances, d)
         /\ y = [b.positions EXCEPT
                  ![order.instrument] = [quantity |-> @.quantity + n, reserved |-> @.reserved - order.shares,
                                         cost |-> cost]]
         /\ z = [b.orders EXCEPT ![o] = Closed(order, IF q < order.quantity
                                                      THEN "partially_filled_cancelled" ELSE "filled")]
         /\ l = b.ledger \cup {Row(IF order.side = "buy" THEN "buy_fill" ELSE "sell_fill", o, d,
                                   order.instrument, n, OpenAt(order.session))}
  OBVIOUS
<1>2. c = [b EXCEPT !.balances = x, !.positions = y, !.orders = z, !.ledger = l]
  BY <1>1 DEF Fill, CostAfter
<1>3. Fill(Core(b), o, p, q) = [Core(b) EXCEPT !.balances = x, !.positions = y, !.orders = z, !.ledger = l]
  BY <1>1 DEF Fill, CostAfter, Core
<1>4. Fill(Core(b), o, p, q)
        = [balances |-> x, positions |-> y, orders |-> z, ledger |-> l, recorded |-> b.recorded, splits |-> b.splits]
  BY <1>3 DEF Core
<1>5. c = [balances |-> x, positions |-> y, orders |-> z, ledger |-> l, recorded |-> b.recorded, splits |-> b.splits,
           fills |-> b.fills, peak |-> b.peak, automatic |-> b.automatic, broken |-> b.broken]
  BY <1>2 DEF ReplayBook
<1> QED BY <1>4, <1>5, CoreUpdate

LEMMA SettleCore ==
    ASSUME NEW b, ReplayBook(b), NEW t, NEW c, c = Settle(b, t)
    PROVE  Core(c) = Settle(Core(b), t) /\ ReplayBook(c) /\ Beside(b, c)
<1>1. PICK due, n, x, l :
         /\ due = {e \in Unsettled(b) : SettlementStart(b.orders[e.of].session) <= t}
         /\ n = SumFunction([e \in due |-> e.delta.unsettled])
         /\ x = Plus(b.balances, Delta(n, 0, -n, 0))
         /\ l = b.ledger \cup {Row("settlement", e.of, Delta(e.delta.unsettled, 0, -e.delta.unsettled, 0),
                                   e.instrument, 0, 0) : e \in due}
  OBVIOUS
<1>2. c = [b EXCEPT !.balances = x, !.ledger = l]
  BY <1>1 DEF Settle, Unsettled
<1>3. Settle(Core(b), t) = [Core(b) EXCEPT !.balances = x, !.ledger = l]
  BY <1>1 DEF Settle, Unsettled, Core
<1>4. Settle(Core(b), t)
        = [balances |-> x, positions |-> b.positions, orders |-> b.orders, ledger |-> l, recorded |-> b.recorded, splits |-> b.splits]
  BY <1>3 DEF Core
<1>5. c = [balances |-> x, positions |-> b.positions, orders |-> b.orders, ledger |-> l, recorded |-> b.recorded, splits |-> b.splits,
           fills |-> b.fills, peak |-> b.peak, automatic |-> b.automatic, broken |-> b.broken]
  BY <1>2 DEF ReplayBook
<1> QED BY <1>4, <1>5, CoreUpdate

LEMMA ApplyCorporateActionCore ==
    ASSUME NEW b, ReplayBook(b), NEW a, NEW e, NEW c, c = ApplyCorporateAction(b, a, e)
    PROVE  Core(c) = ApplyCorporateAction(Core(b), a, e) /\ ReplayBook(c) /\ Beside(b, c)
<1>1. PICK i, held, lost, cost, d, n, x, y, l, r, s :
         /\ i = Security[a]
         /\ held = b.positions[i].quantity
         /\ lost = (held * Ratio[a][1]) % Ratio[a][2]
         /\ cost = IF Split(a) /\ lost # 0 THEN Rounded(b.positions[i].cost * lost, held * Ratio[a][1])
                                       ELSE 0
         /\ d = IF Split(a) THEN Delta(CashInLieu(a, held), 0, 0, 0)
                           ELSE Delta(0, 0, 0, Amount[a] * Eligible(b, a))
         /\ n = IF Split(a) THEN AfterSplit(a, held) - held ELSE 0
         /\ x = Plus(b.balances, d)
         /\ y = [b.positions EXCEPT ![i] = [@ EXCEPT !.quantity = held + n, !.cost = b.positions[i].cost - cost]]
         /\ l = b.ledger \cup {Row(IF Split(a) THEN "split" ELSE "dividend_accrual", a, d, i, n,
                                   EffectiveAt[a])}
         /\ r = [b.recorded EXCEPT ![a] = e]
         /\ s = [b.splits EXCEPT ![a] = {u \in Actions : Split(u) /\ Recorded(b, u)}]
  OBVIOUS
<1>2. c = [b EXCEPT !.balances = x, !.positions = y, !.ledger = l, !.recorded = r, !.splits = s]
  <2>1. PICK row, gone : /\ row = Row(IF Split(a) THEN "split" ELSE "dividend_accrual", a, d, i, n,
                                       EffectiveAt[a])
                         /\ gone = {u \in Actions : Split(u) /\ Recorded(b, u)}
    OBVIOUS
  <2>2. c = [b EXCEPT !.balances = Plus(@, d),
                      !.positions[i] = [@ EXCEPT !.quantity = held + n, !.cost = b.positions[i].cost - cost],
                      !.ledger = @ \cup {row}, !.recorded[a] = e, !.splits[a] = gone]
    BY <1>1, <2>1, Zenon DEF ApplyCorporateAction
  <2>3. l = b.ledger \cup {row} /\ s = [b.splits EXCEPT ![a] = gone]
    BY <1>1, <2>1, Zenon
  <2>4. x = Plus(b.balances, d) /\ r = [b.recorded EXCEPT ![a] = e]
        /\ y = [b.positions EXCEPT ![i] = [@ EXCEPT !.quantity = held + n,
                                                   !.cost = b.positions[i].cost - cost]]
    BY <1>1, Zenon
  <2> QED BY <2>2, <2>3, <2>4
<1>3. ApplyCorporateAction(Core(b), a, e) = [Core(b) EXCEPT !.balances = x, !.positions = y, !.ledger = l, !.recorded = r, !.splits = s]
  BY <1>1 DEF ApplyCorporateAction, Eligible, Recorded, Core
<1>4. ApplyCorporateAction(Core(b), a, e)
        = [balances |-> x, positions |-> y, orders |-> b.orders, ledger |-> l, recorded |-> r, splits |-> s]
  BY <1>3 DEF Core
<1>5. c = [balances |-> x, positions |-> y, orders |-> b.orders, ledger |-> l, recorded |-> r, splits |-> s,
           fills |-> b.fills, peak |-> b.peak, automatic |-> b.automatic, broken |-> b.broken]
  BY <1>2 DEF ReplayBook
<1> QED BY <1>4, <1>5, CoreUpdate

LEMMA PayDividendCore ==
    ASSUME NEW b, ReplayBook(b), NEW a, NEW c, c = PayDividend(b, a)
    PROVE  Core(c) = PayDividend(Core(b), a) /\ ReplayBook(c) /\ Beside(b, c)
<1>1. PICK r, d, x, l :
         /\ r = CHOOSE e \in b.ledger : e.kind = "dividend_accrual" /\ e.of = a
         /\ d = Delta(r.delta.dividends, 0, 0, -r.delta.dividends)
         /\ x = Plus(b.balances, d)
         /\ l = b.ledger \cup {Row("dividend_payment", a, d, Security[a], 0, 0)}
  OBVIOUS
<1>2. c = [b EXCEPT !.balances = x, !.ledger = l]
  BY <1>1 DEF PayDividend
<1>3. PayDividend(Core(b), a) = [Core(b) EXCEPT !.balances = x, !.ledger = l]
  BY <1>1 DEF PayDividend, Core
<1>4. PayDividend(Core(b), a)
        = [balances |-> x, positions |-> b.positions, orders |-> b.orders, ledger |-> l, recorded |-> b.recorded, splits |-> b.splits]
  BY <1>3 DEF Core
<1>5. c = [balances |-> x, positions |-> b.positions, orders |-> b.orders, ledger |-> l, recorded |-> b.recorded, splits |-> b.splits,
           fills |-> b.fills, peak |-> b.peak, automatic |-> b.automatic, broken |-> b.broken]
  BY <1>2 DEF ReplayBook
<1> QED BY <1>4, <1>5, CoreUpdate

LEMMA BreakCore ==
    ASSUME NEW b, ReplayBook(b), NEW c, c = Break(b)
    PROVE  /\ Core(c) = Core(b) /\ ReplayBook(c) /\ c.broken
           /\ c.fills = b.fills /\ c.peak = b.peak /\ c.automatic = b.automatic
           /\ c.orders = b.orders /\ c.ledger = b.ledger /\ c.recorded = b.recorded
BY DEF ReplayBook, Core, Break

-------------------------------------------------------------------------------
(* Extremes of finite sets of integers.                                    *)
LEMMA ExtremesExist ==
    ASSUME NEW S \in SUBSET Int, IsFiniteSet(S), S # {}
    PROVE  /\ Min(S) \in S /\ \A y \in S : Min(S) <= y
           /\ Max(S) \in S /\ \A y \in S : Max(S) >= y
<1>1. PICK G : G = {T \in SUBSET S : T # {} => /\ \E x \in T : \A y \in T : x <= y
                                              /\ \E x \in T : \A y \in T : x >= y}
  OBVIOUS
<1>2. {} \in G
  BY <1>1
<1>3. ASSUME NEW T \in SUBSET S, NEW z \in S, T \in G, z \notin T PROVE T \cup {z} \in G
  <2>1. CASE T = {}
    BY <1>1, <2>1
  <2>2. CASE T # {}
    <3>1. PICK x \in T : \A y \in T : x <= y
      BY <1>1, <1>3, <2>2
    <3>2. PICK w \in T : \A y \in T : w >= y
      BY <1>1, <1>3, <2>2
    <3>3. \E v \in T \cup {z} : \A y \in T \cup {z} : v <= y
      <4>1. CASE x <= z
        BY <3>1, <4>1
      <4>2. CASE z <= x
        BY <3>1, <4>2
      <4> QED BY <4>1, <4>2
    <3>4. \E v \in T \cup {z} : \A y \in T \cup {z} : v >= y
      <4>1. CASE w >= z
        BY <3>2, <4>1
      <4>2. CASE z >= w
        BY <3>2, <4>2
      <4> QED BY <4>1, <4>2
    <3> QED BY <1>1, <3>3, <3>4
  <2> QED BY <2>1, <2>2
<1>4. S \in G
  BY <1>2, <1>3, FiniteInduction
<1>5. /\ \E x \in S : \A y \in S : x <= y
      /\ \E x \in S : \A y \in S : x >= y
  BY <1>1, <1>4
<1> QED BY <1>5 DEF Min, Max

LEMMA MinOfTwo ==
    ASSUME NEW x \in Int, NEW y \in Int
    PROVE  Min({x, y}) \in {x, y} /\ Min({x, y}) <= x /\ Min({x, y}) <= y
<1>1. IsFiniteSet({x, y})
  <2>1. IsFiniteSet({x} \cup {y})
    BY FS_EmptySet, FS_AddElement, {} \cup {x} = {x}
  <2> QED BY <2>1, {x} \cup {y} = {x, y}
<1>2. {x, y} \in SUBSET Int /\ {x, y} # {}
  OBVIOUS
<1> QED BY <1>1, <1>2, ExtremesExist

(* The largest of the numbers up to n that 0 is one of.                    *)
LEMMA MaxUpTo ==
    ASSUME NEW n \in Nat, NEW S \in SUBSET (0 .. n), 0 \in S
    PROVE  Max(S) \in S /\ Max(S) \in 0 .. n /\ \A y \in S : Max(S) >= y
<1>1. IsFiniteSet(S)
  <2>1. IsFiniteSet(0 .. n)
    BY FS_Interval
  <2> QED BY <2>1, FS_Subset
<1>2. S \in SUBSET Int /\ S # {}
  OBVIOUS
<1>3. Max(S) \in S /\ \A y \in S : Max(S) >= y
  BY <1>1, <1>2, ExtremesExist
<1> QED BY <1>3

-------------------------------------------------------------------------------
(* The universe is finite, and listed once by ByID.                        *)
LEMMA Listed ==
    /\ IsFiniteSet(Instruments)
    /\ DOMAIN ByID = 1 .. Len(ByID) /\ Len(ByID) \in Nat
    /\ \A n \in 1 .. Len(ByID) : ByID[n] \in Instruments
    /\ \A i \in Instruments : \E n \in 1 .. Len(ByID) : ByID[n] = i
    /\ \A m, n \in 1 .. Len(ByID) : ByID[m] = ByID[n] => m = n
<1>1. /\ DOMAIN ByID = 1 .. Len(ByID) /\ Len(ByID) \in Nat
      /\ \A n \in 1 .. Len(ByID) : ByID[n] \in Instruments
  BY RiskAssumption
<1>2. Instruments = {ByID[n] : n \in 1 .. Len(ByID)}
  BY <1>1, RiskAssumption DEF Seqs!ToSet
<1>3. IsFiniteSet(1 .. Len(ByID))
  BY <1>1, FS_Interval
<1>4. IsFiniteSet(Instruments)
  BY <1>2, <1>3, ImageFinite
<1>5. \A m, n \in 1 .. Len(ByID) : ByID[m] = ByID[n] => m = n
  BY <1>1, RiskAssumption DEF Seqs!IsInjective
<1> QED BY <1>1, <1>2, <1>4, <1>5

(* What the holdings of a set are worth, as a sum of one term of each      *)
(* instrument.                                                             *)
Values(positions, prices) == [i \in Instruments |-> GrossValue(prices[i], positions[i].quantity)]

LEMMA WorthIs ==
    ASSUME NEW positions \in Positions, NEW prices \in [Instruments -> Nat], NEW S \in SUBSET Instruments
    PROVE  /\ Worth(positions, prices, S) = SumFunctionOnSet(Values(positions, prices), S)
           /\ Worth(positions, prices, S) \in Nat
           /\ IsFiniteSet(S)
           /\ \A i \in Instruments : /\ positions[i].quantity \in Nat
                                    /\ Values(positions, prices)[i] \in Nat
                                    /\ Values(positions, prices)[i] = GrossValue(prices[i], positions[i].quantity)
<1>1. IsFiniteSet(S)
  BY Listed, FS_Subset
<1>2. \A i \in Instruments : positions[i].quantity \in Nat
  BY DEF Positions
<1>3. \A i \in Instruments : /\ Values(positions, prices)[i] \in Nat
                             /\ Values(positions, prices)[i] = GrossValue(prices[i], positions[i].quantity)
  BY <1>2 DEF Values, GrossValue
<1>4. PICK f : f = [i \in S |-> GrossValue(prices[i], positions[i].quantity)]
  OBVIOUS
<1>5. DOMAIN f = S /\ Summable(f, S) /\ \A i \in S : Values(positions, prices)[i] = f[i]
  BY <1>3, <1>4 DEF Summable
<1>6. SumFunction(f) = SumFunctionOnSet(Values(positions, prices), S)
  BY <1>1, <1>5, SumWritten
<1>7. SumFunctionOnSet(Values(positions, prices), S) \in Nat
  BY <1>1, <1>3, SumNat
<1> QED BY <1>1, <1>2, <1>3, <1>4, <1>6, <1>7 DEF Worth

-------------------------------------------------------------------------------
(* BuildRebalance's plans.                                                 *)
Reasons == {"stop_loss", "exit_signal", "reduce_single_risk", "reduce_industry_risk",
            "reduce_stock_risk", "entry_signal"}
PlannedOrders ==
    [instrument : Instruments, side : {"buy", "sell"}, reason : Reasons, quantity : Nat \ {0}]
Plans ==
    [orders : Seq(PlannedOrders), blocked : SUBSET Instruments, positions : Positions, cash : Nat,
     prices : [Instruments -> Nat], nav : Nat, peak : Nat, signals : Signals, traded : Nat]

(* Nothing is reserved while a plan is made, and what is held has a price. *)
(* An order is a purchase just when it is an entry's, and the only one of  *)
(* its instrument and reason.                                              *)
OrdersApart(orders) ==
    /\ \A n \in DOMAIN orders : orders[n].side = "buy" <=> orders[n].reason = "entry_signal"
    /\ \A m, n \in DOMAIN orders : orders[m].instrument = orders[n].instrument
                                   /\ orders[m].reason = orders[n].reason => m = n
PlanFine(r) ==
    /\ r \in Plans /\ OrdersApart(r.orders)
    /\ \A i \in Instruments : r.positions[i].reserved = 0 /\ (Held(r, i) > 0 => r.prices[i] > 0)

(* One more order of a plan; and a step that plans one, or nothing.        *)
Goes(r, c, i, side, reason, q) ==
    /\ c \in Plans /\ q \in Nat \ {0}
    /\ c.orders = Append(r.orders, [instrument |-> i, side |-> side, reason |-> reason, quantity |-> q])
    /\ c.traded = r.traded + GrossValue(r.prices[i], q)
    /\ c.positions = [r.positions EXCEPT ![i].quantity = IF side = "buy" THEN @ + q ELSE @ - q]
    /\ c.prices = r.prices /\ c.nav = r.nav /\ c.peak = r.peak /\ c.signals = r.signals
Sells(r, c, i, reason, q) ==
    /\ Goes(r, c, i, "sell", reason, q) /\ q <= Held(r, i)
    /\ reason \notin Emergency =>
          r.traded + GrossValue(r.prices[i], q) <= MoneyLimit(r.nav, Policy.turnover)
SaleStep(r, c, i, reason) == c = r \/ \E q \in Nat \ {0} : Sells(r, c, i, reason, q)

LEMMA PlanFields ==
    ASSUME NEW r \in Plans
    PROVE  /\ r.orders \in Seq(PlannedOrders) /\ r.blocked \in SUBSET Instruments
           /\ r.positions \in Positions /\ r.cash \in Nat /\ r.prices \in [Instruments -> Nat]
           /\ r.nav \in Nat /\ r.peak \in Nat /\ r.signals \in Signals /\ r.traded \in Nat
           /\ \A i \in Instruments : /\ r.prices[i] \in Nat /\ Held(r, i) \in Nat
                                    /\ r.positions[i].cost \in Nat /\ r.positions[i].reserved \in Nat
BY DEF Plans, Positions, Held

LEMMA PolicyFields ==
    /\ \A f \in {"single", "industry", "stock", "pause", "stop", "turnover"} : Policy[f] \in 1 .. 100
    /\ Policy.single = Policy["single"] /\ Policy.industry = Policy["industry"]
    /\ Policy.stock = Policy["stock"] /\ Policy.turnover = Policy["turnover"]
    /\ Policy.pause = Policy["pause"] /\ Policy.stop = Policy["stop"]
    /\ \A nav \in Nat, w \in 1 .. 100 : MoneyLimit(nav, w) \in Nat
BY RiskAssumption DEF Levels, MoneyLimit

(* A plan has no open orders to count.                                     *)
LEMMA PlanTurnover ==
    ASSUME NEW r \in Plans, NEW prices
    PROVE  /\ TurnoverLeft(Portfolio(r), prices) \in Nat
           /\ \A g \in Nat \ {0} : g <= TurnoverLeft(Portfolio(r), prices)
                                   => r.traded + g <= MoneyLimit(r.nav, Policy.turnover)
<1>1. PICK p : p = Portfolio(r)
  OBVIOUS
<1>2. p.open = {} /\ p.nav = r.nav /\ p.traded = r.traded /\ r.traded \in Nat /\ r.nav \in Nat
  BY <1>1, PlanFields DEF Portfolio
<1> DEFINE f == [o \in {u \in p.open : p.rows[u].session = p.session} |->
                   IF p.rows[o].side = "buy" THEN (p.rows[o].cash * 10000) \div 10001
                   ELSE GrossValue(SlippedPrice(prices[p.rows[o].instrument], "sell"),
                                   p.rows[o].quantity)]
<1>3. DOMAIN f = {}
  BY <1>2
<1>4. SumFunction(f) = 0
  <2> HIDE DEF f
  <2> QED BY <1>3, SumEmpty DEF SumFunction
<1> HIDE DEF f
<1>5. MoneyLimit(r.nav, Policy.turnover) \in Nat
  BY <1>2, PolicyFields
<1>6. PICK left : left = MoneyLimit(p.nav, Policy.turnover) - p.traded - SumFunction(f)
  OBVIOUS
<1>7. TurnoverLeft(p, prices) = IF left < 0 THEN 0 ELSE left
  BY <1>6 DEF TurnoverLeft, f
<1>8. left = MoneyLimit(r.nav, Policy.turnover) - r.traded /\ left \in Int
  BY <1>2, <1>4, <1>5, <1>6
<1> QED BY <1>1, <1>2, <1>5, <1>7, <1>8

LEMMA PlanMaxSale ==
    ASSUME NEW r, PlanFine(r), NEW i \in Instruments, NEW reason,
           NEW q, q = MaxSale(Portfolio(r), i, r.prices[i], reason, 0)
    PROVE  /\ q \in 0 .. Held(r, i)
           /\ reason \in Emergency => q = Held(r, i)
           /\ reason \notin Emergency /\ q # 0 =>
                 GrossValue(r.prices[i], q) <= TurnoverLeft(Portfolio(r), r.prices)
<1>1. PICK p : p = Portfolio(r)
  OBVIOUS
<1>2. r \in Plans /\ r.positions[i].reserved = 0
  BY DEF PlanFine
<1>3. /\ p.positions = r.positions /\ p.prices = r.prices /\ Held(r, i) \in Nat
      /\ Held(r, i) = r.positions[i].quantity
      /\ [p.prices EXCEPT ![i] = r.prices[i]] = r.prices
  BY <1>1, <1>2, PlanFields DEF Portfolio, Held
<1>4. PICK n : n = p.positions[i].quantity - p.positions[i].reserved + 0
  OBVIOUS
<1>5. n = Held(r, i) /\ n \in Nat
  BY <1>2, <1>3, <1>4
<1>6. PICK S : S = {m \in 0 .. n : \/ m = 0 \/ reason \in Emergency
                                   \/ GrossValue(r.prices[i], m) <= TurnoverLeft(p, r.prices)}
  OBVIOUS
<1>7. q = Max(S)
  BY <1>1, <1>3, <1>4, <1>6 DEF MaxSale
<1>8. Max(S) \in S /\ Max(S) \in 0 .. n /\ \A y \in S : Max(S) >= y
  BY <1>5, <1>6, MaxUpTo
<1>9. reason \in Emergency => n \in S
  BY <1>5, <1>6
<1> QED BY <1>1, <1>5, <1>6, <1>7, <1>8, <1>9

LEMMA GrossFacts ==
    ASSUME NEW p \in Nat, NEW q \in Nat, NEW n \in Nat
    PROVE  /\ GrossValue(p, q) \in Nat /\ GrossValue(p, 0) = 0
           /\ p > 0 /\ q > 0 => GrossValue(p, q) \in Nat \ {0}
           /\ q <= n => GrossValue(p, q) <= GrossValue(p, n)
           /\ GrossValue(p, q + n) = GrossValue(p, q) + GrossValue(p, n)
           /\ q <= n => GrossValue(p, n - q) = GrossValue(p, n) - GrossValue(p, q)
<1>1. p * q \in Nat /\ p * n \in Nat /\ p * 0 = 0
  OBVIOUS
<1>2. p > 0 /\ q > 0 => p * q > 0
  OBVIOUS
<1>3. p * (q + n) = p * q + p * n
  OBVIOUS
<1>4. ASSUME q <= n PROVE p * (n - q) = p * n - p * q /\ p * q <= p * n
  <2>1. PICK d \in Nat : n = q + d
    BY <1>4
  <2>2. p * n = p * q + p * d /\ p * d \in Nat /\ n - q = d
    BY <2>1
  <2> QED BY <2>2
<1> QED BY <1>1, <1>2, <1>3, <1>4 DEF GrossValue

LEMMA PlanSaleIs ==
    ASSUME NEW r, PlanFine(r), NEW i \in Instruments, NEW quantity \in Int,
           NEW reason \in Reasons \ {"entry_signal"}, NEW c, c = PlanSale(r, i, quantity, reason)
    PROVE  /\ SaleStep(r, c, i, reason)
           /\ reason \in Emergency /\ quantity > 0 /\ quantity <= Held(r, i)
                 => Sells(r, c, i, reason, quantity)
<1>1. PICK m : m = MaxSale(Portfolio(r), i, r.prices[i], reason, 0)
  OBVIOUS
<1>2. PICK q : q = Min({quantity, m})
  OBVIOUS
<1>3. /\ r \in Plans /\ r.positions \in Positions /\ r.traded \in Nat /\ r.prices \in [Instruments -> Nat]
      /\ Held(r, i) \in Nat /\ (Held(r, i) > 0 => r.prices[i] > 0) /\ r.prices[i] \in Nat
  BY PlanFields DEF PlanFine
<1>4. /\ m \in 0 .. Held(r, i)
      /\ reason \in Emergency => m = Held(r, i)
      /\ reason \notin Emergency /\ m # 0 =>
            GrossValue(r.prices[i], m) <= TurnoverLeft(Portfolio(r), r.prices)
  BY <1>1, PlanMaxSale
<1>5. q \in {quantity, m} /\ q <= quantity /\ q <= m /\ q \in Int /\ m \in Int
  <2>1. m \in Int
    BY <1>3, <1>4
  <2>2. Min({quantity, m}) \in {quantity, m} /\ Min({quantity, m}) <= quantity /\ Min({quantity, m}) <= m
    BY <2>1, MinOfTwo
  <2> QED BY <1>2, <2>1, <2>2
<1>6. q <= 0 => c = r
  BY <1>1, <1>2 DEF PlanSale
<1>7. ASSUME q > 0 PROVE Sells(r, c, i, reason, q)
  <2>1. PICK order : order = [instrument |-> i, side |-> "sell", reason |-> reason, quantity |-> q]
    OBVIOUS
  <2>2. PICK positions : positions = [r.positions EXCEPT ![i].quantity = @ - q]
    OBVIOUS
  <2>3. order \in PlannedOrders /\ Append(r.orders, order) \in Seq(PlannedOrders)
    <3>1. order \in PlannedOrders
      BY <1>5, <1>7, <2>1 DEF PlannedOrders
    <3> QED BY <1>3, <3>1, PlanFields
  <2>4. q \in Nat \ {0} /\ q <= Held(r, i) /\ q <= m
    BY <1>3, <1>4, <1>5, <1>7
  <2>5. positions \in Positions
    BY <1>3, <2>2, <2>4 DEF Positions, Held
  <2>6. c = [[r EXCEPT !.orders = Append(@, order), !.traded = @ + GrossValue(r.prices[i], q),
                       !.positions = positions] EXCEPT !.blocked = @ \cup {i}]
    BY <1>1, <1>2, <1>5, <1>7, <2>1, <2>2 DEF PlanSale, Planned
  <2>7. GrossValue(r.prices[i], q) \in Nat \ {0}
    <3>1. q \in Nat /\ q > 0 /\ r.prices[i] \in Nat /\ r.prices[i] > 0
      BY <1>3, <2>4
    <3> QED BY <3>1, GrossFacts
  <2>8. /\ c.orders = Append(r.orders, order) /\ c.traded = r.traded + GrossValue(r.prices[i], q)
        /\ c.positions = positions /\ c.prices = r.prices /\ c.nav = r.nav /\ c.peak = r.peak
        /\ c.signals = r.signals /\ c.cash = r.cash /\ c.blocked = r.blocked \cup {i}
    BY <1>3, <2>6 DEF Plans
  <2>9. c \in Plans
    <3>1. c = [orders |-> Append(r.orders, order), blocked |-> r.blocked \cup {i}, positions |-> positions,
               cash |-> r.cash, prices |-> r.prices, nav |-> r.nav, peak |-> r.peak,
               signals |-> r.signals, traded |-> r.traded + GrossValue(r.prices[i], q)]
      BY <1>3, <2>6 DEF Plans
    <3>2. r.traded + GrossValue(r.prices[i], q) \in Nat /\ r.blocked \cup {i} \in SUBSET Instruments
      BY <1>3, <2>7, PlanFields
    <3> QED BY <1>3, <2>3, <2>5, <3>1, <3>2, PlanFields DEF Plans
  <2>10. Goes(r, c, i, "sell", reason, q)
    BY <2>1, <2>2, <2>4, <2>8, <2>9 DEF Goes
  <2>11. ASSUME reason \notin Emergency
         PROVE r.traded + GrossValue(r.prices[i], q) <= MoneyLimit(r.nav, Policy.turnover)
    <3>1. /\ TurnoverLeft(Portfolio(r), r.prices) \in Nat
          /\ \A g \in Nat \ {0} : g <= TurnoverLeft(Portfolio(r), r.prices)
                                   => r.traded + g <= MoneyLimit(r.nav, Policy.turnover)
      BY <1>3, PlanTurnover
    <3>2. GrossValue(r.prices[i], q) <= GrossValue(r.prices[i], m) /\ GrossValue(r.prices[i], m) \in Nat
      <4>1. q \in Nat /\ m \in Nat /\ q <= m /\ r.prices[i] \in Nat
        BY <1>3, <1>4, <2>4
      <4> QED BY <4>1, GrossFacts
    <3>3. GrossValue(r.prices[i], q) <= TurnoverLeft(Portfolio(r), r.prices)
      BY <1>4, <2>4, <2>7, <2>11, <3>1, <3>2
    <3> QED BY <2>7, <3>1, <3>3
  <2> QED BY <2>4, <2>10, <2>11 DEF Sells
<1>8. SaleStep(r, c, i, reason)
  BY <1>5, <1>6, <1>7 DEF SaleStep
<1>9. ASSUME reason \in Emergency, quantity > 0, quantity <= Held(r, i)
      PROVE  Sells(r, c, i, reason, quantity)
  <2>1. q = quantity /\ q > 0
    BY <1>3, <1>4, <1>5, <1>9
  <2> QED BY <1>7, <2>1
<1> QED BY <1>8, <1>9

(* A fee grows with the gross value.                                       *)
LEMMA CostGrows ==
    ASSUME NEW p \in Nat, NEW q \in Nat, NEW n \in Nat, q <= n
    PROVE  PurchaseCost(p, q) <= PurchaseCost(p, n) /\ PurchaseCost(p, q) \in Nat /\ PurchaseCost(p, n) \in Nat
<1>1. ASSUME NEW g \in Nat, NEW h \in Nat, g <= h PROVE TradeFee(g) <= TradeFee(h)
  BY <1>1 DEF TradeFee
<1>2. GrossValue(p, q) \in Nat /\ GrossValue(p, n) \in Nat /\ GrossValue(p, q) <= GrossValue(p, n)
  BY GrossFacts
<1>3. /\ TradeFee(GrossValue(p, q)) \in Nat /\ TradeFee(GrossValue(p, n)) \in Nat
      /\ TradeFee(GrossValue(p, q)) <= TradeFee(GrossValue(p, n))
  BY <1>1, <1>2, MoneyTypes
<1> QED BY <1>2, <1>3 DEF PurchaseCost

LEMMA LevelsFinite ==
    ASSUME NEW f
    PROVE  IsFiniteSet({f[l] : l \in Levels})
<1>1. IsFiniteSet(Levels)
  <2>1. IsFiniteSet({"single"})
    BY FS_EmptySet, FS_AddElement, {} \cup {"single"} = {"single"}
  <2>2. IsFiniteSet({"single"} \cup {"industry"})
    BY <2>1, FS_AddElement
  <2>3. IsFiniteSet(({"single"} \cup {"industry"}) \cup {"stock"})
    BY <2>2, FS_AddElement
  <2>4. Levels = ({"single"} \cup {"industry"}) \cup {"stock"}
    BY DEF Levels
  <2> QED BY <2>3, <2>4
<1> QED BY <1>1, ImageFinite

LEMMA GroupIs ==
    ASSUME NEW i \in Instruments
    PROVE  /\ \A l \in Levels : Group(l, i) \in SUBSET Instruments /\ i \in Group(l, i)
           /\ \A l \in Levels, j \in Instruments : i \in Group(l, j) => Group(l, j) = Group(l, i)
BY DEF Levels, Group

(* Room leaves no more than the turnover and each level leave.             *)
LEMMA RoomIs ==
    ASSUME NEW p, NEW i, NEW prices, TurnoverLeft(p, prices) \in Int,
           \A l \in Levels : MoneyLimit(p.nav, Policy[l]) - Exposure(p, prices, Group(l, i)) \in Int
    PROVE  /\ Room(p, i, prices) \in Int /\ Room(p, i, prices) <= TurnoverLeft(p, prices)
           /\ \A l \in Levels :
                 Room(p, i, prices) <= MoneyLimit(p.nav, Policy[l]) - Exposure(p, prices, Group(l, i))
<1>1. PICK f : f = [l \in Levels |-> MoneyLimit(p.nav, Policy[l]) - Exposure(p, prices, Group(l, i))]
  OBVIOUS
<1>2. PICK S : S = {f[l] : l \in Levels} \cup {TurnoverLeft(p, prices)}
  OBVIOUS
<1>3. IsFiniteSet(S)
  <2>1. IsFiniteSet({f[l] : l \in Levels})
    BY LevelsFinite
  <2>2. IsFiniteSet({f[l] : l \in Levels} \cup {TurnoverLeft(p, prices)})
    BY <2>1, FS_AddElement
  <2> QED BY <1>2, <2>2
<1>4. S \in SUBSET Int /\ S # {}
  BY <1>1, <1>2
<1>5. Min(S) \in S /\ \A y \in S : Min(S) <= y
  BY <1>3, <1>4, ExtremesExist
<1>6. Room(p, i, prices) = Min(S)
  <2>1. S = {TurnoverLeft(p, prices)} \cup
            {MoneyLimit(p.nav, Policy[l]) - Exposure(p, prices, Group(l, i)) : l \in Levels}
    BY <1>1, <1>2
  <2> QED BY <2>1 DEF Room
<1>7. TurnoverLeft(p, prices) \in S /\ \A l \in Levels : f[l] \in S
  BY <1>2
<1> QED BY <1>1, <1>4, <1>5, <1>6, <1>7

Buys(r, c, i, q) ==
    /\ Goes(r, c, i, "buy", "entry_signal", q) /\ r.prices[i] > 0
    /\ r.traded + GrossValue(r.prices[i], q) <= MoneyLimit(r.nav, Policy.turnover)
    /\ \A l \in Levels : Worth(r.positions, r.prices, Group(l, i)) + GrossValue(r.prices[i], q)
                         <= MoneyLimit(r.nav, Policy[l])

LEMMA PlanMaxPurchase ==
    ASSUME NEW r, PlanFine(r), NEW i \in Instruments, r.prices[i] > 0,
           NEW m, m = MaxPurchase(Portfolio(r), i, r.prices[i], r.cash)
    PROVE  /\ m \in Nat /\ (m # 0 => PurchaseCost(r.prices[i], m) <= r.cash)
           /\ m # 0 => GrossValue(r.prices[i], m) <= TurnoverLeft(Portfolio(r), r.prices)
           /\ m # 0 => \A l \in Levels :
                 Worth(r.positions, r.prices, Group(l, i)) + GrossValue(r.prices[i], m)
                         <= MoneyLimit(r.nav, Policy[l])
<1>1. PICK p : p = Portfolio(r)
  OBVIOUS
<1>2. /\ r \in Plans /\ r.cash \in Nat /\ r.prices[i] \in Nat /\ r.nav \in Nat
      /\ r.prices \in [Instruments -> Nat] /\ r.positions \in Positions
  BY PlanFields DEF PlanFine
<1>3. /\ p.positions = r.positions /\ p.prices = r.prices /\ p.open = {} /\ p.nav = r.nav
      /\ [p.prices EXCEPT ![i] = r.prices[i]] = r.prices
  BY <1>1, <1>2 DEF Portfolio
<1>4. ASSUME NEW S \in SUBSET Instruments
      PROVE  Exposure(p, r.prices, S) = Worth(r.positions, r.prices, S) /\ Exposure(p, r.prices, S) \in Nat
  <2>1. PICK f : f = [o \in {u \in p.open : p.rows[u].instrument \in S} |-> p.rows[o].cash]
    OBVIOUS
  <2>2. SumFunction(f) = 0
    <3>1. DOMAIN f = {}
      BY <1>3, <2>1
    <3> QED BY <3>1, SumEmpty DEF SumFunction
  <2>3. Worth(r.positions, r.prices, S) \in Nat
    BY <1>2, WorthIs
  <2>4. Exposure(p, r.prices, S) = Worth(r.positions, r.prices, S) + SumFunction(f)
    BY <1>3, <2>1 DEF Exposure
  <2> QED BY <2>2, <2>3, <2>4
<1>5. TurnoverLeft(p, r.prices) \in Nat
  BY <1>1, <1>2, PlanTurnover
<1>6. \A l \in Levels : MoneyLimit(r.nav, Policy[l]) \in Nat /\ Group(l, i) \in SUBSET Instruments
  BY <1>2, PolicyFields, GroupIs DEF Levels
<1>7. PICK room : room = Room(p, i, r.prices)
  OBVIOUS
<1>8. /\ room \in Int /\ room <= TurnoverLeft(p, r.prices)
      /\ \A l \in Levels : room <= MoneyLimit(r.nav, Policy[l]) - Exposure(p, r.prices, Group(l, i))
  <2>1. \A l \in Levels : MoneyLimit(p.nav, Policy[l]) - Exposure(p, r.prices, Group(l, i)) \in Int
    BY <1>3, <1>4, <1>6
  <2> QED BY <1>3, <1>5, <1>7, <2>1, RoomIs
<1>9. PICK n : n = r.cash \div r.prices[i]
  OBVIOUS
<1>10. n \in Nat
  BY <1>2, <1>9
<1>11. PICK S : S = {q \in 0 .. n : q = 0 \/ (GrossValue(r.prices[i], q) <= room
                                              /\ PurchaseCost(r.prices[i], q) <= r.cash)}
  OBVIOUS
<1>12. Max(S) \in S /\ Max(S) \in 0 .. n
  BY <1>10, <1>11, MaxUpTo
<1>13. m = 0 \/ m = Max(S)
  BY <1>1, <1>3, <1>7, <1>9, <1>11 DEF MaxPurchase
<1>14. m \in Nat /\ (m # 0 => /\ GrossValue(r.prices[i], m) <= room
                              /\ PurchaseCost(r.prices[i], m) <= r.cash)
  BY <1>11, <1>12, <1>13
<1>15. GrossValue(r.prices[i], m) \in Nat
  BY <1>2, <1>14, GrossFacts
<1>16. \A l \in Levels : /\ Exposure(p, r.prices, Group(l, i)) = Worth(r.positions, r.prices, Group(l, i))
                         /\ Exposure(p, r.prices, Group(l, i)) \in Nat
  BY <1>4, <1>6
<1> QED BY <1>1, <1>5, <1>6, <1>8, <1>14, <1>15, <1>16

LEMMA PlanPurchaseIs ==
    ASSUME NEW r, PlanFine(r), NEW n \in DOMAIN r.signals, NEW i \in Instruments,
           i = r.signals[n].instrument, NEW c, c = PlanPurchase(r, n)
    PROVE  c = r \/ \E q \in Nat \ {0} : Buys(r, c, i, q)
<1>1. /\ r \in Plans /\ r.cash \in Nat /\ r.prices[i] \in Nat /\ r.nav \in Nat /\ r.traded \in Nat
      /\ r.prices \in [Instruments -> Nat] /\ r.positions \in Positions /\ Held(r, i) \in Nat
  BY PlanFields DEF PlanFine
<1>2. CASE PassedOver(r, n)
  BY <1>2 DEF PlanPurchase
<1>3. CASE ~PassedOver(r, n)
  <2>1. r.prices[i] > 0
    BY <1>1, <1>3 DEF PassedOver
  <2>2. PICK m : m = MaxPurchase(Portfolio(r), i, r.prices[i], r.cash)
    OBVIOUS
  <2>3. /\ m \in Nat /\ (m # 0 => PurchaseCost(r.prices[i], m) <= r.cash)
        /\ m # 0 => GrossValue(r.prices[i], m) <= TurnoverLeft(Portfolio(r), r.prices)
        /\ m # 0 => \A l \in Levels :
                 Worth(r.positions, r.prices, Group(l, i)) + GrossValue(r.prices[i], m)
                         <= MoneyLimit(r.nav, Policy[l])
    BY <2>1, <2>2, PlanMaxPurchase
  <2>4. PICK q : q = Min({Desired(r, i), m})
    OBVIOUS
  <2>5. Desired(r, i) \in Int
    <3>1. MoneyLimit(r.nav, Policy.single) \in Nat
      BY <1>1, PolicyFields
    <3> QED BY <1>1, <2>1, <3>1 DEF Desired
  <2>6. q \in Int /\ q <= m
    <3>1. Min({Desired(r, i), m}) \in {Desired(r, i), m} /\ Min({Desired(r, i), m}) <= m
      <4>1. m \in Int
        BY <2>3
      <4> QED BY <2>5, <4>1, MinOfTwo
    <3> QED BY <2>3, <2>4, <2>5, <3>1
  <2>7. CASE q <= 0
    BY <2>2, <2>4, <2>7 DEF PlanPurchase
  <2>8. CASE q > 0
    <3>1. q \in Nat /\ q # 0 /\ m # 0 /\ m \in Nat
      BY <2>3, <2>6, <2>8
    <3>2. PICK cost : cost = PurchaseCost(r.prices[i], q)
      OBVIOUS
    <3>3. cost \in Nat /\ cost <= r.cash
      <4>1. PurchaseCost(r.prices[i], q) <= PurchaseCost(r.prices[i], m)
            /\ PurchaseCost(r.prices[i], q) \in Nat /\ PurchaseCost(r.prices[i], m) \in Nat
        BY <1>1, <2>6, <3>1, CostGrows
      <4> QED BY <1>1, <2>3, <3>1, <3>2, <4>1
    <3>4. /\ GrossValue(r.prices[i], q) \in Nat \ {0} /\ GrossValue(r.prices[i], m) \in Nat
          /\ GrossValue(r.prices[i], q) <= GrossValue(r.prices[i], m)
      <4>1. q \in Nat /\ m \in Nat /\ q <= m /\ q > 0 /\ r.prices[i] \in Nat /\ r.prices[i] > 0
        BY <1>1, <2>1, <2>6, <3>1
      <4>2. GrossValue(r.prices[i], q) \in Nat \ {0} /\ GrossValue(r.prices[i], q) <= GrossValue(r.prices[i], m)
        BY <4>1, GrossFacts
      <4>3. GrossValue(r.prices[i], m) \in Nat
        BY <4>1, GrossFacts
      <4> QED BY <4>2, <4>3
    <3>5. PICK order : order = [instrument |-> i, side |-> "buy", reason |-> "entry_signal", quantity |-> q]
      OBVIOUS
    <3>6. PICK positions : positions = [r.positions EXCEPT ![i].quantity = @ + q]
      OBVIOUS
    <3>7. order \in PlannedOrders /\ Append(r.orders, order) \in Seq(PlannedOrders)
      <4>1. order \in PlannedOrders
        BY <3>1, <3>5 DEF PlannedOrders, Reasons
      <4> QED BY <1>1, <4>1, PlanFields
    <3>8. positions \in Positions
      BY <1>1, <3>1, <3>6 DEF Positions
    <3>9. c = [[r EXCEPT !.orders = Append(@, order), !.traded = @ + GrossValue(r.prices[i], q),
                         !.positions = positions] EXCEPT !.cash = @ - cost]
      <4>1. PICK e : e = Planned(r, i, "buy", "entry_signal", q)
        OBVIOUS
      <4>2. e = [r EXCEPT !.orders = Append(@, order), !.traded = @ + GrossValue(r.prices[i], q),
                          !.positions = positions]
        BY <3>5, <3>6, <4>1 DEF Planned
      <4>3. ~(PassedOver(r, n) \/ q <= 0)
        BY <1>3, <2>6, <2>8
      <4>4. c = [Planned(r, i, "buy", "entry_signal", q) EXCEPT !.cash = @ - PurchaseCost(r.prices[i], q)]
        BY <2>2, <2>4, <4>3, Zenon DEF PlanPurchase
      <4>5. c = [e EXCEPT !.cash = @ - cost]
        BY <3>2, <4>1, <4>4, Zenon
      <4> QED BY <4>2, <4>5, Zenon
    <3>10. /\ c.orders = Append(r.orders, order) /\ c.traded = r.traded + GrossValue(r.prices[i], q)
           /\ c.positions = positions /\ c.prices = r.prices /\ c.nav = r.nav /\ c.peak = r.peak
           /\ c.signals = r.signals
      BY <1>1, <3>9 DEF Plans
    <3>11. c \in Plans
      <4>1. c = [orders |-> Append(r.orders, order), blocked |-> r.blocked, positions |-> positions,
                 cash |-> r.cash - cost, prices |-> r.prices, nav |-> r.nav, peak |-> r.peak,
                 signals |-> r.signals, traded |-> r.traded + GrossValue(r.prices[i], q)]
        BY <1>1, <3>9 DEF Plans
      <4>2. r.traded + GrossValue(r.prices[i], q) \in Nat /\ r.cash - cost \in Nat
        BY <1>1, <3>3, <3>4
      <4> QED BY <1>1, <3>7, <3>8, <4>1, <4>2, PlanFields DEF Plans
    <3>12. Goes(r, c, i, "buy", "entry_signal", q)
      BY <3>1, <3>5, <3>6, <3>10, <3>11 DEF Goes
    <3>13. r.traded + GrossValue(r.prices[i], q) <= MoneyLimit(r.nav, Policy.turnover)
      <4>1. /\ TurnoverLeft(Portfolio(r), r.prices) \in Nat
            /\ \A g \in Nat \ {0} : g <= TurnoverLeft(Portfolio(r), r.prices)
                                     => r.traded + g <= MoneyLimit(r.nav, Policy.turnover)
        BY <1>1, PlanTurnover
      <4>2. GrossValue(r.prices[i], q) <= TurnoverLeft(Portfolio(r), r.prices)
        BY <2>3, <3>1, <3>4, <4>1
      <4> QED BY <3>4, <4>1, <4>2
    <3>14. \A l \in Levels : Worth(r.positions, r.prices, Group(l, i)) + GrossValue(r.prices[i], q)
                         <= MoneyLimit(r.nav, Policy[l])
      <4>1. \A l \in Levels : Worth(r.positions, r.prices, Group(l, i)) \in Nat
                              /\ MoneyLimit(r.nav, Policy[l]) \in Nat
        BY <1>1, WorthIs, GroupIs, PolicyFields DEF Levels
      <4> QED BY <2>3, <3>1, <3>4, <4>1
    <3>15. Buys(r, c, i, q)
      BY <2>1, <3>12, <3>13, <3>14 DEF Buys
    <3> QED BY <3>1, <3>15
  <2> QED BY <2>6, <2>7, <2>8
<1> QED BY <1>2, <1>3

-------------------------------------------------------------------------------
(* What the orders of a plan come to: their gross value, that of those     *)
(* that are no emergency, and the change of each holding.                  *)
GrossOf(prices, orders) ==
    [n \in DOMAIN orders |-> GrossValue(prices[orders[n].instrument], orders[n].quantity)]
OrdinaryOf(prices, orders) ==
    [n \in DOMAIN orders |-> IF orders[n].reason \notin Emergency THEN GrossOf(prices, orders)[n] ELSE 0]
ChangeOf(orders, i) ==
    [n \in DOMAIN orders |-> IF orders[n].instrument = i THEN Signed(orders[n]) ELSE 0]
SumOver(f) == SumFunctionOnSet(f, DOMAIN f)

(* A plan made of the positions held: its traded value and positions       *)
(* follow from its orders, and it keeps to the turnover.                   *)
PlanInv(r, held) ==
    /\ PlanFine(r) /\ held \in Positions
    /\ r.traded = SumOver(GrossOf(r.prices, r.orders))
    /\ \A i \in Instruments : Held(r, i) = held[i].quantity + SumOver(ChangeOf(r.orders, i))
    /\ SumOver(OrdinaryOf(r.prices, r.orders)) <= MoneyLimit(r.nav, Policy.turnover)
    /\ (\E n \in DOMAIN r.orders : r.orders[n].side = "buy") => r.traded <= MoneyLimit(r.nav, Policy.turnover)

Unplanned(r, i, reason) ==
    \A n \in DOMAIN r.orders : ~(r.orders[n].instrument = i /\ r.orders[n].reason = reason)

(* One more element of a sequence.                                         *)
LEMMA SumAppend ==
    ASSUME NEW L \in Nat, NEW f, DOMAIN f = 1 .. L, \A n \in 1 .. L : f[n] \in Int,
           NEW g, DOMAIN g = 1 .. L + 1, \A n \in 1 .. L : g[n] = f[n], g[L + 1] \in Int
    PROVE  SumOver(g) = SumOver(f) + g[L + 1]
<1>1. 1 .. L + 1 = (1 .. L) \cup {L + 1} /\ L + 1 \notin 1 .. L
  OBVIOUS
<1>2. IsFiniteSet(1 .. L)
  BY FS_Interval
<1>3. Summable(g, 1 .. L)
  BY DEF Summable
<1>4. SumFunctionOnSet(g, (1 .. L) \cup {L + 1}) = SumFunctionOnSet(g, 1 .. L) + g[L + 1]
  <2>1. PICK S, x : S = 1 .. L /\ x = L + 1
    OBVIOUS
  <2>2. IsFiniteSet(S) /\ Summable(g, S) /\ x \notin S /\ g[x] \in Int
    BY <1>1, <1>2, <1>3, <2>1
  <2>3. SumFunctionOnSet(g, S \cup {x}) = SumFunctionOnSet(g, S) + g[x]
    BY <2>2, SumAdd
  <2> QED BY <2>1, <2>3
<1>5. SumFunctionOnSet(g, 1 .. L) = SumFunctionOnSet(f, 1 .. L)
  BY <1>2, SumSame
<1> QED BY <1>1, <1>4, <1>5 DEF SumOver

LEMMA OrderTermsOfPlan ==
    ASSUME NEW orders \in Seq(PlannedOrders), NEW prices \in [Instruments -> Nat], NEW n \in DOMAIN orders
    PROVE  /\ orders[n] \in PlannedOrders
           /\ GrossOf(prices, orders)[n] = GrossValue(prices[orders[n].instrument], orders[n].quantity)
           /\ GrossOf(prices, orders)[n] \in Nat
           /\ OrdinaryOf(prices, orders)[n] \in Nat
           /\ OrdinaryOf(prices, orders)[n] =
                 IF orders[n].reason \notin Emergency THEN GrossOf(prices, orders)[n] ELSE 0
           /\ \A i \in Instruments : /\ ChangeOf(orders, i)[n] \in Int
                                    /\ ChangeOf(orders, i)[n] =
                                         IF orders[n].instrument = i THEN Signed(orders[n]) ELSE 0
<1>1. orders[n] \in PlannedOrders
  OBVIOUS
<1>2. orders[n].instrument \in Instruments /\ orders[n].quantity \in Nat \ {0}
  BY <1>1 DEF PlannedOrders
<1>3. GrossValue(prices[orders[n].instrument], orders[n].quantity) \in Nat
  BY <1>2 DEF GrossValue
<1> QED BY <1>1, <1>2, <1>3 DEF GrossOf, OrdinaryOf, ChangeOf, Signed

LEMMA OrdinaryIsPart ==
    ASSUME NEW orders \in Seq(PlannedOrders), NEW prices \in [Instruments -> Nat]
    PROVE  /\ SumOver(OrdinaryOf(prices, orders)) <= SumOver(GrossOf(prices, orders))
           /\ SumOver(OrdinaryOf(prices, orders)) \in Int /\ SumOver(GrossOf(prices, orders)) \in Int
<1>1. PICK D : D = DOMAIN orders
  OBVIOUS
<1>2. D = 1 .. Len(orders) /\ Len(orders) \in Nat
  BY <1>1
<1>3. IsFiniteSet(D)
  <2>1. IsFiniteSet(1 .. Len(orders))
    BY <1>2, FS_Interval
  <2> QED BY <1>2, <2>1
<1>4. \A n \in D : /\ GrossOf(prices, orders)[n] \in Int /\ OrdinaryOf(prices, orders)[n] \in Int
                   /\ OrdinaryOf(prices, orders)[n] <= GrossOf(prices, orders)[n]
  <2>1. ASSUME NEW n \in D
        PROVE  /\ GrossOf(prices, orders)[n] \in Nat /\ OrdinaryOf(prices, orders)[n] \in Nat
               /\ OrdinaryOf(prices, orders)[n] =
                 IF orders[n].reason \notin Emergency THEN GrossOf(prices, orders)[n] ELSE 0
    BY <1>1, OrderTermsOfPlan
  <2> QED BY <2>1
<1>5. Summable(GrossOf(prices, orders), D) /\ Summable(OrdinaryOf(prices, orders), D)
  BY <1>4 DEF Summable
<1>6. /\ SumFunctionOnSet(OrdinaryOf(prices, orders), D) <= SumFunctionOnSet(GrossOf(prices, orders), D)
      /\ SumFunctionOnSet(OrdinaryOf(prices, orders), D) \in Int
      /\ SumFunctionOnSet(GrossOf(prices, orders), D) \in Int
  BY <1>3, <1>4, <1>5, SumMonotone, SumType
<1>7. DOMAIN GrossOf(prices, orders) = D /\ DOMAIN OrdinaryOf(prices, orders) = D
  BY <1>1 DEF GrossOf, OrdinaryOf
<1> QED BY <1>6, <1>7 DEF SumOver

(* One more order adds its own terms.                                      *)
Grown(prices, orders, order, new) ==
    /\ SumOver(GrossOf(prices, new))
         = SumOver(GrossOf(prices, orders)) + GrossValue(prices[order.instrument], order.quantity)
    /\ SumOver(OrdinaryOf(prices, new)) = SumOver(OrdinaryOf(prices, orders))
          + (IF order.reason \notin Emergency THEN GrossValue(prices[order.instrument], order.quantity)
             ELSE 0)
    /\ \A i \in Instruments : SumOver(ChangeOf(new, i)) = SumOver(ChangeOf(orders, i))
          + (IF order.instrument = i THEN Signed(order) ELSE 0)

LEMMA PlanGrows ==
    ASSUME NEW orders \in Seq(PlannedOrders), NEW prices \in [Instruments -> Nat],
           NEW order \in PlannedOrders, NEW new, new = Append(orders, order)
    PROVE  Grown(prices, orders, order, new)
<1>1. PICK L : L = Len(orders)
  OBVIOUS
<1>2. /\ L \in Nat /\ DOMAIN orders = 1 .. L /\ DOMAIN new = 1 .. L + 1 /\ new \in Seq(PlannedOrders)
      /\ new[L + 1] = order /\ \A n \in 1 .. L : new[n] = orders[n]
  BY <1>1
<1>3. /\ DOMAIN GrossOf(prices, orders) = 1 .. L /\ DOMAIN GrossOf(prices, new) = 1 .. L + 1
      /\ DOMAIN OrdinaryOf(prices, orders) = 1 .. L /\ DOMAIN OrdinaryOf(prices, new) = 1 .. L + 1
      /\ \A i : DOMAIN ChangeOf(orders, i) = 1 .. L /\ DOMAIN ChangeOf(new, i) = 1 .. L + 1
  BY <1>2 DEF GrossOf, OrdinaryOf, ChangeOf
<1>4. ASSUME NEW n \in 1 .. L
      PROVE  /\ GrossOf(prices, orders)[n] \in Int /\ GrossOf(prices, new)[n] = GrossOf(prices, orders)[n]
             /\ OrdinaryOf(prices, orders)[n] \in Int
             /\ OrdinaryOf(prices, new)[n] = OrdinaryOf(prices, orders)[n]
             /\ \A i \in Instruments : /\ ChangeOf(orders, i)[n] \in Int
                                       /\ ChangeOf(new, i)[n] = ChangeOf(orders, i)[n]
  <2>1. n \in DOMAIN orders /\ n \in DOMAIN new /\ new[n] = orders[n]
    BY <1>2
  <2>2. /\ GrossOf(prices, orders)[n] \in Nat /\ OrdinaryOf(prices, orders)[n] \in Nat
        /\ \A i \in Instruments : ChangeOf(orders, i)[n] \in Int
    BY <2>1, OrderTermsOfPlan
  <2> QED BY <2>1, <2>2 DEF GrossOf, OrdinaryOf, ChangeOf
<1>5. /\ GrossOf(prices, new)[L + 1] = GrossValue(prices[order.instrument], order.quantity)
      /\ GrossOf(prices, new)[L + 1] \in Nat /\ OrdinaryOf(prices, new)[L + 1] \in Nat
      /\ OrdinaryOf(prices, new)[L + 1] = IF order.reason \notin Emergency THEN GrossOf(prices, new)[L + 1] ELSE 0
      /\ \A i \in Instruments : /\ ChangeOf(new, i)[L + 1] \in Int
                                /\ ChangeOf(new, i)[L + 1] = IF order.instrument = i THEN Signed(order) ELSE 0
  <2>1. L + 1 \in DOMAIN new /\ new[L + 1] = order
    BY <1>2
  <2>2. PICK m : m = L + 1
    OBVIOUS
  <2>3. m \in DOMAIN new /\ new[m] = order /\ new \in Seq(PlannedOrders)
    BY <1>2, <2>1, <2>2
  <2>4. /\ GrossOf(prices, new)[m] = GrossValue(prices[order.instrument], order.quantity)
        /\ GrossOf(prices, new)[m] \in Nat /\ OrdinaryOf(prices, new)[m] \in Nat
        /\ OrdinaryOf(prices, new)[m] = IF order.reason \notin Emergency THEN GrossOf(prices, new)[m] ELSE 0
        /\ \A i \in Instruments : /\ ChangeOf(new, i)[m] \in Int
                                  /\ ChangeOf(new, i)[m] = IF order.instrument = i THEN Signed(order) ELSE 0
    <3>1. /\ GrossOf(prices, new)[m] = GrossValue(prices[new[m].instrument], new[m].quantity)
          /\ GrossOf(prices, new)[m] \in Nat /\ OrdinaryOf(prices, new)[m] \in Nat
          /\ OrdinaryOf(prices, new)[m] = IF new[m].reason \notin Emergency THEN GrossOf(prices, new)[m] ELSE 0
      BY <2>3, OrderTermsOfPlan
    <3>2. \A i \in Instruments : /\ ChangeOf(new, i)[m] \in Int
                                 /\ ChangeOf(new, i)[m] = IF new[m].instrument = i THEN Signed(new[m]) ELSE 0
      BY <2>3 DEF ChangeOf, Signed, PlannedOrders
    <3> QED BY <2>3, <3>1, <3>2
  <2> QED BY <2>2, <2>4
<1>6. SumOver(GrossOf(prices, new)) = SumOver(GrossOf(prices, orders)) + GrossOf(prices, new)[L + 1]
  <2>1. PICK f, g : f = GrossOf(prices, orders) /\ g = GrossOf(prices, new)
    OBVIOUS
  <2>2. /\ DOMAIN f = 1 .. L /\ DOMAIN g = 1 .. L + 1 /\ g[L + 1] \in Int
        /\ \A n \in 1 .. L : f[n] \in Int /\ g[n] = f[n]
    BY <1>3, <1>4, <1>5, <2>1
  <2> QED BY <1>2, <2>1, <2>2, SumAppend
<1>7. SumOver(OrdinaryOf(prices, new)) = SumOver(OrdinaryOf(prices, orders)) + OrdinaryOf(prices, new)[L + 1]
  <2>1. PICK f, g : f = OrdinaryOf(prices, orders) /\ g = OrdinaryOf(prices, new)
    OBVIOUS
  <2>2. /\ DOMAIN f = 1 .. L /\ DOMAIN g = 1 .. L + 1 /\ g[L + 1] \in Int
        /\ \A n \in 1 .. L : f[n] \in Int /\ g[n] = f[n]
    BY <1>3, <1>4, <1>5, <2>1
  <2> QED BY <1>2, <2>1, <2>2, SumAppend
<1>8. ASSUME NEW i \in Instruments
      PROVE SumOver(ChangeOf(new, i)) = SumOver(ChangeOf(orders, i)) + ChangeOf(new, i)[L + 1]
  <2>1. PICK f, g : f = ChangeOf(orders, i) /\ g = ChangeOf(new, i)
    OBVIOUS
  <2>2. /\ DOMAIN f = 1 .. L /\ DOMAIN g = 1 .. L + 1 /\ g[L + 1] \in Int
        /\ \A n \in 1 .. L : f[n] \in Int /\ g[n] = f[n]
    BY <1>3, <1>4, <1>5, <2>1
  <2> QED BY <1>2, <2>1, <2>2, SumAppend
<1> QED BY <1>2, <1>5, <1>6, <1>7, <1>8 DEF Grown

(* An order that keeps to the turnover unless it is an emergency.          *)
LEMMA GoesKeeps ==
    ASSUME NEW r, NEW held, PlanInv(r, held), NEW c, NEW i \in Instruments, NEW reason \in Reasons,
           NEW side \in {"buy", "sell"}, side = "buy" <=> reason = "entry_signal",
           NEW q, Goes(r, c, i, side, reason, q), Unplanned(r, i, reason),
           side = "sell" => q <= Held(r, i),
           side = "buy" => r.prices[i] > 0,
           reason \in Emergency => \A n \in DOMAIN r.orders : r.orders[n].side # "buy",
           reason \notin Emergency => c.traded <= MoneyLimit(r.nav, Policy.turnover)
    PROVE  /\ PlanInv(c, held)
           /\ \A j \in Instruments, e \in Reasons :
                 Unplanned(r, j, e) /\ ~(j = i /\ e = reason) => Unplanned(c, j, e)
<1>1. /\ PlanFine(r) /\ r \in Plans /\ OrdersApart(r.orders)
      /\ held \in Positions
      /\ r.traded = SumOver(GrossOf(r.prices, r.orders))
      /\ \A j \in Instruments : Held(r, j) = held[j].quantity + SumOver(ChangeOf(r.orders, j))
      /\ SumOver(OrdinaryOf(r.prices, r.orders)) <= MoneyLimit(r.nav, Policy.turnover)
      /\ (\E n \in DOMAIN r.orders : r.orders[n].side = "buy")
            => r.traded <= MoneyLimit(r.nav, Policy.turnover)
  BY DEF PlanInv, PlanFine
<1>2. PICK order : order = [instrument |-> i, side |-> side, reason |-> reason, quantity |-> q]
  OBVIOUS
<1>3. /\ c \in Plans /\ q \in Nat \ {0} /\ c.orders = Append(r.orders, order)
      /\ c.traded = r.traded + GrossValue(r.prices[i], q)
      /\ c.positions = [r.positions EXCEPT ![i].quantity = IF side = "buy" THEN @ + q ELSE @ - q]
      /\ c.prices = r.prices /\ c.nav = r.nav /\ c.peak = r.peak /\ c.signals = r.signals
  BY <1>2 DEF Goes
<1>4. /\ r.orders \in Seq(PlannedOrders) /\ r.prices \in [Instruments -> Nat] /\ r.positions \in Positions
      /\ r.prices[i] \in Nat /\ r.traded \in Nat /\ r.nav \in Nat
      /\ \A j \in Instruments : Held(r, j) \in Nat
  BY <1>1, PlanFields
<1>5. order \in PlannedOrders
  BY <1>2, <1>3 DEF PlannedOrders
<1>6. PICK L : L = Len(r.orders)
  OBVIOUS
<1>7. /\ L \in Nat /\ DOMAIN r.orders = 1 .. L /\ DOMAIN c.orders = 1 .. L + 1
      /\ c.orders[L + 1] = order /\ \A n \in 1 .. L : c.orders[n] = r.orders[n]
  BY <1>3, <1>4, <1>6
<1>8. GrossValue(r.prices[i], q) \in Nat
  BY <1>3, <1>4, GrossFacts
<1>9. /\ SumOver(GrossOf(r.prices, c.orders)) = SumOver(GrossOf(r.prices, r.orders)) + GrossValue(r.prices[i], q)
      /\ SumOver(OrdinaryOf(r.prices, c.orders)) = SumOver(OrdinaryOf(r.prices, r.orders))
            + (IF reason \notin Emergency THEN GrossValue(r.prices[i], q) ELSE 0)
      /\ \A j \in Instruments : SumOver(ChangeOf(c.orders, j)) = SumOver(ChangeOf(r.orders, j))
            + (IF i = j THEN Signed(order) ELSE 0)
  <2>1. order.instrument = i /\ order.quantity = q /\ order.reason = reason
    BY <1>2
  <2>2. /\ SumOver(GrossOf(r.prices, c.orders))
              = SumOver(GrossOf(r.prices, r.orders)) + GrossValue(r.prices[order.instrument], order.quantity)
        /\ SumOver(OrdinaryOf(r.prices, c.orders)) = SumOver(OrdinaryOf(r.prices, r.orders))
              + (IF order.reason \notin Emergency
                 THEN GrossValue(r.prices[order.instrument], order.quantity) ELSE 0)
        /\ \A j \in Instruments : SumOver(ChangeOf(c.orders, j)) = SumOver(ChangeOf(r.orders, j))
              + (IF order.instrument = j THEN Signed(order) ELSE 0)
    <3>1. Grown(r.prices, r.orders, order, c.orders)
      BY <1>3, <1>4, <1>5, PlanGrows
    <3> QED BY <3>1 DEF Grown
  <2> QED BY <2>1, <2>2
<1>10. Signed(order) = (IF side = "buy" THEN q ELSE -q) /\ Signed(order) \in Int
  BY <1>2, <1>3 DEF Signed
<1>11. ASSUME NEW j \in Instruments
       PROVE  /\ Held(c, j) = Held(r, j) + (IF i = j THEN Signed(order) ELSE 0)
              /\ c.positions[j].reserved = r.positions[j].reserved
  <2>1. PICK n : n = IF side = "buy" THEN r.positions[i].quantity + q ELSE r.positions[i].quantity - q
    OBVIOUS
  <2>2. r.positions \in Positions /\ c.positions = [r.positions EXCEPT ![i].quantity = n]
    BY <1>3, <1>4, <2>1
  <2>3. c.positions[j].reserved = r.positions[j].reserved
    BY <2>2 DEF Positions
  <2>4. CASE i = j
    <3>1. Held(c, j) = n /\ Held(r, j) = r.positions[i].quantity /\ Held(r, j) \in Nat
      BY <1>4, <2>2, <2>4 DEF Held, Positions
    <3>2. n = Held(r, j) + Signed(order)
      BY <1>3, <1>10, <2>1, <3>1
    <3> QED BY <2>3, <2>4, <3>1, <3>2
  <2>5. CASE i # j
    <3>1. Held(c, j) = Held(r, j) /\ Held(r, j) \in Nat
      BY <1>4, <2>2, <2>5 DEF Held, Positions
    <3> QED BY <2>3, <2>5, <3>1
  <2> QED BY <2>4, <2>5
<1>12. c.traded = SumOver(GrossOf(c.prices, c.orders))
  BY <1>1, <1>3, <1>9
<1>13. ASSUME NEW j \in Instruments PROVE Held(c, j) = held[j].quantity + SumOver(ChangeOf(c.orders, j))
  <2>1. SumOver(ChangeOf(r.orders, j)) \in Int
    <3>1. IsFiniteSet(1 .. L)
      BY <1>7, FS_Interval
    <3>2. PICK f : f = ChangeOf(r.orders, j)
      OBVIOUS
    <3>3. DOMAIN f = 1 .. L /\ Summable(f, 1 .. L)
      BY <1>4, <1>7, <3>2, OrderTermsOfPlan DEF ChangeOf, Summable
    <3>4. SumFunctionOnSet(f, 1 .. L) \in Int
      BY <3>1, <3>3, SumType
    <3> QED BY <3>2, <3>3, <3>4 DEF SumOver
  <2>2. Held(r, j) = held[j].quantity + SumOver(ChangeOf(r.orders, j)) /\ Held(r, j) \in Nat
    BY <1>1, <1>4
  <2>3. held[j].quantity \in Int
    BY <1>1 DEF Positions
  <2> QED BY <1>9, <1>10, <1>11, <2>1, <2>2, <2>3
<1>14. SumOver(OrdinaryOf(c.prices, c.orders)) <= MoneyLimit(c.nav, Policy.turnover)
  <2>1. CASE reason \in Emergency
    <3>1. SumOver(OrdinaryOf(r.prices, r.orders)) \in Int
      BY <1>4, OrdinaryIsPart
    <3> QED BY <1>1, <1>3, <1>9, <2>1, <3>1
  <2>2. CASE reason \notin Emergency
    <3>1. /\ SumOver(OrdinaryOf(r.prices, c.orders)) <= SumOver(GrossOf(r.prices, c.orders))
          /\ SumOver(OrdinaryOf(r.prices, c.orders)) \in Int /\ SumOver(GrossOf(r.prices, c.orders)) \in Int
      BY <1>3, <1>4, OrdinaryIsPart, PlanFields
    <3>2. MoneyLimit(r.nav, Policy.turnover) \in Nat
      BY <1>4, PolicyFields
    <3> QED BY <1>3, <1>12, <2>2, <3>1, <3>2
  <2> QED BY <2>1, <2>2
<1>15. (\E n \in DOMAIN c.orders : c.orders[n].side = "buy") => c.traded <= MoneyLimit(c.nav, Policy.turnover)
  <2>1. CASE reason \in Emergency
    <3>1. reason # "entry_signal"
      BY <2>1 DEF Emergency
    <3>2. \A n \in DOMAIN c.orders : c.orders[n].side # "buy"
      BY <1>2, <1>7, <2>1, <3>1
    <3> QED BY <3>2
  <2>2. CASE reason \notin Emergency
    BY <1>3, <2>2
  <2> QED BY <2>1, <2>2
<1>16. OrdersApart(c.orders)
  <2>1. ASSUME NEW n \in DOMAIN c.orders
        PROVE  c.orders[n].side = "buy" <=> c.orders[n].reason = "entry_signal"
    BY <1>1, <1>2, <1>7 DEF OrdersApart
  <2>2. ASSUME NEW m \in DOMAIN c.orders, NEW n \in DOMAIN c.orders,
               c.orders[m].instrument = c.orders[n].instrument, c.orders[m].reason = c.orders[n].reason
        PROVE  m = n
    <3>1. CASE m \in 1 .. L /\ n \in 1 .. L
      BY <1>1, <1>7, <2>2, <3>1 DEF OrdersApart
    <3>2. CASE m \in 1 .. L /\ n = L + 1
      BY <1>2, <1>7, <2>2, <3>2 DEF Unplanned
    <3>3. CASE m = L + 1 /\ n \in 1 .. L
      BY <1>2, <1>7, <2>2, <3>3 DEF Unplanned
    <3> QED BY <1>7, <3>1, <3>2, <3>3
  <2> QED BY <2>1, <2>2 DEF OrdersApart
<1>17. \A j \in Instruments : c.positions[j].reserved = 0 /\ (Held(c, j) > 0 => c.prices[j] > 0)
  <2>1. ASSUME NEW j \in Instruments PROVE c.positions[j].reserved = 0 /\ (Held(c, j) > 0 => c.prices[j] > 0)
    <3>1. r.positions[j].reserved = 0 /\ (Held(r, j) > 0 => r.prices[j] > 0) /\ Held(r, j) \in Nat
      BY <1>1, <1>4 DEF PlanFine
    <3>2. Held(c, j) > 0 => c.prices[j] > 0
      <4>1. CASE i # j
        BY <1>3, <1>11, <3>1, <4>1
      <4>2. CASE i = j /\ side = "buy"
        BY <1>3, <4>2
      <4>3. CASE i = j /\ side = "sell"
        BY <1>3, <1>10, <1>11, <3>1, <4>3
      <4> QED BY <4>1, <4>2, <4>3
    <3> QED BY <1>11, <3>1, <3>2
  <2> QED BY <2>1
<1>18. PlanInv(c, held)
  BY <1>3, <1>12, <1>13, <1>14, <1>15, <1>16, <1>17 DEF PlanInv, PlanFine
<1>19. ASSUME NEW j \in Instruments, NEW e \in Reasons, Unplanned(r, j, e), ~(j = i /\ e = reason)
       PROVE  Unplanned(c, j, e)
  BY <1>2, <1>7, <1>19 DEF Unplanned
<1> QED BY <1>18, <1>19

-------------------------------------------------------------------------------
(* The passes.  What a pass of sales keeps.                                *)
NoPurchase(r) == \A n \in DOMAIN r.orders : r.orders[n].side # "buy"
SameTerms(r, c) == c.prices = r.prices /\ c.nav = r.nav /\ c.peak = r.peak /\ c.signals = r.signals
NoneMore(r, c) == \A i \in Instruments : Held(c, i) <= Held(r, i)
OnlyReason(r, c, reason) ==
    \A i \in Instruments, e \in Reasons \ {reason} : Unplanned(r, i, e) => Unplanned(c, i, e)
SoldFrom(r, c, held, reason) ==
    PlanInv(c, held) /\ NoPurchase(c) /\ SameTerms(r, c) /\ NoneMore(r, c) /\ OnlyReason(r, c, reason)

LEMMA SaleStepKeeps ==
    ASSUME NEW r, NEW held, PlanInv(r, held), NoPurchase(r), NEW i \in Instruments,
           NEW reason \in Reasons \ {"entry_signal"}, Unplanned(r, i, reason),
           NEW c, SaleStep(r, c, i, reason)
    PROVE  /\ SoldFrom(r, c, held, reason)
           /\ \A j \in Instruments \ {i} : Unplanned(r, j, reason) => Unplanned(c, j, reason)
<1>0. \A j \in Instruments : Held(r, j) \in Nat
  <2>1. r \in Plans
    BY DEF PlanInv, PlanFine
  <2> QED BY <2>1, PlanFields
<1>1. CASE c = r
  BY <1>0, <1>1 DEF SoldFrom, SameTerms, NoneMore, OnlyReason
<1>2. ASSUME NEW q \in Nat \ {0}, Sells(r, c, i, reason, q)
      PROVE  /\ SoldFrom(r, c, held, reason)
             /\ \A j \in Instruments \ {i} : Unplanned(r, j, reason) => Unplanned(c, j, reason)
  <2>1. /\ Goes(r, c, i, "sell", reason, q) /\ q <= Held(r, i)
        /\ reason \notin Emergency => r.traded + GrossValue(r.prices[i], q) <= MoneyLimit(r.nav, Policy.turnover)
    BY <1>2 DEF Sells
  <2>2. c.traded = r.traded + GrossValue(r.prices[i], q) /\ SameTerms(r, c)
    BY <2>1 DEF Goes, SameTerms
  <2>3. reason # "entry_signal" /\ reason \in Reasons
    OBVIOUS
  <2>4. PICK side : side = "sell"
    OBVIOUS
  <2>5. /\ PlanInv(c, held)
        /\ \A j \in Instruments, e \in Reasons :
              Unplanned(r, j, e) /\ ~(j = i /\ e = reason) => Unplanned(c, j, e)
    <3>1. /\ side \in {"buy", "sell"} /\ (side = "buy" <=> reason = "entry_signal")
          /\ Goes(r, c, i, side, reason, q) /\ (side = "sell" => q <= Held(r, i))
          /\ (side = "buy" => r.prices[i] > 0)
          /\ (reason \in Emergency => \A n \in DOMAIN r.orders : r.orders[n].side # "buy")
          /\ (reason \notin Emergency => c.traded <= MoneyLimit(r.nav, Policy.turnover))
      BY <2>1, <2>2, <2>3, <2>4 DEF NoPurchase
    <3> QED BY <2>3, <3>1, GoesKeeps
  <2>6. NoPurchase(c)
    <3>1. c.orders = Append(r.orders, [instrument |-> i, side |-> "sell", reason |-> reason, quantity |-> q])
          /\ r.orders \in Seq(PlannedOrders)
      BY <2>1, PlanFields DEF Goes, PlanInv, PlanFine
    <3> QED BY <3>1 DEF NoPurchase
  <2>7. NoneMore(r, c)
    <3>1. c.positions = [r.positions EXCEPT ![i].quantity = @ - q] /\ r.positions \in Positions
      BY <2>1, PlanFields DEF Goes, PlanInv, PlanFine
    <3> QED BY <1>0, <2>1, <3>1 DEF NoneMore, Held, Positions
  <2>8. OnlyReason(r, c, reason)
    BY <2>5 DEF OnlyReason
  <2> QED BY <2>2, <2>5, <2>6, <2>7, <2>8 DEF SoldFrom
<1> QED BY <1>1, <1>2 DEF SaleStep

LEMMA SoldTwice ==
    ASSUME NEW r, NEW c, NEW d, NEW held, NEW reason, SoldFrom(r, c, held, reason), SoldFrom(c, d, held, reason),
           r \in Plans
    PROVE  SoldFrom(r, d, held, reason)
<1>1. c \in Plans /\ d \in Plans
  BY DEF SoldFrom, PlanInv, PlanFine
<1>2. \A i \in Instruments : Held(r, i) \in Nat /\ Held(c, i) \in Nat /\ Held(d, i) \in Nat
  BY <1>1, PlanFields
<1> QED BY <1>2 DEF SoldFrom, SameTerms, NoneMore, OnlyReason

(* A pass of sales over all instruments, whose steps are h.                *)
SalePass(h, held, reason) ==
    \A m \in 0 .. Len(ByID) - 1 :
        PlanInv(h[m], held) => SaleStep(h[m], h[m + 1], ByID[m + 1], reason)

LEMMA SalePassKeeps ==
    ASSUME NEW h, NEW held, PlanInv(h[0], held), NoPurchase(h[0]),
           NEW reason \in Reasons \ {"entry_signal"}, \A i \in Instruments : Unplanned(h[0], i, reason),
           SalePass(h, held, reason)
    PROVE  \A m \in 0 .. Len(ByID) :
              /\ SoldFrom(h[0], h[m], held, reason)
              /\ \A n \in 1 .. Len(ByID) : n > m => Unplanned(h[m], ByID[n], reason)
<1>1. PICK N : N = Len(ByID)
  OBVIOUS
<1>2. /\ N \in Nat /\ \A n \in 1 .. N : ByID[n] \in Instruments
      /\ \A m, n \in 1 .. N : ByID[m] = ByID[n] => m = n
  BY <1>1, Listed
<1>r. h[0] \in Plans
  BY DEF PlanInv, PlanFine
<1>3. PICK G : G = {m \in 0 .. N : /\ SoldFrom(h[0], h[m], held, reason)
                                   /\ \A n \in 1 .. N : n > m => Unplanned(h[m], ByID[n], reason)}
  OBVIOUS
<1>4. 0 \in G
  <2>1. \A i \in Instruments : Held(h[0], i) \in Nat
    BY <1>r, PlanFields
  <2>2. SoldFrom(h[0], h[0], held, reason)
    BY <2>1 DEF SoldFrom, SameTerms, NoneMore, OnlyReason
  <2> QED BY <1>2, <1>3, <2>2
<1>5. ASSUME NEW m \in 0 .. N - 1, m \in G PROVE m + 1 \in G
  <2>1. /\ SoldFrom(h[0], h[m], held, reason) /\ PlanInv(h[m], held) /\ NoPurchase(h[m])
        /\ \A n \in 1 .. N : n > m => Unplanned(h[m], ByID[n], reason)
    BY <1>3, <1>5 DEF SoldFrom
  <2>2. PICK i : i = ByID[m + 1]
    OBVIOUS
  <2>3. i \in Instruments /\ Unplanned(h[m], i, reason) /\ SaleStep(h[m], h[m + 1], i, reason)
    BY <1>1, <1>2, <2>1, <2>2 DEF SalePass
  <2>4. /\ SoldFrom(h[m], h[m + 1], held, reason)
        /\ \A j \in Instruments \ {i} : Unplanned(h[m], j, reason) => Unplanned(h[m + 1], j, reason)
    BY <2>1, <2>3, SaleStepKeeps
  <2>5. SoldFrom(h[0], h[m + 1], held, reason)
    BY <1>r, <2>1, <2>4, SoldTwice
  <2>6. ASSUME NEW n \in 1 .. N, n > m + 1 PROVE Unplanned(h[m + 1], ByID[n], reason)
    BY <1>2, <2>1, <2>2, <2>4, <2>6
  <2> QED BY <1>2, <1>3, <2>5, <2>6
<1>6. ASSUME NEW n \in 0 .. N PROVE n \in G
  <2>1. PICK H : H = {m \in G : m <= n}
    OBVIOUS
  <2>2. 0 \in H /\ \A m \in 0 .. n - 1 : m \in H => m + 1 \in H
    BY <1>2, <1>4, <1>5, <2>1
  <2>3. n \in H
    BY <1>2, <2>2, CountingUp
  <2> QED BY <2>1, <2>3
<1> QED BY <1>1, <1>3, <1>6

(* Where no holding has grown, nothing is worth more.                      *)
WorthIn(r, S) == Worth(r.positions, r.prices, S)
LEMMA WorthShrinks ==
    ASSUME NEW r \in Plans, NEW c \in Plans, c.prices = r.prices, NoneMore(r, c), NEW S \in SUBSET Instruments
    PROVE  WorthIn(c, S) <= WorthIn(r, S) /\ WorthIn(c, S) \in Nat /\ WorthIn(r, S) \in Nat
<1>1. /\ r.positions \in Positions /\ c.positions \in Positions /\ r.prices \in [Instruments -> Nat]
      /\ \A i \in Instruments : Held(r, i) \in Nat /\ Held(c, i) \in Nat /\ r.prices[i] \in Nat
  BY PlanFields
<1>2. PICK f, g : f = Values(c.positions, r.prices) /\ g = Values(r.positions, r.prices)
  OBVIOUS
<1>3. /\ WorthIn(c, S) = SumFunctionOnSet(f, S) /\ WorthIn(r, S) = SumFunctionOnSet(g, S)
      /\ WorthIn(c, S) \in Nat /\ WorthIn(r, S) \in Nat /\ IsFiniteSet(S)
  BY <1>1, <1>2, WorthIs DEF WorthIn
<1>4. ASSUME NEW i \in S PROVE f[i] \in Int /\ g[i] \in Int /\ f[i] <= g[i]
  <2>1. f[i] = GrossValue(r.prices[i], Held(c, i)) /\ g[i] = GrossValue(r.prices[i], Held(r, i))
    BY <1>2 DEF Values, Held
  <2>2. PICK x, y, p : x = Held(c, i) /\ y = Held(r, i) /\ p = r.prices[i]
    OBVIOUS
  <2>3. x \in Nat /\ y \in Nat /\ p \in Nat /\ x <= y
    BY <1>1, <2>2 DEF NoneMore
  <2>4. GrossValue(p, x) \in Nat /\ GrossValue(p, x) <= GrossValue(p, y)
    BY <2>3, GrossFacts
  <2>5. GrossValue(p, y) \in Nat
    BY <2>3, GrossFacts
  <2> QED BY <2>1, <2>2, <2>4, <2>5
<1>5. Summable(f, S) /\ Summable(g, S) /\ \A i \in S : f[i] <= g[i]
  BY <1>4 DEF Summable
<1>6. SumFunctionOnSet(f, S) <= SumFunctionOnSet(g, S)
  BY <1>3, <1>5, SumMonotone
<1> QED BY <1>3, <1>6

(* One holding more or less of a group.                                    *)
LEMMA WorthChanges ==
    ASSUME NEW r \in Plans, NEW c \in Plans, c.prices = r.prices, NEW S \in SUBSET Instruments, NEW i \in S,
           NEW p, p = r.prices[i],
           \A j \in Instruments \ {i} : Held(c, j) = Held(r, j)
    PROVE  WorthIn(c, S) = WorthIn(r, S) - GrossValue(p, Held(r, i)) + GrossValue(p, Held(c, i))
<1>1. /\ r.positions \in Positions /\ c.positions \in Positions /\ r.prices \in [Instruments -> Nat]
      /\ \A j \in Instruments : Held(r, j) \in Nat /\ Held(c, j) \in Nat /\ r.prices[j] \in Nat
  BY PlanFields
<1>2. PICK f, g : f = Values(r.positions, r.prices) /\ g = Values(c.positions, r.prices)
  OBVIOUS
<1>3. /\ WorthIn(r, S) = SumFunctionOnSet(f, S) /\ WorthIn(c, S) = SumFunctionOnSet(g, S)
      /\ IsFiniteSet(S)
  BY <1>1, <1>2, WorthIs DEF WorthIn
<1>4. \A j \in Instruments : /\ f[j] = GrossValue(r.prices[j], Held(r, j))
                             /\ g[j] = GrossValue(r.prices[j], Held(c, j))
                             /\ f[j] \in Nat /\ g[j] \in Nat
  BY <1>1, <1>2, WorthIs DEF Values, Held
<1>5. Summable(f, S) /\ g[i] \in Int /\ \A j \in S \ {i} : g[j] = f[j]
  BY <1>4 DEF Summable
<1>6. SumFunctionOnSet(g, S) = SumFunctionOnSet(f, S) - f[i] + g[i]
  BY <1>3, <1>5, SumChange
<1> QED BY <1>3, <1>4, <1>6

LEMMA ReasonsOfLevels ==
    ASSUME NEW level \in Levels
    PROVE  /\ ReductionReason(level) \in Reasons \ {"entry_signal"} /\ ReductionReason(level) \in Emergency
           /\ \A l \in Levels : ReductionReason(l) = ReductionReason(level) => l = level
BY DEF Levels, ReductionReason, Reasons, Emergency

(* A reduction brings a group within its limit, or sells the holding.      *)
Over(r, level, i) == WorthIn(r, Group(level, i)) > MoneyLimit(r.nav, Policy[level])
LEMMA ReductionIs ==
    ASSUME NEW r, PlanFine(r), NEW level \in Levels, NEW i \in Instruments, NEW c, c = Reduction(level, r, i)
    PROVE  /\ SaleStep(r, c, i, ReductionReason(level))
           /\ Over(r, level, i) => Held(c, i) = 0 \/ ~Over(c, level, i)
<1>1. PICK reason : reason = ReductionReason(level)
  OBVIOUS
<1>2. reason \in Reasons \ {"entry_signal"} /\ reason \in Emergency
  BY <1>1, ReasonsOfLevels
<1>3. /\ r \in Plans /\ r.positions \in Positions /\ r.prices \in [Instruments -> Nat] /\ r.nav \in Nat
      /\ Held(r, i) \in Nat /\ r.prices[i] \in Nat /\ (Held(r, i) > 0 => r.prices[i] > 0)
  BY PlanFields DEF PlanFine
<1>4. PICK S, limit, p, n : S = Group(level, i) /\ limit = MoneyLimit(r.nav, Policy[level])
                            /\ p = r.prices[i] /\ n = Held(r, i)
  OBVIOUS
<1>5. S \in SUBSET Instruments /\ i \in S /\ limit \in Nat /\ WorthIn(r, S) \in Nat
  <2>1. S \in SUBSET Instruments /\ i \in S
    BY <1>4, GroupIs
  <2>2. limit \in Nat
    BY <1>3, <1>4, PolicyFields DEF Levels
  <2> QED BY <1>3, <2>1, <2>2, WorthIs DEF WorthIn
<1>6. CASE ~(n > 0 /\ WorthIn(r, S) > limit)
  <2>1. c = r
    BY <1>4, <1>5, <1>6 DEF Reduction, Excess, WorthIn
  <2> QED BY <1>3, <1>4, <1>6, <2>1 DEF SaleStep, Over
<1>7. CASE n > 0 /\ WorthIn(r, S) > limit
  <2>1. PICK excess, kept, k, q : /\ excess = WorthIn(r, S) - limit /\ kept = GrossValue(p, n) - excess
                                  /\ k = (IF kept < 0 THEN 0 ELSE kept \div p) /\ q = n - k
    OBVIOUS
  <2>2. excess = Excess(level, r, i) /\ excess > 0 /\ excess \in Nat /\ k = Keep(level, r, i)
    BY <1>3, <1>4, <1>5, <1>7, <2>1 DEF Excess, Keep, WorthIn
  <2>3. c = PlanSale(r, i, q, reason)
    BY <1>1, <1>4, <1>7, <2>1, <2>2 DEF Reduction
  <2>4. p \in Nat \ {0} /\ n \in Nat \ {0}
    BY <1>3, <1>4, <1>7
  <2>5. GrossValue(p, n) \in Nat /\ kept \in Int /\ kept < GrossValue(p, n)
    <3>1. GrossValue(p, n) \in Nat
      BY <2>4, GrossFacts
    <3> QED BY <2>1, <2>2, <3>1
  <2>6. k \in Nat /\ k < n /\ (kept >= 0 => GrossValue(p, k) <= kept)
    <3>1. CASE kept < 0
      BY <2>1, <2>4, <3>1
    <3>2. CASE kept >= 0
      <4>1. k = kept \div p /\ kept \in Nat
        BY <2>1, <2>5, <3>2
      <4>2. k \in Nat /\ p * k <= kept
        BY <2>4, <4>1
      <4>3. ~(k >= n)
        <5>1. ASSUME k >= n PROVE FALSE
          <6>1. p \in Nat /\ n \in Nat /\ k \in Nat /\ n <= k
            BY <2>4, <4>2, <5>1
          <6>2. GrossValue(p, n) <= GrossValue(p, k)
            BY <6>1, GrossFacts
          <6>3. GrossValue(p, k) <= kept /\ GrossValue(p, k) \in Int
            BY <4>1, <4>2, <6>1 DEF GrossValue
          <6> QED BY <2>5, <4>1, <6>2, <6>3
        <5> QED BY <5>1
      <4> QED BY <2>4, <4>2, <4>3 DEF GrossValue
    <3> QED BY <2>5, <3>1, <3>2
  <2>7. q \in Nat \ {0} /\ q <= n /\ n - q = k
    BY <2>1, <2>4, <2>6
  <2>8. SaleStep(r, c, i, reason) /\ Sells(r, c, i, reason, q)
    <3>1. q \in Int /\ q > 0 /\ q <= Held(r, i)
      BY <1>4, <2>4, <2>7
    <3> QED BY <1>2, <2>3, <3>1, PlanSaleIs
  <2>9. c \in Plans /\ c.prices = r.prices /\ c.nav = r.nav
        /\ c.positions = [r.positions EXCEPT ![i].quantity = @ - q]
    BY <2>8 DEF Sells, Goes
  <2>10. Held(c, i) = k /\ \A j \in Instruments \ {i} : Held(c, j) = Held(r, j)
    BY <1>3, <1>4, <2>7, <2>9 DEF Held, Positions
  <2>11. CASE kept < 0
    BY <1>1, <2>1, <2>8, <2>10, <2>11
  <2>12. CASE kept >= 0
    <3>1. WorthIn(c, S) = WorthIn(r, S) - GrossValue(p, n) + GrossValue(p, k)
      BY <1>3, <1>4, <1>5, <2>9, <2>10, WorthChanges
    <3>2. GrossValue(p, k) <= kept /\ GrossValue(p, k) \in Nat
      BY <2>4, <2>6, <2>12, GrossFacts
    <3>3. WorthIn(c, S) <= limit /\ WorthIn(c, S) \in Int
      BY <1>5, <2>1, <2>5, <3>1, <3>2
    <3>4. ~Over(c, level, i)
      BY <1>4, <1>5, <2>9, <3>3 DEF Over
    <3> QED BY <1>1, <2>8, <3>4
  <2> QED BY <2>5, <2>11, <2>12
<1> QED BY <1>6, <1>7

(* The three passes of the sales.                                          *)
LEMMA StopLossIs ==
    ASSUME NEW r, PlanFine(r), NEW i \in Instruments
    PROVE  SaleStep(r, StopLoss(r, i), i, "stop_loss") /\ SaleStep(r, ExitSignal(r, i), i, "exit_signal")
<1>1. Held(r, i) \in Int
  BY PlanFields DEF PlanFine
<1>2. "stop_loss" \in Reasons \ {"entry_signal"} /\ "exit_signal" \in Reasons \ {"entry_signal"}
  BY DEF Reasons
<1>3. SaleStep(r, PlanSale(r, i, Held(r, i), "stop_loss"), i, "stop_loss")
  BY <1>1, <1>2, PlanSaleIs
<1>4. SaleStep(r, PlanSale(r, i, Held(r, i), "exit_signal"), i, "exit_signal")
  BY <1>1, <1>2, PlanSaleIs
<1> QED BY <1>3, <1>4 DEF StopLoss, ExitSignal, SaleStep

NoneYet(r, reason) == \A i \in Instruments : Unplanned(r, i, reason)

LEMMA StopPass ==
    ASSUME NEW r, NEW held, PlanInv(r, held), NoPurchase(r), NoneYet(r, "stop_loss"),
           NEW c, c = Seqs!FoldLeft(StopLoss, r, ByID)
    PROVE  SoldFrom(r, c, held, "stop_loss")
<1>1. PICK N : N = Len(ByID)
  OBVIOUS
<1>2. N \in Nat /\ \A m \in 0 .. N - 1 : ByID[m + 1] \in Instruments
  BY <1>1, Listed
<1>3. PICK h : Runs(h, StopWork, r, ByID, N) /\ h[N] = c
  BY <1>1, <1>2, StopFold
<1>4. h[0] = r /\ \A m \in 0 .. N - 1 : h[m + 1] = StopLoss(h[m], ByID[m + 1])
  BY <1>3, WorkSteps DEF Runs
<1>5. SalePass(h, held, "stop_loss")
  BY <1>1, <1>2, <1>4, StopLossIs DEF SalePass, PlanInv
<1>6. "stop_loss" \in Reasons \ {"entry_signal"}
  BY DEF Reasons
<1>7. N \in 0 .. N
  BY <1>2
<1>8. SoldFrom(h[0], h[N], held, "stop_loss")
  BY <1>1, <1>4, <1>5, <1>6, <1>7, SalePassKeeps DEF NoneYet
<1> QED BY <1>3, <1>4, <1>8

LEMMA ExitPass ==
    ASSUME NEW r, NEW held, PlanInv(r, held), NoPurchase(r), NoneYet(r, "exit_signal"),
           NEW c, c = Seqs!FoldLeft(ExitSignal, r, ByID)
    PROVE  SoldFrom(r, c, held, "exit_signal")
<1>1. PICK N : N = Len(ByID)
  OBVIOUS
<1>2. N \in Nat /\ \A m \in 0 .. N - 1 : ByID[m + 1] \in Instruments
  BY <1>1, Listed
<1>3. PICK h : Runs(h, ExitWork, r, ByID, N) /\ h[N] = c
  BY <1>1, <1>2, ExitFold
<1>4. h[0] = r /\ \A m \in 0 .. N - 1 : h[m + 1] = ExitSignal(h[m], ByID[m + 1])
  BY <1>3, WorkSteps DEF Runs
<1>5. SalePass(h, held, "exit_signal")
  BY <1>1, <1>2, <1>4, StopLossIs DEF SalePass, PlanInv
<1>6. "exit_signal" \in Reasons \ {"entry_signal"}
  BY DEF Reasons
<1>7. N \in 0 .. N
  BY <1>2
<1>8. SoldFrom(h[0], h[N], held, "exit_signal")
  BY <1>1, <1>4, <1>5, <1>6, <1>7, SalePassKeeps DEF NoneYet
<1> QED BY <1>3, <1>4, <1>8

(* After a pass of reductions every group of the level is within its       *)
(* limit: so it was, or has been brought, or everything in it is sold.     *)
Below(r, level) == \A i \in Instruments : ~Over(r, level, i)
BelowUpTo(r, level, m) ==
    \A i \in Instruments :
        Over(r, level, i) => \A n \in 1 .. m : ByID[n] \in Group(level, i) => Held(r, ByID[n]) = 0

LEMMA NeverMoreOver ==
    ASSUME NEW r \in Plans, NEW c \in Plans, SameTerms(r, c), NoneMore(r, c),
           NEW level \in Levels, NEW i \in Instruments, Over(c, level, i)
    PROVE  Over(r, level, i)
<1>1. PICK S : S = Group(level, i)
  OBVIOUS
<1>2. S \in SUBSET Instruments /\ c.prices = r.prices /\ c.nav = r.nav
  BY <1>1, GroupIs DEF SameTerms
<1>3. WorthIn(c, S) <= WorthIn(r, S) /\ WorthIn(c, S) \in Nat /\ WorthIn(r, S) \in Nat
  BY <1>2, WorthShrinks
<1>4. MoneyLimit(r.nav, Policy[level]) \in Nat
  BY PlanFields, PolicyFields DEF Levels
<1> QED BY <1>1, <1>2, <1>3, <1>4 DEF Over

LEMMA NothingHeld ==
    ASSUME NEW r \in Plans, NEW level \in Levels, NEW i \in Instruments,
           \A j \in Group(level, i) : Held(r, j) = 0
    PROVE  ~Over(r, level, i)
<1>1. PICK S : S = Group(level, i)
  OBVIOUS
<1>2. S \in SUBSET Instruments /\ r.positions \in Positions /\ r.prices \in [Instruments -> Nat]
  BY <1>1, GroupIs, PlanFields
<1>3. PICK f : f = Values(r.positions, r.prices)
  OBVIOUS
<1>4. WorthIn(r, S) = SumFunctionOnSet(f, S) /\ IsFiniteSet(S)
  BY <1>2, <1>3, WorthIs DEF WorthIn
<1>5. \A j \in S : f[j] = 0
  <2>1. \A j \in S : f[j] = GrossValue(r.prices[j], 0) /\ r.prices[j] \in Nat
    BY <1>1, <1>2, <1>3 DEF Values, Held
  <2> QED BY <2>1 DEF GrossValue
<1>6. WorthIn(r, S) = 0
  BY <1>4, <1>5, SumZero
<1>7. MoneyLimit(r.nav, Policy[level]) \in Nat
  BY PlanFields, PolicyFields DEF Levels
<1> QED BY <1>1, <1>6, <1>7 DEF Over

LEMMA ReducePass ==
    ASSUME NEW r, NEW held, PlanInv(r, held), NoPurchase(r), NEW level \in Levels,
           NoneYet(r, ReductionReason(level)),
           NEW c, c = Reduce(level, r)
    PROVE  SoldFrom(r, c, held, ReductionReason(level)) /\ Below(c, level)
<1>1. PICK N, reason : N = Len(ByID) /\ reason = ReductionReason(level)
  OBVIOUS
<1>2. N \in Nat /\ \A m \in 0 .. N - 1 : ByID[m + 1] \in Instruments
  BY <1>1, Listed
<1>3. PICK h : Runs(h, ReduceWork(level), r, ByID, N) /\ h[N] = c
  BY <1>1, <1>2, ReduceFold
<1>4. h[0] = r /\ \A m \in 0 .. N - 1 : h[m + 1] = Reduction(level, h[m], ByID[m + 1])
  <2>1. ASSUME NEW d, NEW x PROVE FoldStep(ReduceWork(level), d, x) = Reduction(level, d, x)
    BY WorkSteps
  <2> QED BY <1>3, <2>1 DEF Runs
<1>5. SalePass(h, held, reason)
  BY <1>1, <1>2, <1>4, ReductionIs DEF SalePass, PlanInv
<1>6. reason \in Reasons \ {"entry_signal"}
  BY <1>1, ReasonsOfLevels
<1>7. \A m \in 0 .. N : /\ SoldFrom(r, h[m], held, reason)
                        /\ \A n \in 1 .. N : n > m => Unplanned(h[m], ByID[n], reason)
  BY <1>1, <1>4, <1>5, <1>6, SalePassKeeps DEF NoneYet
<1>8. PICK G : G = {m \in 0 .. N : BelowUpTo(h[m], level, m)}
  OBVIOUS
<1>9. 0 \in G
  BY <1>2, <1>8 DEF BelowUpTo
<1>10. ASSUME NEW m \in 0 .. N - 1, m \in G PROVE m + 1 \in G
  <2>1. PICK d, e, k : d = h[m] /\ e = h[m + 1] /\ k = ByID[m + 1]
    OBVIOUS
  <2>2. /\ m \in 0 .. N /\ m + 1 \in 0 .. N /\ m + 1 \in 1 .. N /\ m + 1 > m /\ k \in Instruments
        /\ e = Reduction(level, d, k)
    BY <1>2, <1>4, <2>1
  <2>3. PlanInv(d, held) /\ NoPurchase(d) /\ PlanInv(e, held) /\ Unplanned(d, k, reason)
    BY <1>7, <2>1, <2>2 DEF SoldFrom
  <2>4. PlanFine(d) /\ d \in Plans /\ e \in Plans
    BY <2>3 DEF PlanInv, PlanFine
  <2>5. SaleStep(d, e, k, reason) /\ (Over(d, level, k) => Held(e, k) = 0 \/ ~Over(e, level, k))
    BY <1>1, <2>2, <2>4, ReductionIs
  <2>6. SoldFrom(d, e, held, reason)
    BY <1>6, <2>2, <2>3, <2>5, SaleStepKeeps
  <2>7. SameTerms(d, e) /\ NoneMore(d, e) /\ \A i \in Instruments : Held(d, i) \in Nat /\ Held(e, i) \in Nat
    BY <2>4, <2>6, PlanFields DEF SoldFrom
  <2>8. ASSUME NEW i \in Instruments, Over(e, level, i), NEW n \in 1 .. m + 1, ByID[n] \in Group(level, i)
        PROVE  Held(e, ByID[n]) = 0
    <3>1. Over(d, level, i) /\ ByID[n] \in Instruments
      <4>1. Over(d, level, i)
        BY <2>4, <2>7, <2>8, NeverMoreOver
      <4> QED BY <2>8, <4>1, GroupIs
    <3>2. CASE n \in 1 .. m
      <4>1. Held(d, ByID[n]) = 0
        BY <1>8, <1>10, <2>1, <2>8, <3>1, <3>2 DEF BelowUpTo
      <4>2. Held(e, ByID[n]) <= Held(d, ByID[n]) /\ Held(e, ByID[n]) \in Nat
        BY <2>7, <3>1 DEF NoneMore
      <4> QED BY <4>1, <4>2
    <3>3. CASE n = m + 1
      <4>1. Group(level, i) = Group(level, k)
        BY <2>1, <2>2, <2>8, <3>3, GroupIs
      <4>2. Over(d, level, k) /\ Over(e, level, k)
        BY <2>8, <3>1, <4>1 DEF Over
      <4> QED BY <2>1, <2>5, <3>3, <4>2
    <3> QED BY <2>8, <3>2, <3>3
  <2> QED BY <1>8, <2>1, <2>2, <2>8 DEF BelowUpTo
<1>11. N \in G
  BY <1>2, <1>9, <1>10, CountingUp
<1>12. SoldFrom(r, c, held, reason) /\ c \in Plans
  <2>1. N \in 0 .. N
    BY <1>2
  <2> QED BY <1>3, <1>7, <2>1 DEF SoldFrom, PlanInv, PlanFine
<1>13. ASSUME NEW i \in Instruments PROVE ~Over(c, level, i)
  <2>1. SUFFICES ASSUME Over(c, level, i) PROVE \A j \in Group(level, i) : Held(c, j) = 0
    BY <1>12, NothingHeld
  <2>2. ASSUME NEW j \in Group(level, i) PROVE Held(c, j) = 0
    <3>1. PICK n \in 1 .. N : ByID[n] = j
      BY <1>1, Listed, GroupIs
    <3> QED BY <1>3, <1>8, <1>11, <2>1, <3>1 DEF BelowUpTo
  <2> QED BY <2>2
<1> QED BY <1>1, <1>12, <1>13 DEF Below

(* The sales of a plan, of a plan with no orders yet.                      *)
StartOf(r, held) ==
    /\ PlanInv(r, held) /\ r.orders = <<>>
    /\ \A i \in Instruments : Held(r, i) = held[i].quantity
SoldDown(r, c, held) ==
    /\ PlanInv(c, held) /\ NoPurchase(c) /\ SameTerms(r, c) /\ NoneYet(c, "entry_signal")
    /\ \A level \in Levels : Below(c, level)

LEMMA BelowStays ==
    ASSUME NEW r \in Plans, NEW c, NEW held, NEW reason, SoldFrom(r, c, held, reason),
           NEW level \in Levels, Below(r, level)
    PROVE  Below(c, level)
<1>1. c \in Plans /\ SameTerms(r, c) /\ NoneMore(r, c)
  BY DEF SoldFrom, PlanInv, PlanFine
<1> QED BY <1>1, NeverMoreOver DEF Below

LEMMA NoneYetStays ==
    ASSUME NEW r, NEW c, NEW held, NEW reason, SoldFrom(r, c, held, reason), NEW e \in Reasons \ {reason},
           NoneYet(r, e)
    PROVE  NoneYet(c, e)
BY DEF NoneYet, SoldFrom, OnlyReason

LEMMA SalesPass ==
    ASSUME NEW r, NEW held, StartOf(r, held), NEW c, c = Sales(r)
    PROVE  SoldDown(r, c, held)
<1>1. PICK s, e, x, y : /\ s = Seqs!FoldLeft(StopLoss, r, ByID) /\ e = Seqs!FoldLeft(ExitSignal, s, ByID)
                        /\ x = Reduce("single", e) /\ y = Reduce("industry", x)
  OBVIOUS
<1>2. c = Reduce("stock", y)
  BY <1>1 DEF Sales
<1>3. /\ PlanInv(r, held) /\ r \in Plans /\ NoPurchase(r)
      /\ \A reason : NoneYet(r, reason)
  BY DEF StartOf, PlanInv, PlanFine, NoPurchase, NoneYet, Unplanned
<1>4. /\ ReductionReason("single") = "reduce_single_risk"
      /\ ReductionReason("industry") = "reduce_industry_risk"
      /\ ReductionReason("stock") = "reduce_stock_risk" /\ Levels = {"single", "industry", "stock"}
  BY DEF ReductionReason, Levels
<1>5. SoldFrom(r, s, held, "stop_loss")
  BY <1>1, <1>3, StopPass
<1>6. /\ PlanInv(s, held) /\ NoPurchase(s) /\ SameTerms(r, s) /\ s \in Plans
      /\ \A k \in Reasons \ {"stop_loss"} : NoneYet(s, k)
  BY <1>3, <1>5, NoneYetStays DEF SoldFrom, PlanInv, PlanFine
<1>7. SoldFrom(s, e, held, "exit_signal")
  <2>1. NoneYet(s, "exit_signal")
    BY <1>6 DEF Reasons
  <2> QED BY <1>1, <1>6, <2>1, ExitPass
<1>8. /\ PlanInv(e, held) /\ NoPurchase(e) /\ SameTerms(r, e) /\ e \in Plans
      /\ \A k \in Reasons \ {"stop_loss", "exit_signal"} : NoneYet(e, k)
  BY <1>6, <1>7, NoneYetStays DEF SoldFrom, PlanInv, PlanFine, SameTerms
<1>9. SoldFrom(e, x, held, "reduce_single_risk") /\ Below(x, "single")
  <2>1. NoneYet(e, "reduce_single_risk")
    BY <1>8 DEF Reasons
  <2> QED BY <1>1, <1>4, <1>8, <2>1, ReducePass
<1>10. /\ PlanInv(x, held) /\ NoPurchase(x) /\ SameTerms(r, x) /\ x \in Plans
       /\ \A k \in Reasons \ {"stop_loss", "exit_signal", "reduce_single_risk"} : NoneYet(x, k)
  BY <1>8, <1>9, NoneYetStays DEF SoldFrom, PlanInv, PlanFine, SameTerms
<1>11. SoldFrom(x, y, held, "reduce_industry_risk") /\ Below(y, "industry")
  <2>1. NoneYet(x, "reduce_industry_risk")
    BY <1>10 DEF Reasons
  <2> QED BY <1>1, <1>4, <1>10, <2>1, ReducePass
<1>12. /\ PlanInv(y, held) /\ NoPurchase(y) /\ SameTerms(r, y) /\ y \in Plans
       /\ NoneYet(y, "reduce_stock_risk") /\ NoneYet(y, "entry_signal")
  <2>1. "reduce_stock_risk" \in Reasons \ {"stop_loss", "exit_signal", "reduce_single_risk", "reduce_industry_risk"}
        /\ "entry_signal" \in Reasons \ {"stop_loss", "exit_signal", "reduce_single_risk", "reduce_industry_risk"}
    BY DEF Reasons
  <2> QED BY <1>10, <1>11, <2>1, NoneYetStays DEF SoldFrom, PlanInv, PlanFine, SameTerms
<1>13. SoldFrom(y, c, held, "reduce_stock_risk") /\ Below(c, "stock")
  BY <1>2, <1>4, <1>12, ReducePass
<1>14. Below(y, "single") /\ Below(c, "single") /\ Below(c, "industry")
  BY <1>4, <1>9, <1>10, <1>11, <1>12, <1>13, BelowStays
<1>15. NoneYet(c, "entry_signal")
  <2>1. "entry_signal" \in Reasons \ {"reduce_stock_risk"}
    BY DEF Reasons
  <2> QED BY <1>12, <1>13, <2>1, NoneYetStays
<1>16. PlanInv(c, held) /\ NoPurchase(c) /\ SameTerms(r, c)
  BY <1>12, <1>13 DEF SoldFrom, SameTerms
<1> QED BY <1>4, <1>13, <1>14, <1>15, <1>16 DEF SoldDown

(* A purchase keeps every group within its limit.                          *)
LEMMA BuyKeeps ==
    ASSUME NEW r, NEW held, PlanInv(r, held), NEW i \in Instruments, Unplanned(r, i, "entry_signal"),
           \A level \in Levels : Below(r, level),
           NEW c, NEW q \in Nat \ {0}, Buys(r, c, i, q)
    PROVE  /\ PlanInv(c, held) /\ SameTerms(r, c) /\ \A level \in Levels : Below(c, level)
           /\ \A j \in Instruments \ {i} : Unplanned(r, j, "entry_signal") => Unplanned(c, j, "entry_signal")
<1>1. /\ Goes(r, c, i, "buy", "entry_signal", q) /\ r.prices[i] > 0
      /\ r.traded + GrossValue(r.prices[i], q) <= MoneyLimit(r.nav, Policy.turnover)
      /\ \A l \in Levels : Worth(r.positions, r.prices, Group(l, i)) + GrossValue(r.prices[i], q)
                           <= MoneyLimit(r.nav, Policy[l])
  BY DEF Buys
<1>2. /\ c.traded = r.traded + GrossValue(r.prices[i], q) /\ SameTerms(r, c)
      /\ c.positions = [r.positions EXCEPT ![i].quantity = @ + q] /\ c \in Plans
  BY <1>1 DEF Goes, SameTerms
<1>3. r \in Plans /\ r.positions \in Positions
  BY PlanFields DEF PlanInv, PlanFine
<1>4. PICK side, reason : side = "buy" /\ reason = "entry_signal"
  OBVIOUS
<1>5. /\ PlanInv(c, held)
      /\ \A j \in Instruments, e \in Reasons : Unplanned(r, j, e) /\ ~(j = i /\ e = reason) => Unplanned(c, j, e)
  <2>1. /\ side \in {"buy", "sell"} /\ (side = "buy" <=> reason = "entry_signal")
        /\ Goes(r, c, i, side, reason, q) /\ (side = "sell" => q <= Held(r, i))
        /\ (side = "buy" => r.prices[i] > 0) /\ reason \in Reasons /\ Unplanned(r, i, reason)
        /\ (reason \in Emergency => \A n \in DOMAIN r.orders : r.orders[n].side # "buy")
        /\ (reason \notin Emergency => c.traded <= MoneyLimit(r.nav, Policy.turnover))
    BY <1>1, <1>2, <1>4 DEF Reasons, Emergency
  <2> QED BY <2>1, GoesKeeps
<1>6. /\ \A j \in Instruments \ {i} : Held(c, j) = Held(r, j)
      /\ Held(c, i) = Held(r, i) + q /\ Held(r, i) \in Nat
  BY <1>2, <1>3 DEF Held, Positions
<1>7. ASSUME NEW level \in Levels, NEW j \in Instruments PROVE ~Over(c, level, j)
  <2>1. PICK S : S = Group(level, j)
    OBVIOUS
  <2>2. S \in SUBSET Instruments /\ ~Over(r, level, j)
    BY <2>1, GroupIs DEF Below
  <2>3. MoneyLimit(r.nav, Policy[level]) \in Nat
    BY <1>3, PlanFields, PolicyFields DEF Levels
  <2>4. CASE i \in S
    <3>1. S = Group(level, i)
      BY <2>1, <2>4, GroupIs
    <3>2. WorthIn(c, S) = WorthIn(r, S) - GrossValue(r.prices[i], Held(r, i)) + GrossValue(r.prices[i], Held(c, i))
      BY <1>2, <1>3, <1>6, <2>2, <2>4, WorthChanges DEF SameTerms
    <3>3. PICK p, x : p = r.prices[i] /\ x = Held(r, i)
      OBVIOUS
    <3>4. p \in Nat /\ x \in Nat /\ q \in Nat
      BY <1>3, <1>6, <3>3, PlanFields
    <3>5. GrossValue(p, x + q) = GrossValue(p, x) + GrossValue(p, q)
      BY <3>4, GrossFacts
    <3>6. GrossValue(p, x) \in Nat /\ GrossValue(p, q) \in Nat
      BY <3>4, GrossFacts
    <3>7. WorthIn(r, S) \in Nat
      BY <1>3, <2>2, PlanFields, WorthIs DEF WorthIn
    <3>8. WorthIn(c, S) = WorthIn(r, S) + GrossValue(p, q)
      BY <1>6, <3>2, <3>3, <3>5, <3>6, <3>7
    <3>9. WorthIn(r, S) + GrossValue(p, q) <= MoneyLimit(r.nav, Policy[level])
      BY <1>1, <3>1, <3>3 DEF WorthIn
    <3> QED BY <1>2, <2>1, <2>3, <3>6, <3>7, <3>8, <3>9 DEF Over, SameTerms
  <2>5. CASE i \notin S
    <3>1. PICK f, g : f = Values(r.positions, r.prices) /\ g = Values(c.positions, r.prices)
      OBVIOUS
    <3>2. WorthIn(r, S) = SumFunctionOnSet(f, S) /\ WorthIn(c, S) = SumFunctionOnSet(g, S) /\ IsFiniteSet(S)
      <4>1. /\ r.positions \in Positions /\ c.positions \in Positions /\ r.prices \in [Instruments -> Nat]
            /\ c.prices = r.prices
        BY <1>2, <1>3, PlanFields DEF SameTerms
      <4>2. Worth(r.positions, r.prices, S) = SumFunctionOnSet(f, S) /\ IsFiniteSet(S)
        BY <2>2, <3>1, <4>1, WorthIs
      <4>3. Worth(c.positions, r.prices, S) = SumFunctionOnSet(g, S)
        BY <2>2, <3>1, <4>1, WorthIs
      <4> QED BY <4>1, <4>2, <4>3 DEF WorthIn
    <3>3. \A k \in S : f[k] = g[k]
      BY <1>6, <2>2, <2>5, <3>1 DEF Values, Held
    <3>4. WorthIn(c, S) = WorthIn(r, S)
      BY <3>2, <3>3, SumSame
    <3> QED BY <1>2, <2>1, <2>2, <3>4 DEF Over, SameTerms
  <2> QED BY <2>4, <2>5
<1>8. \A j \in Instruments \ {i} : Unplanned(r, j, "entry_signal") => Unplanned(c, j, "entry_signal")
  BY <1>4, <1>5 DEF Reasons
<1> QED BY <1>2, <1>5, <1>7, <1>8 DEF Below

(* A plan that is complete.                                                *)
PlanDone(r, c, held) ==
    PlanInv(c, held) /\ SameTerms(r, c) /\ \A level \in Levels : Below(c, level)

LEMMA SignalsIs ==
    ASSUME NEW s \in Signals
    PROVE  /\ s \in Seq([instrument : Instruments, score : {"entry", "hold", "exit"}, risk : {"low", "high"}])
           /\ DOMAIN s = 1 .. Len(s) /\ Len(s) \in Nat
           /\ \A n \in DOMAIN s : s[n].instrument \in Instruments
           /\ \A m, n \in DOMAIN s : s[m].instrument = s[n].instrument => m = n
<1>1. /\ s \in Seq([instrument : Instruments, score : {"entry", "hold", "exit"}, risk : {"low", "high"}])
      /\ \A m, n \in DOMAIN s : s[m].instrument = s[n].instrument => m = n
  BY DEF Signals
<1>2. PICK X : X = [instrument : Instruments, score : {"entry", "hold", "exit"}, risk : {"low", "high"}]
  OBVIOUS
<1>3. s \in Seq(X) /\ \A x \in X : x.instrument \in Instruments
  BY <1>1, <1>2
<1>4. DOMAIN s = 1 .. Len(s) /\ Len(s) \in Nat /\ \A n \in DOMAIN s : s[n] \in X
  BY <1>3
<1> QED BY <1>1, <1>3, <1>4

LEMMA EntryPass ==
    ASSUME NEW r, NEW held, PlanInv(r, held), NoneYet(r, "entry_signal"),
           \A level \in Levels : Below(r, level),
           NEW c, c = EntrySignals(r)
    PROVE  PlanDone(r, c, held)
<1>1. PICK s, N : s = r.signals /\ N = Len(s)
  OBVIOUS
<1>2. r \in Plans /\ s \in Signals
  BY <1>1, PlanFields DEF PlanInv, PlanFine
<1>3. /\ s \in Seq([instrument : Instruments, score : {"entry", "hold", "exit"}, risk : {"low", "high"}])
      /\ DOMAIN s = 1 .. N /\ N \in Nat
      /\ \A n \in 1 .. N : s[n].instrument \in Instruments
      /\ \A m, n \in 1 .. N : s[m].instrument = s[n].instrument => m = n
  BY <1>1, <1>2, SignalsIs
<1>4. PICK places : places = [m \in 1 .. N |-> m]
  OBVIOUS
<1>5. PICK h : Runs(h, EntryWork, r, places, N) /\ h[N] = c
  <2>1. PICK X : X = [instrument : Instruments, score : {"entry", "hold", "exit"}, risk : {"low", "high"}]
    OBVIOUS
  <2>2. r.signals \in Seq(X) /\ N \in Nat /\ N = Len(r.signals)
    BY <1>1, <1>3, <2>1
  <2>3. \E h : Runs(h, EntryWork, r, places, N) /\ h[N] = EntrySignals(r)
    BY <1>4, <2>2, EntryFold
  <2> QED BY <2>3
<1>6. h[0] = r /\ \A m \in 0 .. N - 1 : h[m + 1] = PlanPurchase(h[m], m + 1)
  <2>1. \A m \in 0 .. N - 1 : h[m + 1] = FoldStep(EntryWork, h[m], m + 1)
    BY <1>3, <1>4, <1>5 DEF Runs
  <2>2. \A d, x : FoldStep(EntryWork, d, x) = PlanPurchase(d, x)
    BY WorkSteps
  <2> QED BY <1>5, <2>1, <2>2 DEF Runs
<1>7. PICK G : G = {m \in 0 .. N : /\ PlanDone(r, h[m], held)
                                   /\ \A n \in 1 .. N : n > m => Unplanned(h[m], s[n].instrument, "entry_signal")}
  OBVIOUS
<1>8. 0 \in G
  <2>1. PlanDone(r, h[0], held)
    BY <1>6 DEF PlanDone, SameTerms
  <2>2. \A n \in 1 .. N : Unplanned(h[0], s[n].instrument, "entry_signal")
    BY <1>3, <1>6 DEF NoneYet
  <2> QED BY <1>3, <1>7, <2>1, <2>2
<1>9. ASSUME NEW m \in 0 .. N - 1, m \in G PROVE m + 1 \in G
  <2>1. PICK d, e, n, i : d = h[m] /\ e = h[m + 1] /\ n = m + 1 /\ i = s[n].instrument
    OBVIOUS
  <2>2. /\ PlanInv(d, held) /\ SameTerms(r, d) /\ \A level \in Levels : Below(d, level)
        /\ \A k \in 1 .. N : k > m => Unplanned(d, s[k].instrument, "entry_signal")
    BY <1>7, <1>9, <2>1 DEF PlanDone
  <2>3. n \in 1 .. N /\ n > m /\ i \in Instruments /\ e = PlanPurchase(d, n) /\ m + 1 \in 0 .. N
    BY <1>3, <1>6, <2>1
  <2>4. PlanFine(d) /\ d.signals = s /\ n \in DOMAIN d.signals /\ i = d.signals[n].instrument
    BY <1>1, <1>3, <2>1, <2>2, <2>3 DEF PlanInv, SameTerms
  <2>5. e = d \/ \E q \in Nat \ {0} : Buys(d, e, i, q)
    BY <2>3, <2>4, PlanPurchaseIs
  <2>6. CASE e = d
    <3>1. PlanDone(r, h[m + 1], held)
      BY <2>1, <2>2, <2>6 DEF PlanDone
    <3>2. ASSUME NEW k \in 1 .. N, k > m + 1 PROVE Unplanned(h[m + 1], s[k].instrument, "entry_signal")
      BY <1>3, <2>1, <2>2, <2>6, <3>2
    <3> QED BY <1>7, <2>3, <3>1, <3>2
  <2>7. ASSUME NEW q \in Nat \ {0}, Buys(d, e, i, q) PROVE m + 1 \in G
    <3>1. /\ PlanInv(e, held) /\ SameTerms(d, e) /\ \A level \in Levels : Below(e, level)
          /\ \A j \in Instruments \ {i} : Unplanned(d, j, "entry_signal") => Unplanned(e, j, "entry_signal")
      <4>1. Unplanned(d, i, "entry_signal")
        BY <2>1, <2>2, <2>3
      <4> QED BY <2>2, <2>3, <2>7, <4>1, BuyKeeps
    <3>2. PlanDone(r, e, held)
      BY <2>2, <3>1 DEF PlanDone, SameTerms
    <3>3. ASSUME NEW k \in 1 .. N, k > m + 1 PROVE Unplanned(e, s[k].instrument, "entry_signal")
      <4>1. s[k].instrument \in Instruments \ {i} /\ k > m
        BY <1>3, <2>1, <2>3, <3>3
      <4> QED BY <2>2, <3>1, <4>1
    <3> QED BY <1>7, <2>1, <2>3, <3>2, <3>3
  <2> QED BY <2>5, <2>6, <2>7
<1>10. N \in G
  BY <1>3, <1>8, <1>9, CountingUp
<1> QED BY <1>5, <1>7, <1>10

(* BuildRebalance, of an account nothing is reserved of.                   *)
PlanningFine(positions, cash, prices, nav, peak, signals) ==
    /\ positions \in Positions /\ cash \in Nat /\ prices \in [Instruments -> Nat]
    /\ nav \in Nat /\ peak \in Nat /\ signals \in Signals
    /\ \A i \in Instruments : positions[i].reserved = 0 /\ (positions[i].quantity > 0 => prices[i] > 0)

LEMMA RebalanceIs ==
    ASSUME NEW positions, NEW cash, NEW prices, NEW nav, NEW peak, NEW signals,
           PlanningFine(positions, cash, prices, nav, peak, signals),
           NEW c, c = BuildRebalance(positions, cash, prices, nav, peak, signals)
    PROVE  /\ PlanInv(c, positions) /\ c.prices = prices /\ c.nav = nav
           /\ \A level \in Levels : Below(c, level)
<1>1. PICK r : r = [positions |-> positions, cash |-> cash, prices |-> prices, nav |-> nav,
                    peak |-> peak, signals |-> signals, traded |-> 0, orders |-> <<>>, blocked |-> {}]
  OBVIOUS
<1>2. r \in Plans /\ r.orders = <<>> /\ r.traded = 0 /\ r.positions = positions
      /\ r.prices = prices /\ r.nav = nav
  BY <1>1 DEF Plans, PlanningFine
<1>3. DOMAIN r.orders = {}
  BY <1>2
<1>4. \A i \in Instruments : Held(r, i) = positions[i].quantity /\ positions[i].quantity \in Nat
  BY <1>2 DEF Held, Positions, PlanningFine
<1>5. PlanFine(r)
  BY <1>2, <1>3, <1>4 DEF PlanFine, OrdersApart, PlanningFine
<1>6. /\ SumOver(GrossOf(r.prices, r.orders)) = 0
      /\ SumOver(OrdinaryOf(r.prices, r.orders)) = 0
      /\ \A i \in Instruments : SumOver(ChangeOf(r.orders, i)) = 0
  <2>1. /\ DOMAIN GrossOf(r.prices, r.orders) = {} /\ DOMAIN OrdinaryOf(r.prices, r.orders) = {}
        /\ \A i \in Instruments : DOMAIN ChangeOf(r.orders, i) = {}
    BY <1>3 DEF GrossOf, OrdinaryOf, ChangeOf
  <2> QED BY <2>1, SumEmpty DEF SumOver
<1>7. MoneyLimit(r.nav, Policy.turnover) \in Nat
  BY <1>2, PlanFields, PolicyFields
<1>8. PlanInv(r, positions)
  BY <1>2, <1>3, <1>4, <1>5, <1>6, <1>7 DEF PlanInv, PlanningFine
<1>9. StartOf(r, positions)
  BY <1>2, <1>4, <1>8 DEF StartOf
<1>10. PICK s : s = Sales(r)
  OBVIOUS
<1>11. SoldDown(r, s, positions)
  BY <1>9, <1>10, SalesPass
<1>12. c = EntrySignals(s)
  BY <1>1, <1>10 DEF BuildRebalance
<1>13. PlanDone(s, c, positions)
  BY <1>11, <1>12, EntryPass DEF SoldDown
<1> QED BY <1>2, <1>11, <1>13 DEF SoldDown, PlanDone, SameTerms

-------------------------------------------------------------------------------
(* Reconciling.  What a book goes through by time t while actions of A are *)
(* applied: no trade is written and no order ends but by cancellation.     *)
SoundBook(b) == ReplayBook(b) /\ BookInv(Core(b))
RowsAdded(b, c, t, A) ==
    /\ b.ledger \subseteq c.ledger
    /\ \A e \in c.ledger \ b.ledger : e.kind \notin FillKinds /\ e.at <= t /\ (e.kind = "split" => e.of \in A)
Cancelling(x, y) == y = x \/ (IsLive(x) /\ y = Closed(x, "cancelled"))
CancelOnly(b, c) == \A o \in OrderIds : Cancelling(b.orders[o], c.orders[o])
Carried(b, c, t, A) ==
    /\ SoundBook(c)
    /\ c.fills = b.fills /\ c.peak = b.peak /\ c.automatic = b.automatic /\ (b.broken => c.broken)
    /\ RowsAdded(b, c, t, A) /\ CancelOnly(b, c)
    /\ \A a \in Actions : Recorded(b, a) => Recorded(c, a)

LEMMA SoundFields ==
    ASSUME NEW b, SoundBook(b)
    PROVE  /\ ReplayBook(b) /\ BookInv(Core(b)) /\ BookTypes(Core(b))
           /\ b.balances \in Balances /\ b.positions \in Positions
           /\ b.orders \in [OrderIds -> OrderRows] /\ b.ledger \in SUBSET LedgerRows
           /\ b.recorded \in [Actions -> Editions] /\ IsFiniteSet(b.ledger)
           /\ \A o \in OrderIds : b.orders[o] \in OrderRows /\ OrderFine(b.orders[o])
           /\ \A e \in b.ledger : e \in LedgerRows /\ RowFine(Core(b), e)
<1>1. BookInv(Core(b)) /\ BookTypes(Core(b))
  BY DEF SoundBook, BookInv
<1> QED BY <1>1, CoreFields, BookFields DEF SoundBook

LEMMA CancellingTwice ==
    ASSUME NEW b, NEW m, NEW c, SoundBook(b), CancelOnly(b, m), CancelOnly(m, c)
    PROVE  CancelOnly(b, c)
<1>1. ASSUME NEW o \in OrderIds PROVE Cancelling(b.orders[o], c.orders[o])
  <2>1. PICK x, y, z : x = b.orders[o] /\ y = m.orders[o] /\ z = c.orders[o]
    OBVIOUS
  <2>2. Cancelling(x, y) /\ Cancelling(y, z) /\ x \in OrderRows
    BY <2>1, SoundFields DEF CancelOnly
  <2>3. "cancelled" \in OrderStates \ LiveStates
    BY DEF OrderStates, LiveStates
  <2>4. y = Closed(x, "cancelled") => ~IsLive(y)
    BY <2>2, <2>3, ClosedFields DEF IsLive
  <2>5. Cancelling(x, z)
    BY <2>2, <2>4 DEF Cancelling
  <2> QED BY <2>1, <2>5
<1> QED BY <1>1 DEF CancelOnly

LEMMA CarriedTwice ==
    ASSUME NEW b, NEW m, NEW c, NEW t, NEW A, SoundBook(b), Carried(b, m, t, A), Carried(m, c, t, A)
    PROVE  Carried(b, c, t, A)
<1>1. CancelOnly(b, c)
  BY CancellingTwice DEF Carried
<1>2. RowsAdded(b, c, t, A)
  BY DEF Carried, RowsAdded
<1> QED BY <1>1, <1>2 DEF Carried

LEMMA CarriedNot ==
    ASSUME NEW b, NEW t, NEW A, SoundBook(b)
    PROVE  Carried(b, b, t, A)
BY DEF Carried, RowsAdded, CancelOnly, Cancelling

LEMMA CarriedBroken ==
    ASSUME NEW b, NEW t, NEW A, SoundBook(b), NEW c, c = Break(b)
    PROVE  Carried(b, c, t, A) /\ c.broken
<1>1. /\ Core(c) = Core(b) /\ ReplayBook(c) /\ c.broken
      /\ c.fills = b.fills /\ c.peak = b.peak /\ c.automatic = b.automatic
      /\ c.orders = b.orders /\ c.ledger = b.ledger /\ c.recorded = b.recorded
  BY BreakCore DEF SoundBook
<1> QED BY <1>1 DEF Carried, RowsAdded, CancelOnly, Cancelling, SoundBook, Recorded

LEMMA CarriedSettling ==
    ASSUME NEW b, SoundBook(b), NEW t \in Nat, NEW A, NEW c, c = Settle(b, t)
    PROVE  Carried(b, c, t, A) /\ c.broken = b.broken
<1>1. ReplayBook(b) /\ BookInv(Core(b)) /\ BookTypes(Core(b))
  BY SoundFields
<1>2. Core(c) = Settle(Core(b), t) /\ ReplayBook(c) /\ Beside(b, c)
  BY <1>1, SettleCore
<1>3. SoundBook(c)
  BY <1>1, <1>2, SettleKeeps DEF SoundBook
<1>4. PICK D, N : Settling(Core(b), Core(c), D, N)
  BY <1>1, <1>2, SettleFields
<1>5. /\ N = RowsOfSettlement(D) /\ c.ledger = b.ledger \cup N /\ c.orders = b.orders
      /\ c.recorded = b.recorded
  BY <1>4, CoreFields DEF Settling
<1>6. \A e \in N : e.kind \notin FillKinds /\ e.at <= t /\ e.kind # "split"
  BY <1>5 DEF RowsOfSettlement, SettleRow, Row, FillKinds
<1>7. RowsAdded(b, c, t, A)
  BY <1>5, <1>6 DEF RowsAdded
<1> QED BY <1>2, <1>3, <1>5, <1>7 DEF Carried, CancelOnly, Cancelling, Recorded, Beside

LEMMA CarriedApplying ==
    ASSUME NEW b, SoundBook(b), NEW t \in Nat, NEW A, NEW a \in Actions, a \in A, EffectiveAt[a] <= t,
           ~Recorded(b, a), SplitFits(b, a), NEW c, c = ApplyCorporateAction(b, a, "complete")
    PROVE  Carried(b, c, t, A) /\ c.broken = b.broken /\ Recorded(c, a)
<1>1. ReplayBook(b) /\ BookInv(Core(b)) /\ BookTypes(Core(b)) /\ b.recorded \in [Actions -> Editions]
  BY SoundFields
<1>2. Core(c) = ApplyCorporateAction(Core(b), a, "complete") /\ ReplayBook(c) /\ Beside(b, c)
  BY <1>1, ApplyCorporateActionCore
<1>3. SoundBook(c)
  <2>1. ~Recorded(Core(b), a) /\ "complete" \in Editions \ {"none"}
    BY CoreFields DEF Editions
  <2>2. SplitFits(Core(b), a)
    BY CoreFields DEF SplitFits
  <2> QED BY <1>1, <1>2, <2>1, <2>2, ApplyKeeps DEF SoundBook
<1>4. PICK r, x, w, gained, cost : Applying(Core(b), Core(c), a, "complete", r, x, w, gained, cost)
  BY <1>1, <1>2, ApplyFields
<1>5. /\ r = Row(IF Split(a) THEN "split" ELSE "dividend_accrual", a, Delta(x, 0, 0, w), Security[a], gained,
                 EffectiveAt[a])
      /\ c.ledger = b.ledger \cup {r} /\ c.orders = b.orders
      /\ c.recorded = [b.recorded EXCEPT ![a] = "complete"]
  BY <1>4, CoreFields DEF Applying
<1>6. r.kind \notin FillKinds /\ r.at <= t /\ r.of \in A
  BY <1>5 DEF Row, FillKinds
<1>7. RowsAdded(b, c, t, A)
  BY <1>5, <1>6 DEF RowsAdded
<1>8. Recorded(c, a) /\ \A k \in Actions : Recorded(b, k) => Recorded(c, k)
  BY <1>1, <1>5 DEF Recorded
<1> QED BY <1>2, <1>3, <1>5, <1>7, <1>8 DEF Carried, CancelOnly, Cancelling, Beside

LEMMA CarriedPaying ==
    ASSUME NEW b, SoundBook(b), NEW t \in Nat, NEW A, NEW a \in Actions, NEW c, c = PayWhenDue(b, a, t)
    PROVE  Carried(b, c, t, A) /\ c.broken = b.broken
<1>1. ReplayBook(b) /\ BookInv(Core(b)) /\ BookTypes(Core(b))
  BY SoundFields
<1>2. CASE ~PaymentDue(b, a, t)
  BY <1>2, CarriedNot DEF PayWhenDue
<1>3. CASE PaymentDue(b, a, t)
  <2>1. /\ c = PayDividend(b, a) /\ Kind[a] = "dividend" /\ Recorded(Core(b), a)
        /\ ~\E e \in Core(b).ledger : e.kind = "dividend_payment" /\ e.of = a
    BY <1>3, CoreFields DEF PayWhenDue, PaymentDue
  <2>2. Core(c) = PayDividend(Core(b), a) /\ ReplayBook(c) /\ Beside(b, c)
    BY <1>1, <2>1, PayDividendCore
  <2>3. SoundBook(c)
    BY <1>1, <2>1, <2>2, PayKeeps DEF SoundBook
  <2>4. PICK e, r : Paying(Core(b), Core(c), a, e, r)
    BY <1>1, <2>1, <2>2, PayFields
  <2>5. /\ \E d : r = Row("dividend_payment", a, d, Security[a], 0, 0)
        /\ c.ledger = b.ledger \cup {r} /\ c.orders = b.orders /\ c.recorded = b.recorded
    BY <2>4, CoreFields DEF Paying
  <2>6. r.kind \notin FillKinds /\ r.at <= t /\ r.kind # "split"
    BY <2>5 DEF Row, FillKinds
  <2>7. RowsAdded(b, c, t, A)
    BY <2>5, <2>6 DEF RowsAdded
  <2> QED BY <2>2, <2>3, <2>5, <2>7 DEF Carried, CancelOnly, Cancelling, Recorded, Beside
<1> QED BY <1>2, <1>3

LEMMA CarriedCancelling ==
    ASSUME NEW b, SoundBook(b), NEW t \in Nat, NEW A, NEW a \in Actions, NEW c, c = CancelAtSplit(b, a)
    PROVE  /\ Carried(b, c, t, A) /\ c.broken = b.broken /\ c.recorded = b.recorded
           /\ \A e \in c.ledger \ b.ledger : e.kind \notin FillKinds /\ e.kind # "split"
<1>1. ReplayBook(b) /\ BookInv(Core(b)) /\ BookTypes(Core(b)) /\ b.orders \in [OrderIds -> OrderRows]
  BY SoundFields
<1>2. CASE ~(Split(a) /\ ~Recorded(b, a))
  BY <1>2, CarriedNot DEF CancelAtSplit
<1>3. CASE Split(a) /\ ~Recorded(b, a)
  <2>1. PICK S : S = {o \in Active(b) : /\ b.orders[o].instrument = Security[a]
                                        /\ EffectiveAt[a] <= OpenAt(b.orders[o].session)}
    OBVIOUS
  <2>2. /\ c = Release(b, S, "cancelled") /\ S \in SUBSET OrderIds
        /\ \A o \in S : b.orders[o].state \in LiveStates
    BY <1>3, <2>1 DEF CancelAtSplit, Active, LiveStates
  <2>3. Core(c) = Release(Core(b), S, "cancelled") /\ ReplayBook(c) /\ Beside(b, c)
    BY <1>1, <2>2, ReleaseCore
  <2>4. SoundBook(c)
    BY <1>1, <2>2, <2>3, CoreFields, ReleaseKeeps DEF SoundBook
  <2>5. PICK N, freed, shares : Released(Core(b), S, "cancelled", Core(c), N, freed, shares)
    BY <1>1, <2>2, <2>3, ReleaseFields
  <2>6. /\ N = RowsOfRelease(Core(b), S)
        /\ c.orders = [o \in OrderIds |-> IF o \in S THEN Closed(b.orders[o], "cancelled") ELSE b.orders[o]]
        /\ c.ledger = b.ledger \cup N /\ c.recorded = b.recorded
    <3>1. /\ Core(c).orders = [o \in OrderIds |-> IF o \in S THEN Closed(Core(b).orders[o], "cancelled")
                                                            ELSE Core(b).orders[o]]
          /\ Core(c).ledger = Core(b).ledger \cup N /\ Core(c).recorded = Core(b).recorded
          /\ N = RowsOfRelease(Core(b), S)
      BY <1>1, <2>5 DEF Released, Core
    <3> QED BY <3>1, CoreFields
  <2>7. \A e \in N : e.kind \notin FillKinds /\ e.at <= t /\ e.kind # "split"
    BY <2>6 DEF RowsOfRelease, ReleaseRow, Row, FillKinds
  <2>8. RowsAdded(b, c, t, A)
    BY <2>6, <2>7 DEF RowsAdded
  <2>9. CancelOnly(b, c)
    BY <2>2, <2>6 DEF CancelOnly, Cancelling, IsLive
  <2> QED BY <2>3, <2>4, <2>6, <2>7, <2>8, <2>9 DEF Carried, Recorded, Beside
<1> QED BY <1>2, <1>3

(* A split is applied before anything is traded after it.                  *)
RowsBefore(b, a) ==
    ~b.broken /\ Split(a) /\ ~Recorded(b, a) =>
        \A r \in b.ledger : r.instrument = Security[a] =>
            /\ r.kind \in FillKinds => r.at < EffectiveAt[a]
            /\ r.kind = "split" => r.at <= EffectiveAt[a]

LEMMA CarriedAction ==
    ASSUME NEW b, SoundBook(b), NEW t \in Nat, NEW A, NEW a \in Actions, a \in A, EffectiveAt[a] <= t,
           RowsBefore(b, a), NEW c, c = ReconcileAction(b, a, t)
    PROVE  Carried(b, c, t, A) /\ (~c.broken => Recorded(c, a))
<1>1. CASE b.broken \/ Indivisible(b, a)
  BY <1>1, CarriedBroken DEF ReconcileAction
<1>2. CASE ~(b.broken \/ Indivisible(b, a))
  <2>1. PICK d, e : d = CancelAtSplit(b, a) /\ e = ApplyOnce(d, a)
    OBVIOUS
  <2>2. c = PayWhenDue(e, a, t)
    BY <1>2, <2>1 DEF ReconcileAction
  <2>3. /\ Carried(b, d, t, A) /\ d.broken = b.broken /\ d.recorded = b.recorded
        /\ \A r \in d.ledger \ b.ledger : r.kind \notin FillKinds /\ r.kind # "split"
    BY <2>1, CarriedCancelling
  <2>4. SoundBook(d) /\ (Recorded(d, a) <=> Recorded(b, a))
    BY <2>3 DEF Carried, Recorded
  <2>5. Carried(d, e, t, A) /\ e.broken = d.broken /\ Recorded(e, a)
    <3>1. CASE Recorded(d, a)
      BY <2>1, <2>4, <3>1, CarriedNot DEF ApplyOnce
    <3>2. CASE ~Recorded(d, a)
      <4>1. e = ApplyCorporateAction(d, a, "complete")
        BY <2>1, <3>2 DEF ApplyOnce
      <4>2. ASSUME Split(a) PROVE d.positions[Security[a]].reserved = 0
        BY <1>2, <2>1, <2>4, <3>2, <4>2 DEF Indivisible
      <4>3. ASSUME Split(a), NEW r \in d.ledger, r.instrument = Security[a]
            PROVE  (r.kind \in FillKinds => r.at < EffectiveAt[a]) /\ (r.kind = "split" => r.at <= EffectiveAt[a])
        BY <1>2, <2>3, <2>4, <3>2, <4>3 DEF RowsBefore
      <4>4. SplitFits(d, a)
        BY <4>2, <4>3 DEF SplitFits
      <4> QED BY <2>4, <3>2, <4>1, <4>4, CarriedApplying
    <3> QED BY <3>1, <3>2
  <2>6. SoundBook(e)
    BY <2>5 DEF Carried
  <2>7. Carried(e, c, t, A) /\ c.broken = e.broken
    BY <2>2, <2>6, CarriedPaying
  <2>8. Carried(d, c, t, A)
    BY <2>4, <2>5, <2>7, CarriedTwice
  <2>9. Carried(b, c, t, A)
    BY <2>3, <2>8, CarriedTwice
  <2> QED BY <2>5, <2>7, <2>9 DEF Carried
<1> QED BY <1>1, <1>2

(* The actions a reconciliation at t must have applied.                    *)
Timely(s, S, t) == {a \in Actions : s.history[a] = "timely" /\ Security[a] \in S /\ EffectiveAt[a] <= t}
Caught(s, b, S, t) == ~b.broken => \A a \in Timely(s, S, t) : Recorded(b, a)

LEMMA Ordered ==
    /\ DOMAIN ActionOrder = 1 .. Len(ActionOrder) /\ Len(ActionOrder) \in Nat
    /\ \A n \in 1 .. Len(ActionOrder) : ActionOrder[n] \in Actions
    /\ \A a \in Actions : \E n \in 1 .. Len(ActionOrder) : ActionOrder[n] = a
    /\ \A m, n \in 1 .. Len(ActionOrder) :
          m < n => EffectiveAt[ActionOrder[m]] <= EffectiveAt[ActionOrder[n]]
<1>1. /\ DOMAIN ActionOrder = 1 .. Len(ActionOrder) /\ Len(ActionOrder) \in Nat
      /\ \A n \in 1 .. Len(ActionOrder) : ActionOrder[n] \in Actions
  BY BacktestAssumption
<1>2. \A a \in Actions : \E n \in 1 .. Len(ActionOrder) : ActionOrder[n] = a
  BY <1>1, BacktestAssumption DEF Seqs!ToSet
<1>3. \A a \in Actions : EffectiveAt[a] \in Int
  BY ActionAssumption, BookAssumption DEF CloseAt
<1>4. ASSUME NEW m \in 1 .. Len(ActionOrder), NEW n \in 1 .. Len(ActionOrder), m < n
      PROVE  EffectiveAt[ActionOrder[m]] <= EffectiveAt[ActionOrder[n]]
  <2>1. ~Sooner(ActionOrder[n], ActionOrder[m])
    BY <1>1, <1>4, BacktestAssumption
  <2> QED BY <1>1, <1>3, <2>1 DEF Sooner
<1> QED BY <1>1, <1>2, <1>4

LEMMA ActionTimes ==
    ASSUME NEW a \in Actions
    PROVE  EffectiveAt[a] \in Nat /\ Security[a] \in Instruments /\ Kind[a] \in {"split", "dividend"}
BY ActionAssumption, BookAssumption DEF CloseAt

LEMMA ReconcileKeeps ==
    ASSUME NEW s, s.history \in [Actions -> Histories], NEW b, SoundBook(b), NEW u \in Nat, NEW t \in Nat, u <= t,
           Past(b, u), NEW S, Caught(s, b, S, u), NEW asOf, NEW c, c = Reconcile(s, b, t, asOf, S)
    PROVE  Carried(b, c, t, Actions) /\ Past(c, t) /\ Caught(s, c, S, t)
<1>1. PICK seen : seen = ActionsBy(s, t, asOf, S)
  OBVIOUS
<1>2. Past(b, t)
  <2>1. \A e \in b.ledger : e.at \in Nat
    <3>1. \A e \in b.ledger : e.at \in Times
      BY SoundFields, RowFields
    <3> QED BY <3>1 DEF Times
  <2> QED BY <2>1 DEF Past
<1>p. ASSUME NEW d, Carried(b, d, t, Actions) PROVE Past(d, t)
  BY <1>2, <1>p DEF Carried, RowsAdded, Past
<1>3. CASE b.broken \/ KeyRepeated(b) \/ \E a \in seen : s.history[a] = "late"
  <2>1. c = Break(b)
    BY <1>1, <1>3 DEF Reconcile
  <2> QED BY <1>p, <2>1, CarriedBroken DEF Caught
<1>4. CASE ~(b.broken \/ KeyRepeated(b) \/ \E a \in seen : s.history[a] = "late")
  <2>1. c = ReconcileActions(b, t, seen)
    BY <1>1, <1>4 DEF Reconcile
  <2>2. /\ seen \in SUBSET Actions /\ Timely(s, S, t) \subseteq seen
        /\ \A a \in seen : EffectiveAt[a] <= t /\ a \in Timely(s, S, t)
    BY <1>1, <1>4 DEF ActionsBy, Timely, Histories
  <2>3. PICK N : N = Len(ActionOrder)
    OBVIOUS
  <2>4. /\ N \in Nat /\ \A n \in 1 .. N : ActionOrder[n] \in Actions
        /\ \A a \in Actions : \E n \in 1 .. N : ActionOrder[n] = a
        /\ \A m, n \in 1 .. N : m < n => EffectiveAt[ActionOrder[m]] <= EffectiveAt[ActionOrder[n]]
    BY <2>3, Ordered
  <2>5. PICK h : Runs(h, ActionWork(t, seen), Settle(b, t), ActionOrder, N) /\ h[N] = c
    BY <2>1, <2>3, <2>4, ActionFold
  <2>6. h[0] = Settle(b, t) /\ \A m \in 0 .. N - 1 : h[m + 1] = ReconcileIfSeen(h[m], ActionOrder[m + 1], t, seen)
    <3>1. \A d, a : FoldStep(ActionWork(t, seen), d, a) = ReconcileIfSeen(d, a, t, seen)
      BY WorkSteps
    <3> QED BY <2>5, <3>1 DEF Runs
  <2>7. PICK A : A = [m \in 0 .. N |-> {ActionOrder[n] : n \in 1 .. m}]
    OBVIOUS
  <2>8. PICK G : G = {m \in 0 .. N : /\ Carried(b, h[m], t, A[m])
                                     /\ ~h[m].broken => \A n \in 1 .. m : ActionOrder[n] \in seen
                                                                          => Recorded(h[m], ActionOrder[n])}
    OBVIOUS
  <2>9. 0 \in G
    <3>1. Carried(b, h[0], t, A[0])
      BY <2>6, CarriedSettling
    <3> QED BY <2>4, <2>8, <3>1
  <2>10. ASSUME NEW m \in 0 .. N - 1, m \in G PROVE m + 1 \in G
    <3>1. PICK d, e, a : d = h[m] /\ e = h[m + 1] /\ a = ActionOrder[m + 1]
      OBVIOUS
    <3>2. /\ m \in 0 .. N /\ m + 1 \in 0 .. N /\ m + 1 \in 1 .. N /\ a \in Actions
          /\ A[m] \subseteq A[m + 1] /\ a \in A[m + 1]
          /\ \A x \in A[m] : \E n \in 1 .. m : x = ActionOrder[n]
          /\ \A n \in 1 .. m : ActionOrder[n] \in Actions
      BY <2>4, <2>7, <3>1
    <3>3. /\ Carried(b, d, t, A[m]) /\ SoundBook(d) /\ e = ReconcileIfSeen(d, a, t, seen)
          /\ ~d.broken => \A n \in 1 .. m : ActionOrder[n] \in seen => Recorded(d, ActionOrder[n])
      BY <2>6, <2>8, <2>10, <3>1 DEF Carried
    <3>4. Carried(b, d, t, A[m + 1])
      BY <3>2, <3>3 DEF Carried, RowsAdded
    <3>5. CASE a \notin seen
      <4>1. e = d
        BY <3>3, <3>5 DEF ReconcileIfSeen
      <4>2. ~d.broken => \A n \in 1 .. m + 1 : ActionOrder[n] \in seen => Recorded(d, ActionOrder[n])
        BY <3>1, <3>3, <3>5
      <4> QED BY <2>8, <3>1, <3>2, <3>4, <4>1, <4>2
    <3>6. CASE a \in seen
      <4>1. e = ReconcileAction(d, a, t) /\ EffectiveAt[a] <= t /\ EffectiveAt[a] \in Nat
        BY <2>2, <3>2, <3>3, <3>6, ActionTimes DEF ReconcileIfSeen
      <4>2. RowsBefore(d, a)
        <5>1. SUFFICES ASSUME ~d.broken, Split(a), ~Recorded(d, a), NEW r \in d.ledger, r.instrument = Security[a]
                       PROVE  /\ r.kind \in FillKinds => r.at < EffectiveAt[a]
                              /\ r.kind = "split" => r.at <= EffectiveAt[a]
          BY DEF RowsBefore
        <5>2. ~Recorded(b, a) /\ ~b.broken
          BY <3>2, <3>3, <5>1 DEF Carried
        <5>3. EffectiveAt[a] > u
          <6>1. a \notin Timely(s, S, u)
            BY <5>2 DEF Caught
          <6>2. s.history[a] = "timely" /\ Security[a] \in S
            BY <2>2, <3>6 DEF Timely
          <6> QED BY <3>2, <4>1, <6>1, <6>2 DEF Timely
        <5>4. r \in LedgerRows /\ r.at \in Nat /\ RowFine(Core(d), r)
          <6>1. r \in LedgerRows /\ RowFine(Core(d), r)
            BY <3>3, <5>1, SoundFields
          <6>2. r.at \in Times
            BY <6>1, RowFields
          <6> QED BY <6>1, <6>2 DEF Times
        <5>5. CASE r \in b.ledger
          BY <4>1, <5>3, <5>4, <5>5 DEF Past
        <5>6. CASE r \notin b.ledger
          <6>1. r.kind \notin FillKinds /\ (r.kind = "split" => r.of \in A[m])
            BY <3>3, <5>1, <5>6 DEF Carried, RowsAdded
          <6>2. ASSUME r.kind = "split" PROVE r.at <= EffectiveAt[a]
            <7>1. PICK n \in 1 .. m : r.of = ActionOrder[n]
              BY <3>2, <6>1, <6>2
            <7>2. n \in 1 .. N /\ n < m + 1
              BY <2>4
            <7>3. EffectiveAt[ActionOrder[n]] <= EffectiveAt[ActionOrder[m + 1]]
              BY <2>4, <3>2, <7>2
            <7>4. r.at = EffectiveAt[r.of]
              BY <5>4, <6>2 DEF RowFine
            <7> QED BY <3>1, <7>1, <7>3, <7>4
          <6> QED BY <6>1, <6>2
        <5> QED BY <5>5, <5>6
      <4>3. Carried(d, e, t, A[m + 1]) /\ (~e.broken => Recorded(e, a))
        BY <3>2, <3>3, <4>1, <4>2, CarriedAction
      <4>4. Carried(b, e, t, A[m + 1])
        BY <3>4, <4>3, CarriedTwice
      <4>5. ASSUME ~e.broken, NEW n \in 1 .. m + 1, ActionOrder[n] \in seen PROVE Recorded(e, ActionOrder[n])
        <5>1. CASE n = m + 1
          BY <3>1, <4>3, <4>5, <5>1
        <5>2. CASE n \in 1 .. m
          BY <3>2, <3>3, <4>3, <4>5, <5>2 DEF Carried
        <5> QED BY <4>5, <5>1, <5>2
      <4> QED BY <2>8, <3>1, <3>2, <4>4, <4>5
    <3> QED BY <3>5, <3>6
  <2>11. N \in G
    BY <2>4, <2>9, <2>10, CountingUp
  <2>12. Carried(b, c, t, A[N]) /\ (~c.broken => \A n \in 1 .. N : ActionOrder[n] \in seen => Recorded(c, ActionOrder[n]))
    BY <2>5, <2>8, <2>11
  <2>13. Carried(b, c, t, Actions)
    <3>1. A[N] \subseteq Actions
      BY <2>4, <2>7
    <3> QED BY <2>12, <3>1 DEF Carried, RowsAdded
  <2>14. Caught(s, c, S, t)
    <3>1. SUFFICES ASSUME ~c.broken, NEW a \in Timely(s, S, t) PROVE Recorded(c, a)
      BY DEF Caught
    <3>2. PICK n \in 1 .. N : ActionOrder[n] = a
      BY <2>4 DEF Timely
    <3> QED BY <2>2, <2>12, <3>1, <3>2
  <2> QED BY <1>p, <2>13, <2>14
<1> QED BY <1>3, <1>4

-------------------------------------------------------------------------------
(* An order is of its session, its instrument and its side; and none is    *)
(* there yet from a session on.                                            *)
OwnOrder(x, o) ==
    x.state # "none" =>
        x.session = o[1] /\ x.instrument = o[2] /\ x.side = IF Sale(o) THEN "sell" ELSE "buy"
OrdersOwn(b) == \A o \in OrderIds : OwnOrder(b.orders[o], o)
NoneFrom(b, k) == \A o \in OrderIds : o[1] >= k => b.orders[o].state = "none"

LEMMA CarriedOrders ==
    ASSUME NEW b, SoundBook(b), OrdersOwn(b), NEW c, CancelOnly(b, c)
    PROVE  /\ OrdersOwn(c) /\ Active(c) \subseteq Active(b)
           /\ \A k : NoneFrom(b, k) => NoneFrom(c, k)
           /\ \A o \in Active(c) : c.orders[o] = b.orders[o]
<1>1. ASSUME NEW o \in OrderIds
      PROVE  /\ OwnOrder(c.orders[o], o)
             /\ b.orders[o].state = "none" => c.orders[o].state = "none"
             /\ IsLive(c.orders[o]) => c.orders[o] = b.orders[o]
  <2>1. PICK x, y : x = b.orders[o] /\ y = c.orders[o]
    OBVIOUS
  <2>2. Cancelling(x, y) /\ x \in OrderRows /\ OwnOrder(x, o)
    BY <2>1, SoundFields DEF CancelOnly, OrdersOwn
  <2>3. CASE y = x
    BY <2>1, <2>2, <2>3
  <2>4. CASE IsLive(x) /\ y = Closed(x, "cancelled")
    <3>1. "cancelled" \in OrderStates \ LiveStates /\ x.state # "none"
      BY <2>4 DEF OrderStates, LiveStates, IsLive
    <3>2. /\ y.state = "cancelled" /\ y.instrument = x.instrument /\ y.session = x.session
          /\ y.side = x.side
      BY <2>2, <2>4, <3>1, ClosedFields
    <3> QED BY <2>1, <2>2, <3>1, <3>2 DEF OwnOrder, IsLive
  <2> QED BY <2>2, <2>3, <2>4 DEF Cancelling
<1> QED BY <1>1 DEF OrdersOwn, NoneFrom, Active, IsLive, LiveStates

LEMMA ReasonsArePasses ==
    /\ Seqs!ToSet(Passes) = Reasons
    /\ \A k \in Window, i \in Instruments, e \in Reasons : <<k, i, e>> \in OrderIds
    /\ \A o \in OrderIds : /\ o[1] \in Window /\ o[2] \in Instruments /\ o[3] \in Reasons
                           /\ o = <<o[1], o[2], o[3]>>
    /\ \A o \in OrderIds : o[1] \in Nat \ {0} /\ o[1] \in Sessions /\ OpenAt(o[1]) \in Times
    /\ Last \in Nat /\ Last > 1 /\ Horizon = CloseAt(Last)
<1>1. Seqs!ToSet(Passes) = Reasons
  BY DEF Passes, Reasons, Seqs!ToSet
<1>2. OrderIds = Window \X Instruments \X Reasons
  BY <1>1, BacktestAssumption
<1>3. Last \in Nat /\ Last > 1 /\ Horizon = CloseAt(Last)
  BY BacktestAssumption, BookAssumption
<1>4. \A k \in Window : k \in Nat \ {0} /\ k \in Sessions /\ OpenAt(k) \in Times
  BY <1>3 DEF Window, Sessions, Times, OpenAt, CloseAt
<1> QED BY <1>1, <1>2, <1>3, <1>4

(* The frozen data.                                                        *)
Frozen(s) == s.days \in Pasts /\ s.history \in [Actions -> Histories]

LEMMA FrozenFields ==
    ASSUME NEW s, Frozen(s), NEW k \in {0} \cup Window
    PROVE  /\ s.days[k].signals \in Signals
           /\ \A i \in Instruments : s.days[k].bars[i] # None =>
                 /\ s.days[k].bars[i].open \in Nat \ {0} /\ s.days[k].bars[i].close \in Nat \ {0}
           /\ \A t : Closes(s, k, t) \in [Instruments -> Nat]
           /\ \A i \in Instruments : \A t : Close(s, k, i, t) \in Nat
<1>1. s.days[k].bars \in [Instruments -> Bars \cup {None}] /\ s.days[k].signals \in Signals
  BY BacktestAssumption DEF Frozen
<1>2. ASSUME NEW i \in Instruments, s.days[k].bars[i] # None
      PROVE  s.days[k].bars[i].open \in Nat \ {0} /\ s.days[k].bars[i].close \in Nat \ {0}
  <2>1. s.days[k].bars[i] \in Bars
    BY <1>1, <1>2
  <2> QED BY <2>1 DEF Bars
<1>3. \A i \in Instruments : \A t : Close(s, k, i, t) \in Nat
  BY <1>2 DEF Close, Selected
<1> QED BY <1>1, <1>2, <1>3 DEF Closes

LEMMA NavIs ==
    ASSUME NEW b, SoundBook(b), NEW prices \in [Instruments -> Nat]
    PROVE  /\ NAV(b, prices) \in Nat /\ b.balances.available \in Nat
           /\ NAV(b, prices) = Total(b.balances) + Worth(b.positions, prices, Instruments)
           /\ Total(b.balances) \in Nat /\ Worth(b.positions, prices, Instruments) \in Nat
<1>1. b.balances \in Balances /\ b.positions \in Positions
  BY SoundFields
<1>2. Total(b.balances) \in Nat /\ b.balances.available \in Nat
  BY <1>1 DEF Balances, Total
<1>3. Holding(b) \in SUBSET Instruments
  BY DEF Holding
<1>4. PICK f : f = Values(b.positions, prices)
  OBVIOUS
<1>5. /\ Worth(b.positions, prices, Holding(b)) = SumFunctionOnSet(f, Holding(b))
      /\ Worth(b.positions, prices, Holding(b)) \in Nat
  BY <1>1, <1>3, <1>4, WorthIs
<1>6. /\ Worth(b.positions, prices, Instruments) = SumFunctionOnSet(f, Instruments)
      /\ Worth(b.positions, prices, Instruments) \in Nat /\ IsFiniteSet(Instruments)
      /\ \A i \in Instruments : f[i] \in Nat
  BY <1>1, <1>4, WorthIs
<1>7. \A i \in Instruments \ Holding(b) : f[i] = 0
  BY <1>1, <1>4 DEF Holding, Values, GrossValue, Positions
<1>8. SumFunctionOnSet(f, Instruments) = SumFunctionOnSet(f, Holding(b))
  <2>1. Summable(f, Holding(b)) /\ (\A i \in Holding(b) : f[i] = f[i])
    BY <1>3, <1>6 DEF Summable
  <2> QED BY <1>3, <1>6, <1>7, <2>1, SumFilter
<1> QED BY <1>2, <1>5, <1>6, <1>8 DEF NAV

(* Without open orders nothing is reserved.                                *)
LEMMA IdleReserves ==
    ASSUME NEW b, SoundBook(b), Active(b) = {}
    PROVE  \A i \in Instruments : b.positions[i].reserved = 0
<1>1. \A o \in OrderIds : b.orders[o].shares = 0
  BY SoundFields DEF Active, OrderFine, LiveStates
<1>2. ASSUME NEW i \in Instruments PROVE b.positions[i].reserved = 0
  <2>1. Core(b).positions[i].reserved = SharesSum(Core(b).orders, i)
    BY SoundFields DEF BookInv, Backed
  <2>2. PICK f : f = SharesIn(b.orders, i)
    OBVIOUS
  <2>3. \A o \in OrderIds : f[o] = 0
    BY <1>1, <2>2 DEF SharesIn, SharesOf
  <2>4. SumFunctionOnSet(f, OrderIds) = 0
    BY <2>3, SumZero, BookAssumption
  <2> QED BY <2>1, <2>2, <2>4, CoreFields DEF SharesSum
<1> QED BY <1>2

(* The plan of a session.                                                  *)
Planning(s, b, k) ==
    LET prices == Closes(s, k - 1, CloseAt(k - 1)) IN
    Active(b) = {} /\ Priced(b, prices)

LEMMA RebalancePlans ==
    ASSUME NEW s, Frozen(s), NEW b, SoundBook(b), b.peak \in Nat, NEW k \in Window, Planning(s, b, k),
           NEW prices, prices = Closes(s, k - 1, CloseAt(k - 1)), NEW c, c = Rebalance(s, b, k)
    PROVE  /\ PlanInv(c, b.positions) /\ c.prices = prices /\ c.nav = NAV(b, prices)
           /\ \A level \in Levels : Below(c, level)
<1>1. k - 1 \in {0} \cup Window
  BY BookAssumption DEF Window
<1>2. prices \in [Instruments -> Nat] /\ s.days[k - 1].signals \in Signals
  BY <1>1, FrozenFields
<1>3. /\ b.positions \in Positions /\ NAV(b, prices) \in Nat /\ b.balances.available \in Nat
      /\ \A i \in Instruments : b.positions[i].reserved = 0 /\ (b.positions[i].quantity > 0 => prices[i] > 0)
  BY <1>2, SoundFields, NavIs, IdleReserves DEF Planning, Priced, Holding
<1>4. PlanningFine(b.positions, b.balances.available, prices, NAV(b, prices), b.peak, s.days[k - 1].signals)
  BY <1>2, <1>3 DEF PlanningFine
<1>5. c = BuildRebalance(b.positions, b.balances.available, prices, NAV(b, prices), b.peak,
                         s.days[k - 1].signals)
  BY DEF Rebalance
<1> QED BY <1>4, <1>5, RebalanceIs

(* A step on the order o alone, with rows no later than t.                 *)
Touches(b, c, o, t) ==
    /\ SoundBook(c) /\ OrdersOwn(c)
    /\ c.peak = b.peak /\ c.automatic = b.automatic /\ (b.broken => c.broken) /\ c.recorded = b.recorded
    /\ \A r \in OrderIds \ {o} : c.orders[r] = b.orders[r]
    /\ \A e \in c.ledger \ b.ledger : e.at <= t

LEMMA TouchesNothing ==
    ASSUME NEW b, SoundBook(b), OrdersOwn(b), NEW o, NEW t
    PROVE  Touches(b, b, o, t)
BY DEF Touches

LEMMA TouchesBroken ==
    ASSUME NEW b, SoundBook(b), OrdersOwn(b), NEW o, NEW t, NEW c, c = Break(b)
    PROVE  Touches(b, c, o, t) /\ c.broken /\ c.fills = b.fills /\ c.orders = b.orders
<1>1. ReplayBook(b) /\ BookInv(Core(b))
  BY SoundFields
<1>2. /\ Core(c) = Core(b) /\ ReplayBook(c) /\ c.broken
      /\ c.fills = b.fills /\ c.peak = b.peak /\ c.automatic = b.automatic
      /\ c.orders = b.orders /\ c.ledger = b.ledger /\ c.recorded = b.recorded
  BY <1>1, BreakCore
<1> QED BY <1>1, <1>2 DEF Touches, SoundBook, OrdersOwn

(* Reserving for a new order.                                              *)
LEMMA Reserving ==
    ASSUME NEW b, SoundBook(b), OrdersOwn(b), NEW o \in OrderIds, b.orders[o].state = "none",
           NEW order \in OrderRows, order.state = "pending", OwnOrder(order, o), OrderFine(order),
           CanReserve(b, order), OpensLater(b, order), NEW t \in Nat, NEW c, c = Reserve(b, o, order)
    PROVE  Touches(b, c, o, t) /\ c.fills = b.fills /\ c.broken = b.broken /\ c.orders[o] = order
<1>1. ReplayBook(b) /\ BookInv(Core(b)) /\ b.orders \in [OrderIds -> OrderRows]
  BY SoundFields
<1>2. Core(c) = Reserve(Core(b), o, order) /\ ReplayBook(c) /\ Beside(b, c)
  BY <1>1, ReserveCore
<1>3. order.instrument \in Instruments
  BY ReasonsArePasses DEF OwnOrder
<1>4. SoundBook(c)
  <2>1. Core(b).orders[o].state = "none" /\ CanReserve(Core(b), order) /\ OpensLater(Core(b), order)
    BY CoreFields DEF OpensLater
  <2> QED BY <1>1, <1>2, <1>3, <2>1, ReserveKeeps DEF SoundBook
<1>5. /\ Core(c).orders = [Core(b).orders EXCEPT ![o] = order]
      /\ Core(c).recorded = Core(b).recorded
      /\ \E x : Core(c).ledger = Core(b).ledger \cup {Row("reserve", o, x, order.instrument, 0, 0)}
  BY <1>2 DEF Reserve, Core
<1>6. /\ c.orders = [b.orders EXCEPT ![o] = order] /\ c.recorded = b.recorded
      /\ \E x : c.ledger = b.ledger \cup {Row("reserve", o, x, order.instrument, 0, 0)}
  BY <1>5, CoreFields
<1>7. \A e \in c.ledger \ b.ledger : e.at <= t
  BY <1>6 DEF Row
<1>8. c.orders[o] = order /\ \A r \in OrderIds \ {o} : c.orders[r] = b.orders[r]
  BY <1>1, <1>6
<1>9. OrdersOwn(c)
  BY <1>8 DEF OrdersOwn
<1> QED BY <1>2, <1>4, <1>6, <1>7, <1>8, <1>9 DEF Touches, Beside

(* One order of the plan.                                                  *)
LEMMA PricesSlip ==
    ASSUME NEW p \in Nat, NEW side
    PROVE  /\ SlippedPrice(p, side) \in Nat
           /\ side = "buy" => SlippedPrice(p, side) >= p
           /\ side # "buy" => SlippedPrice(p, side) <= p
           /\ p > 0 => SlippedPrice(p, side) > 0
<1>1. CASE side = "buy"
  <2>1. SlippedPrice(p, side) = (p * 10010 + 5000) \div 10000
    BY <1>1 DEF SlippedPrice
  <2> QED BY <1>1, <2>1
<1>2. CASE side # "buy"
  <2>1. SlippedPrice(p, side) = (p * 9990 + 5000) \div 10000
    BY <1>2 DEF SlippedPrice
  <2> QED BY <1>2, <2>1
<1> QED BY <1>1, <1>2

LEMMA Placing ==
    ASSUME NEW b, SoundBook(b), OrdersOwn(b), NEW k \in Window, Past(b, CloseAt(k - 1)),
           NEW prices \in [Instruments -> Nat], NEW p \in PlannedOrders,
           p.side = "buy" <=> p.reason = "entry_signal",
           NEW o, o = <<k, p.instrument, p.reason>>, b.orders[o].state = "none",
           NEW t \in Nat, NEW c, c = PlaceOrder(b, p, k, prices)
    PROVE  o \in OrderIds /\ Touches(b, c, o, t) /\ c.fills = b.fills
<1>1. /\ p.instrument \in Instruments /\ p.side \in {"buy", "sell"} /\ p.reason \in Reasons
      /\ p.quantity \in Nat \ {0}
  BY DEF PlannedOrders
<1>2. /\ o \in OrderIds /\ o[1] = k /\ o[2] = p.instrument /\ o[3] = p.reason
      /\ k \in Nat \ {0} /\ k \in Sessions
  BY <1>1, ReasonsArePasses
<1>3. PICK close, affordable, q, order :
        /\ close = prices[p.instrument]
        /\ affordable = Max({n \in 0 .. p.quantity : n = 0 \/ ReservationCost(close, n) <= b.balances.available})
        /\ q = IF p.side = "buy" THEN affordable ELSE p.quantity
        /\ order = [state |-> "pending", side |-> p.side, instrument |-> p.instrument,
                  quantity |-> q, capacity |-> Capacity[p.instrument], session |-> k,
                  cash |-> IF p.side = "buy" THEN ReservationCost(close, q) ELSE 0,
                  shares |-> IF p.side = "sell" THEN q ELSE 0]
  OBVIOUS
<1>4. c = IF q = 0 THEN b
          ELSE IF ~CanReserve(b, order) THEN Break(b)
          ELSE Reserve(b, o, order)
  BY <1>3 DEF PlaceOrder
<1>5. affordable \in Nat
  <2>1. {n \in 0 .. p.quantity : n = 0 \/ ReservationCost(close, n) <= b.balances.available}
           \in SUBSET (0 .. p.quantity)
    OBVIOUS
  <2> QED BY <1>1, <1>3, <2>1, MaxUpTo
<1>6. q \in Nat /\ close \in Nat /\ ReservationCost(close, q) \in Nat
  <2>1. q \in Nat /\ close \in Nat
    BY <1>1, <1>3, <1>5
  <2>2. SlippedPrice(close, "buy") \in Nat
    BY <2>1, PricesSlip
  <2> QED BY <2>1, <2>2, CostGrows DEF ReservationCost
<1>7. order \in OrderRows
  <2>1. Capacity[p.instrument] \in Nat
    BY <1>1, BacktestAssumption
  <2> QED BY <1>1, <1>2, <1>3, <1>6, <2>1 DEF OrderRows, OrderStates
<1>8. /\ order.state = "pending" /\ order.side = p.side /\ order.instrument = p.instrument
      /\ order.session = k
      /\ order.cash = IF p.side = "buy" THEN ReservationCost(close, q) ELSE 0
      /\ order.shares = IF p.side = "sell" THEN q ELSE 0
  BY <1>3
<1>9. OwnOrder(order, o) /\ OrderFine(order)
  BY <1>1, <1>2, <1>8 DEF OwnOrder, Sale, OrderFine, LiveStates
<1>10. OpensLater(b, order)
  <2>1. \A e \in b.ledger : e.at < OpenAt(k)
    <3>1. SUFFICES ASSUME NEW e \in b.ledger PROVE e.at < OpenAt(k)
      OBVIOUS
    <3>2. e.at \in Times
      BY SoundFields, RowFields
    <3> QED BY <1>2, <3>2 DEF Times, Past, OpenAt, CloseAt
  <2> QED BY <1>8, <2>1 DEF OpensLater
<1>11. CASE q = 0
  BY <1>2, <1>4, <1>11, TouchesNothing
<1>12. CASE q # 0 /\ ~CanReserve(b, order)
  BY <1>2, <1>4, <1>12, TouchesBroken
<1>13. CASE q # 0 /\ CanReserve(b, order)
  <2>1. c = Reserve(b, o, order)
    BY <1>4, <1>13
  <2> QED BY <1>2, <1>7, <1>8, <1>9, <1>10, <1>13, <2>1, Reserving
<1> QED BY <1>11, <1>12, <1>13

(* The plan's orders, each of its own instrument and reason, for a session *)
(* that has none yet.                                                      *)
Placed(b, c, k) ==
    /\ SoundBook(c) /\ OrdersOwn(c) /\ Past(c, CloseAt(k - 1))
    /\ c.fills = b.fills /\ c.peak = b.peak /\ (b.broken => c.broken)
    /\ c.recorded = b.recorded
    /\ \A r \in OrderIds : r[1] # k => c.orders[r] = b.orders[r]
PlaceOf(orders, k, n) == <<k, orders[n].instrument, orders[n].reason>>

LEMMA PlacingAll ==
    ASSUME NEW b, SoundBook(b), OrdersOwn(b), NEW k \in Window, Past(b, CloseAt(k - 1)), NoneFrom(b, k),
           NEW prices \in [Instruments -> Nat], NEW orders \in Seq(PlannedOrders), OrdersApart(orders),
           NEW c, c = PlaceOrders(b, orders, k, prices)
    PROVE  Placed(b, c, k)
<1>1. /\ DOMAIN orders = 1 .. Len(orders) /\ Len(orders) \in Nat
      /\ \A n \in 1 .. Len(orders) : orders[n] \in PlannedOrders
  OBVIOUS
<1>2. PICK N : N = Len(orders)
  OBVIOUS
<1>3. N \in Nat
  BY <1>1, <1>2
<1>4. PICK h : Runs(h, OrderWork(k, prices), b, orders, N) /\ h[N] = c
  BY <1>2, <1>3, OrderFold
<1>5. /\ h[0] = b
      /\ \A m \in 0 .. N - 1 : h[m + 1] = PlaceOrder(h[m], orders[m + 1], k, prices)
  <2>1. \A d, x : FoldStep(OrderWork(k, prices), d, x) = PlaceOrder(d, x, k, prices)
    BY WorkSteps
  <2> QED BY <1>4, <2>1 DEF Runs
<1>6. PICK G : G = {m \in 0 .. N : /\ Placed(b, h[m], k)
                                   /\ \A n \in 1 .. N : n > m => h[m].orders[PlaceOf(orders, k, n)].state = "none"}
  OBVIOUS
<1>7. \A n \in 1 .. N : PlaceOf(orders, k, n) \in OrderIds /\ PlaceOf(orders, k, n)[1] = k
  <2>1. SUFFICES ASSUME NEW n \in 1 .. N PROVE PlaceOf(orders, k, n) \in OrderIds /\ PlaceOf(orders, k, n)[1] = k
    OBVIOUS
  <2>2. orders[n].instrument \in Instruments /\ orders[n].reason \in Reasons
    BY <1>1, <1>2, <2>1 DEF PlannedOrders
  <2> QED BY <2>2, ReasonsArePasses DEF PlaceOf
<1>8. 0 \in G
  <2>1. Placed(b, b, k)
    BY DEF Placed
  <2>2. k \in Nat
    BY ReasonsArePasses DEF Window
  <2> QED BY <1>3, <1>5, <1>6, <1>7, <2>1, <2>2 DEF NoneFrom
<1>9. ASSUME NEW m \in 0 .. N - 1, m \in G PROVE m + 1 \in G
  <2>1. PICK d, e, p, o : /\ d = h[m] /\ e = h[m + 1] /\ p = orders[m + 1] /\ o = PlaceOf(orders, k, m + 1)
    OBVIOUS
  <2>2. /\ m + 1 \in 1 .. N /\ m + 1 \in 0 .. N /\ p \in PlannedOrders /\ o = <<k, p.instrument, p.reason>>
        /\ o \in OrderIds /\ o[1] = k
    BY <1>1, <1>2, <1>3, <1>7, <2>1 DEF PlaceOf
  <2>3. /\ Placed(b, d, k) /\ SoundBook(d) /\ OrdersOwn(d) /\ Past(d, CloseAt(k - 1))
        /\ d.orders[o].state = "none" /\ e = PlaceOrder(d, p, k, prices)
        /\ p.side = "buy" <=> p.reason = "entry_signal"
    BY <1>1, <1>2, <1>3, <1>5, <1>6, <1>9, <2>1, <2>2 DEF Placed, OrdersApart
  <2>4. CloseAt(k - 1) \in Nat
    BY ReasonsArePasses DEF Window, CloseAt
  <2>5. Touches(d, e, o, CloseAt(k - 1)) /\ e.fills = d.fills
    BY <2>2, <2>3, <2>4, Placing
  <2>6. Placed(b, e, k)
    BY <2>2, <2>3, <2>5 DEF Placed, Touches, Past
  <2>7. ASSUME NEW n \in 1 .. N, n > m + 1 PROVE e.orders[PlaceOf(orders, k, n)].state = "none"
    <3>1. PlaceOf(orders, k, n) # o
      <4>1. ~(orders[n].instrument = orders[m + 1].instrument /\ orders[n].reason = orders[m + 1].reason)
        BY <1>1, <1>2, <2>2, <2>7 DEF OrdersApart
      <4> QED BY <2>1, <4>1 DEF PlaceOf
    <3>2. PlaceOf(orders, k, n) \in OrderIds /\ d.orders[PlaceOf(orders, k, n)].state = "none"
      BY <1>6, <1>7, <1>9, <2>1, <2>7
    <3> QED BY <2>5, <3>1, <3>2 DEF Touches
  <2> QED BY <1>6, <2>1, <2>2, <2>6, <2>7
<1>10. N \in G
  BY <1>3, <1>8, <1>9, CountingUp
<1> QED BY <1>4, <1>6, <1>10

(* The evening: what is planned for session k.                             *)
LEMMA PlanPlaces ==
    ASSUME NEW s, Frozen(s), NEW b, SoundBook(b), OrdersOwn(b), b.peak \in Nat, NEW k \in Window,
           Past(b, CloseAt(k - 1)), NoneFrom(b, k), NEW c, c = Plan(s, b, k)
    PROVE  Placed(b, c, k)
<1>1. PICK prices : prices = Closes(s, k - 1, CloseAt(k - 1))
  OBVIOUS
<1>2. k - 1 \in {0} \cup Window
  BY BookAssumption DEF Window
<1>3. prices \in [Instruments -> Nat]
  BY <1>1, <1>2, FrozenFields
<1>4. c = IF b.broken \/ ~b.automatic \/ Active(b) # {} THEN b
          ELSE IF ~Priced(b, prices) THEN Break(b)
          ELSE IF DrawdownReached(NAV(b, prices), b.peak, Policy.pause) THEN [b EXCEPT !.automatic = FALSE]
          ELSE PlaceOrders(b, Rebalance(s, b, k).orders, k, prices)
  BY <1>1 DEF Plan
<1>5. CASE c = b
  BY <1>5 DEF Placed
<1>6. CASE c = Break(b)
  BY <1>6, TouchesBroken DEF Placed, Touches, Past, Break
<1>7. CASE c = [b EXCEPT !.automatic = FALSE]
  <2>1. ReplayBook(b) /\ BookInv(Core(b))
    BY SoundFields
  <2>2. c = [balances |-> b.balances, positions |-> b.positions, orders |-> b.orders,
             ledger |-> b.ledger, recorded |-> b.recorded, splits |-> b.splits,
             fills |-> b.fills, peak |-> b.peak, automatic |-> FALSE, broken |-> b.broken]
    BY <1>7, <2>1 DEF ReplayBook
  <2>3. ReplayBook(c) /\ Core(c) = Core(b)
    BY <2>2 DEF ReplayBook, Core
  <2> QED BY <2>1, <2>2, <2>3 DEF Placed, SoundBook, OrdersOwn, Past
<1>8. CASE Active(b) = {} /\ Priced(b, prices) /\ c = PlaceOrders(b, Rebalance(s, b, k).orders, k, prices)
  <2>1. Planning(s, b, k)
    BY <1>1, <1>8 DEF Planning
  <2>2. PICK r : r = Rebalance(s, b, k)
    OBVIOUS
  <2>3. PlanInv(r, b.positions)
    BY <1>1, <2>1, <2>2, RebalancePlans
  <2>4. r.orders \in Seq(PlannedOrders) /\ OrdersApart(r.orders)
    BY <2>3, PlanFields DEF PlanInv, PlanFine
  <2> QED BY <1>3, <1>8, <2>2, <2>4, PlacingAll
<1> QED BY <1>4, <1>5, <1>6, <1>7, <1>8

(* The fills a replay reports, each of an order that is over.              *)
FillReports == [of : OrderIds, instrument : Instruments, quantity : Int, gross : Nat, fee : Nat,
                at : Nat, recorded : Nat]
FillFine(b, f) ==
    /\ f \in FillReports /\ f.instrument = f.of[2] /\ f.at = OpenAt(f.of[1])
    /\ CloseAt(f.of[1]) <= f.recorded
    /\ ~IsLive(b.orders[f.of]) /\ b.orders[f.of].state # "none"
FillsFine(b) == IsFiniteSet(b.fills) /\ \A f \in b.fills : FillFine(b, f)

LEMMA FillReportFields ==
    ASSUME NEW b, NEW f, FillFine(b, f)
    PROVE  /\ f.of \in OrderIds /\ f.instrument \in Instruments /\ f.quantity \in Int /\ f.gross \in Nat
           /\ f.fee \in Nat /\ f.at \in Nat /\ f.recorded \in Nat
           /\ Shares(f) \in Nat
<1>1. /\ f.of \in OrderIds /\ f.instrument \in Instruments /\ f.quantity \in Int /\ f.gross \in Nat
      /\ f.fee \in Nat /\ f.at \in Nat /\ f.recorded \in Nat
  BY DEF FillFine, FillReports
<1> QED BY <1>1 DEF Shares

LEMMA SumOfNats ==
    ASSUME NEW S, IsFiniteSet(S), NEW f, DOMAIN f = S, \A x \in S : f[x] \in Nat
    PROVE  SumFunction(f) \in Nat /\ SumFunction(f) = SumFunctionOnSet(f, S)
<1>1. Summable(f, S)
  BY DEF Summable
<1>2. SumFunction(f) = SumFunctionOnSet(f, S)
  BY <1>1, SumWritten
<1> QED BY <1>2, SumNat

(* What an order faces at the open.                                        *)
SameId(b, o) == {r \in Active(b) : Id(r) = Id(o)}
Facing(b, o, prices) ==
    [positions |-> b.positions, rows |-> b.orders, open |-> Active(b) \ SameId(b, o),
     session |-> b.orders[o].session, prices |-> prices, nav |-> NAV(b, prices),
     peak |-> InitialCash, traded |-> SessionTurnover(b, b.orders[o].session)]

LEMMA FacingFields ==
    ASSUME NEW b, SoundBook(b), OrdersOwn(b), FillsFine(b), NEW o \in Active(b),
           NEW prices \in [Instruments -> Nat], NEW p, p = Facing(b, o, prices)
    PROVE  /\ p.positions = b.positions /\ p.rows = b.orders /\ p.open \in SUBSET OrderIds
           /\ p.prices = prices /\ p.nav = NAV(b, prices) /\ p.nav \in Nat
           /\ p.traded = SessionTurnover(b, b.orders[o].session) /\ p.traded \in Nat
           /\ IsFiniteSet(p.open) /\ \A k : IsFiniteSet(FillsIn(b, k))
           /\ \A r \in p.open : /\ p.rows[r].cash \in Nat /\ p.rows[r].quantity \in Nat
                                /\ p.rows[r].instrument \in Instruments
<1>1. /\ p.positions = b.positions /\ p.rows = b.orders /\ p.open = Active(b) \ SameId(b, o)
      /\ p.prices = prices /\ p.nav = NAV(b, prices) /\ p.traded = SessionTurnover(b, b.orders[o].session)
  BY DEF Facing
<1>2. p.open \in SUBSET OrderIds /\ IsFiniteSet(p.open)
  <2>1. p.open \in SUBSET OrderIds
    BY <1>1 DEF Active
  <2> QED BY <2>1, BookAssumption, FS_Subset
<1>3. p.nav \in Nat
  BY <1>1, NavIs
<1>4. \A k : IsFiniteSet(FillsIn(b, k)) /\ SessionTurnover(b, k) \in Nat
  <2>1. SUFFICES ASSUME NEW k PROVE IsFiniteSet(FillsIn(b, k)) /\ SessionTurnover(b, k) \in Nat
    OBVIOUS
  <2>2. PICK f : f = [e \in FillsIn(b, k) |-> e.gross]
    OBVIOUS
  <2>3. IsFiniteSet(FillsIn(b, k)) /\ FillsIn(b, k) \subseteq b.fills
    <3>1. FillsIn(b, k) \subseteq b.fills
      BY DEF FillsIn
    <3> QED BY <3>1, FS_Subset DEF FillsFine
  <2>4. \A e \in FillsIn(b, k) : f[e] \in Nat
    BY <2>2, <2>3, FillReportFields DEF FillsFine
  <2>5. SumFunction(f) \in Nat
    BY <2>2, <2>3, <2>4, SumOfNats
  <2> QED BY <2>2, <2>3, <2>5 DEF SessionTurnover
<1>5. \A r \in p.open : /\ p.rows[r].cash \in Nat /\ p.rows[r].quantity \in Nat
                        /\ p.rows[r].instrument \in Instruments
  <2>1. SUFFICES ASSUME NEW r \in p.open PROVE /\ b.orders[r].cash \in Nat /\ b.orders[r].quantity \in Nat
                                               /\ b.orders[r].instrument \in Instruments
    BY <1>1
  <2>2. r \in OrderIds /\ b.orders[r].state \in LiveStates
    BY <1>1, <2>1 DEF Active, LiveStates
  <2>3. b.orders[r] \in OrderRows /\ OrderFine(b.orders[r])
    BY <2>2, SoundFields
  <2> QED BY <2>2, <2>3, OrderFields DEF OrderFine
<1> QED BY <1>1, <1>2, <1>3, <1>4, <1>5

OpenGross(order, slipped) ==
    IF order.side = "buy" THEN (order.cash * 10000) \div 10001
    ELSE GrossValue(SlippedPrice(slipped[order.instrument], "sell"), order.quantity)

LEMMA OpenGrossNat ==
    ASSUME NEW order, order.cash \in Nat, order.quantity \in Nat, order.instrument \in Instruments,
           NEW slipped \in [Instruments -> Nat]
    PROVE  OpenGross(order, slipped) \in Nat
<1>1. (order.cash * 10000) \div 10001 \in Nat
  OBVIOUS
<1>2. SlippedPrice(slipped[order.instrument], "sell") \in Nat
  BY PricesSlip
<1>3. GrossValue(SlippedPrice(slipped[order.instrument], "sell"), order.quantity) \in Nat
  BY <1>2, GrossFacts
<1> QED BY <1>1, <1>3 DEF OpenGross

LEMMA FacingLimits ==
    ASSUME NEW b, SoundBook(b), OrdersOwn(b), FillsFine(b), NEW o \in Active(b),
           NEW prices \in [Instruments -> Nat], NEW p, p = Facing(b, o, prices),
           NEW slipped \in [Instruments -> Nat]
    PROVE  /\ TurnoverLeft(p, slipped) \in Nat
           /\ \A g \in Nat \ {0} : g <= TurnoverLeft(p, slipped)
                                   => p.traded + g <= MoneyLimit(p.nav, Policy.turnover)
           /\ \A S \in SUBSET Instruments : /\ Worth(b.positions, slipped, S) <= Exposure(p, slipped, S)
                                            /\ Exposure(p, slipped, S) \in Nat
                                            /\ Worth(b.positions, slipped, S) \in Nat
<1>1. /\ p.positions = b.positions /\ p.rows = b.orders /\ p.open \in SUBSET OrderIds
      /\ p.nav \in Nat /\ p.traded \in Nat
      /\ IsFiniteSet(p.open)
      /\ \A r \in p.open : /\ p.rows[r].cash \in Nat /\ p.rows[r].quantity \in Nat
                           /\ p.rows[r].instrument \in Instruments
  BY FacingFields
<1>2. PICK f : f = [r \in {u \in p.open : p.rows[u].session = p.session} |-> OpenGross(p.rows[r], slipped)]
  OBVIOUS
<1>3. SumFunction(f) \in Nat
  <2>1. DOMAIN f = {u \in p.open : p.rows[u].session = p.session}
    BY <1>2
  <2>2. DOMAIN f \subseteq p.open
    BY <2>1
  <2>3. IsFiniteSet(DOMAIN f)
    BY <1>1, <2>2, FS_Subset
  <2>4. \A r \in DOMAIN f : f[r] \in Nat
    BY <1>1, <1>2, <2>1, <2>2, OpenGrossNat
  <2> QED BY <2>3, <2>4, SumOfNats
<1>4. MoneyLimit(p.nav, Policy.turnover) \in Nat
  BY <1>1, PolicyFields
<1>5. PICK left : left = MoneyLimit(p.nav, Policy.turnover) - p.traded - SumFunction(f)
  OBVIOUS
<1>6. TurnoverLeft(p, slipped) = IF left < 0 THEN 0 ELSE left
  BY <1>2, <1>5 DEF TurnoverLeft, OpenGross
<1>7. /\ TurnoverLeft(p, slipped) \in Nat
      /\ \A g \in Nat \ {0} : g <= TurnoverLeft(p, slipped)
                                   => p.traded + g <= MoneyLimit(p.nav, Policy.turnover)
  BY <1>1, <1>3, <1>4, <1>5, <1>6
<1>8. ASSUME NEW S \in SUBSET Instruments
      PROVE  /\ Worth(b.positions, slipped, S) <= Exposure(p, slipped, S)
             /\ Exposure(p, slipped, S) \in Nat /\ Worth(b.positions, slipped, S) \in Nat
  <2>1. PICK g : g = [r \in {u \in p.open : p.rows[u].instrument \in S} |-> p.rows[r].cash]
    OBVIOUS
  <2>2. SumFunction(g) \in Nat
    <3>1. DOMAIN g = {u \in p.open : p.rows[u].instrument \in S}
      BY <2>1
    <3>2. DOMAIN g \subseteq p.open
      BY <3>1
    <3>3. IsFiniteSet(DOMAIN g)
      BY <1>1, <3>2, FS_Subset
    <3>4. \A r \in DOMAIN g : g[r] \in Nat
      BY <1>1, <2>1, <3>1
    <3> QED BY <3>3, <3>4, SumOfNats
  <2>3. b.positions \in Positions
    BY SoundFields
  <2>4. Worth(b.positions, slipped, S) \in Nat
    BY <2>3, WorthIs
  <2>5. Exposure(p, slipped, S) = Worth(b.positions, slipped, S) + SumFunction(g)
    BY <1>1, <2>1 DEF Exposure
  <2> QED BY <2>2, <2>4, <2>5
<1> QED BY <1>7, <1>8

(* What MatchAtOpen lets through of order o: no more than the order, a     *)
(* purchase within the room there is, an ordinary sale within the turnover.*)
Slipping(p, i, price) == [p.prices EXCEPT ![i] = price]
Admissible(p, o, price, q) ==
    /\ ~Sale(o) => GrossValue(price, q) <= Room(p, o[2], Slipping(p, o[2], price))
    /\ o[3] \notin Emergency => GrossValue(price, q) <= TurnoverLeft(p, Slipping(p, o[2], price))

LEMMA OwnShares ==
    ASSUME NEW b, SoundBook(b), NEW S \in SUBSET OrderIds
    PROVE  ReservedShares(b, S) \in Nat
<1>1. PICK f : f = [o \in S |-> b.orders[o].shares]
  OBVIOUS
<1>2. IsFiniteSet(S)
  BY BookAssumption, FS_Subset
<1>3. \A o \in S : f[o] \in Nat
  BY <1>1, SoundFields, OrderFields
<1>4. SumFunction(f) \in Nat
  BY <1>1, <1>2, <1>3, SumOfNats
<1> QED BY <1>1, <1>4 DEF ReservedShares

LEMMA LeftOfCapacity ==
    ASSUME NEW b, SoundBook(b), OrdersOwn(b), FillsFine(b), NEW o \in Active(b)
    PROVE  CapacityLeft(b, o) \in Nat
<1>1. PICK peers : peers = {r \in OrderIds : /\ b.orders[r].state # "none" /\ r[2] = o[2]
                                             /\ b.orders[r].session = b.orders[o].session}
  OBVIOUS
<1>2. PICK rivals : rivals = {f \in FillsIn(b, b.orders[o].session) : f.instrument = o[2]}
  OBVIOUS
<1>3. PICK g : g = [f \in rivals |-> Shares(f)]
  OBVIOUS
<1>4. SumFunction(g) \in Nat
  <2>1. rivals \subseteq b.fills
    BY <1>2 DEF FillsIn
  <2>2. IsFiniteSet(rivals)
    BY <2>1, FS_Subset DEF FillsFine
  <2>3. \A f \in rivals : g[f] \in Nat
    BY <1>3, <2>1, FillReportFields DEF FillsFine
  <2> QED BY <1>3, <2>2, <2>3, SumOfNats
<1>5. PICK S : S = {b.orders[r].capacity : r \in peers}
  OBVIOUS
<1>6. S \in SUBSET Nat /\ S # {}
  <2>1. \A r \in peers : b.orders[r].capacity \in Nat
    BY <1>1, SoundFields, OrderFields
  <2>2. o \in peers
    BY <1>1 DEF Active
  <2> QED BY <1>5, <2>1, <2>2
<1>7. Min(S) \in Nat
  BY <1>6, MinIs
<1>8. PICK left : left = Min(S) - SumFunction(g)
  OBVIOUS
<1>9. CapacityLeft(b, o) = IF left < 0 THEN 0 ELSE left
  BY <1>1, <1>2, <1>3, <1>5, <1>8 DEF CapacityLeft
<1> QED BY <1>4, <1>7, <1>8, <1>9

LEMMA AdmittedSale ==
    ASSUME NEW b, SoundBook(b), OrdersOwn(b), FillsFine(b), NEW o \in Active(b), Sale(o),
           NEW prices \in [Instruments -> Nat], NEW p, p = Facing(b, o, prices), NEW price \in Nat,
           NEW m, m = MaxSale(p, o[2], price, o[3], ReservedShares(b, SameId(b, o)))
    PROVE  m \in Nat /\ (m # 0 => Admissible(p, o, price, m))
<1>1. p.positions = b.positions /\ p.prices = prices /\ o \in OrderIds /\ o[2] \in Instruments
  BY FacingFields, ReasonsArePasses DEF Active
<1>2. PICK i : i = o[2]
  OBVIOUS
<1>3. /\ b.positions[i].quantity \in Nat /\ b.positions[i].reserved \in Nat
      /\ b.positions[i].reserved <= b.positions[i].quantity
  BY <1>1, <1>2, SoundFields, ReservedIsHeld, CoreFields DEF Positions
<1>4. PICK own : own = ReservedShares(b, SameId(b, o))
  OBVIOUS
<1>5. own \in Nat
  <2>1. SameId(b, o) \in SUBSET OrderIds
    BY DEF SameId, Active
  <2> QED BY <1>4, <2>1, OwnShares
<1>6. PICK n : n = p.positions[i].quantity - p.positions[i].reserved + own
  OBVIOUS
<1>7. n \in Nat
  BY <1>1, <1>3, <1>5, <1>6
<1>8. PICK left : left = TurnoverLeft(p, Slipping(p, i, price))
  OBVIOUS
<1>9. PICK S : S = {q \in 0 .. n : q = 0 \/ o[3] \in Emergency \/ GrossValue(price, q) <= left}
  OBVIOUS
<1>10. Max(S) \in S /\ Max(S) \in 0 .. n
  BY <1>7, <1>9, MaxUpTo
<1>11. m = Max(S)
  BY <1>2, <1>4, <1>6, <1>8, <1>9 DEF MaxSale, Slipping
<1> QED BY <1>2, <1>7, <1>8, <1>9, <1>10, <1>11 DEF Admissible

LEMMA AdmittedPurchase ==
    ASSUME NEW b, SoundBook(b), OrdersOwn(b), FillsFine(b), NEW o \in Active(b), ~Sale(o),
           NEW prices \in [Instruments -> Nat], NEW p, p = Facing(b, o, prices), NEW price \in Nat \ {0},
           NEW cash \in Nat, NEW m, m = MaxPurchase(p, o[2], price, cash)
    PROVE  /\ m \in Nat /\ (m # 0 => Admissible(p, o, price, m))
           /\ Room(p, o[2], Slipping(p, o[2], price)) \in Int
           /\ Room(p, o[2], Slipping(p, o[2], price)) <= TurnoverLeft(p, Slipping(p, o[2], price))
           /\ \A l \in Levels :
                 Room(p, o[2], Slipping(p, o[2], price))
                    <= MoneyLimit(p.nav, Policy[l]) - Exposure(p, Slipping(p, o[2], price), Group(l, o[2]))
<1>1. PICK i, slipped : i = o[2] /\ slipped = Slipping(p, i, price)
  OBVIOUS
<1>2. i \in Instruments /\ p.nav \in Nat /\ p.prices = prices
  BY <1>1, FacingFields, ReasonsArePasses DEF Active
<1>3. slipped \in [Instruments -> Nat]
  BY <1>1, <1>2 DEF Slipping
<1>4. TurnoverLeft(p, slipped) \in Nat
  BY <1>3, FacingLimits
<1>5. \A l \in Levels : MoneyLimit(p.nav, Policy[l]) - Exposure(p, slipped, Group(l, i)) \in Int
  <2>1. SUFFICES ASSUME NEW l \in Levels
                 PROVE  MoneyLimit(p.nav, Policy[l]) - Exposure(p, slipped, Group(l, i)) \in Int
    OBVIOUS
  <2>2. MoneyLimit(p.nav, Policy[l]) \in Nat /\ Group(l, i) \in SUBSET Instruments
    BY <1>2, PolicyFields, GroupIs DEF Levels
  <2>3. Exposure(p, slipped, Group(l, i)) \in Nat
    BY <1>3, <2>2, FacingLimits
  <2> QED BY <2>2, <2>3
<1>6. PICK room : room = Room(p, i, slipped)
  OBVIOUS
<1>7. /\ room \in Int /\ room <= TurnoverLeft(p, slipped)
      /\ \A l \in Levels : room <= MoneyLimit(p.nav, Policy[l]) - Exposure(p, slipped, Group(l, i))
  BY <1>4, <1>5, <1>6, RoomIs
<1>8. PICK n : n = cash \div price
  OBVIOUS
<1>9. n \in Nat
  BY <1>8
<1>10. PICK S : S = {q \in 0 .. n : q = 0 \/ (GrossValue(price, q) <= room /\ PurchaseCost(price, q) <= cash)}
  OBVIOUS
<1>11. Max(S) \in S /\ Max(S) \in 0 .. n
  BY <1>9, <1>10, MaxUpTo
<1>12. m = 0 \/ m = Max(S)
  BY <1>1, <1>6, <1>8, <1>10 DEF MaxPurchase, Slipping
<1>13. m \in Nat /\ (m # 0 => GrossValue(price, m) <= room)
  BY <1>9, <1>10, <1>11, <1>12
<1>14. m # 0 => GrossValue(price, m) <= TurnoverLeft(p, slipped)
  <2>1. price \in Nat /\ GrossValue(price, m) \in Nat
    BY <1>13, GrossFacts
  <2> QED BY <1>4, <1>7, <1>13, <2>1
<1> QED BY <1>1, <1>6, <1>7, <1>13, <1>14 DEF Admissible

LEMMA MatchedIs ==
    ASSUME NEW b, SoundBook(b), OrdersOwn(b), FillsFine(b), NEW o \in Active(b),
           NEW prices \in [Instruments -> Nat], NEW p, p = Facing(b, o, prices), NEW price \in Nat \ {0},
           NEW q, q = Matched(b, o, price, prices)
    PROVE  q \in Nat /\ (q # 0 => Admissible(p, o, price, q))
<1>1. PICK order, same, admitted, left :
        /\ order = b.orders[o] /\ same = SameId(b, o) /\ left = CapacityLeft(b, o)
        /\ admitted = IF order.side = "buy" THEN MaxPurchase(p, o[2], price, order.cash)
                      ELSE MaxSale(p, o[2], price, o[3], ReservedShares(b, same))
  OBVIOUS
<1>2. /\ o \in OrderIds /\ order \in OrderRows /\ order.quantity \in Nat /\ order.capacity \in Nat
      /\ order.cash \in Nat /\ left \in Nat
      /\ order.side = "buy" <=> ~Sale(o)
  <2>1. o \in OrderIds /\ order.state # "none" /\ order \in OrderRows
    BY <1>1, SoundFields DEF Active
  <2>2. order.side = IF Sale(o) THEN "sell" ELSE "buy"
    BY <1>1, <2>1 DEF OrdersOwn, OwnOrder
  <2> QED BY <1>1, <2>1, <2>2, OrderFields, LeftOfCapacity
<1>3. admitted \in Nat /\ (admitted # 0 => Admissible(p, o, price, admitted))
  <2>1. CASE order.side = "buy"
    BY <1>1, <1>2, <2>1, AdmittedPurchase
  <2>2. CASE order.side # "buy"
    BY <1>1, <1>2, <2>2, AdmittedSale
  <2> QED BY <2>1, <2>2
<1>4. PICK S, n : S = {order.quantity, admitted, order.capacity, left} /\ n = Min(S)
  OBVIOUS
<1>5. n \in Nat /\ n <= admitted
  <2>1. S \in SUBSET Nat /\ S # {}
    BY <1>2, <1>3, <1>4
  <2>2. Min(S) \in S /\ \A y \in S : Min(S) <= y
    BY <2>1, MinIs
  <2> QED BY <1>4, <2>1, <2>2
<1>6. q \in {0, n}
  BY <1>1, <1>4 DEF Matched, Facing, SameId
<1>7. ASSUME q # 0 PROVE Admissible(p, o, price, q)
  <2>1. q = n /\ admitted # 0 /\ Admissible(p, o, price, admitted)
    BY <1>3, <1>5, <1>6, <1>7
  <2>2. /\ GrossValue(price, q) \in Nat /\ GrossValue(price, admitted) \in Nat
        /\ GrossValue(price, q) <= GrossValue(price, admitted)
    BY <1>3, <1>5, <2>1, GrossFacts
  <2>3. ASSUME o[3] \notin Emergency PROVE GrossValue(price, q) <= TurnoverLeft(p, Slipping(p, o[2], price))
    <3>1. TurnoverLeft(p, Slipping(p, o[2], price)) \in Nat
      <4>1. p.prices = prices /\ Slipping(p, o[2], price) \in [Instruments -> Nat]
        <5>1. p.prices = prices
          BY FacingFields
        <5> QED BY <5>1 DEF Slipping
      <4> QED BY <4>1, FacingLimits
    <3> QED BY <2>1, <2>2, <2>3, <3>1 DEF Admissible
  <2>4. ASSUME ~Sale(o) PROVE GrossValue(price, q) <= Room(p, o[2], Slipping(p, o[2], price))
    <3>1. Room(p, o[2], Slipping(p, o[2], price)) \in Int
      BY <1>2, <2>4, AdmittedPurchase
    <3> QED BY <2>1, <2>2, <2>4, <3>1 DEF Admissible
  <2> QED BY <2>3, <2>4 DEF Admissible
<1> QED BY <1>5, <1>6, <1>7

(* A fill of order o: what it does to the holdings and to the cash.        *)
SideOf(o) == IF Sale(o) THEN "sell" ELSE "buy"
SignedBy(o, q) == IF Sale(o) THEN -q ELSE q
Exchanged(b, c, o, price, q) ==
    LET gross == GrossValue(price, q)
        fee == TradeFee(gross) IN
    /\ \A i \in Instruments : c.positions[i].quantity
                                = b.positions[i].quantity + (IF i = o[2] THEN SignedBy(o, q) ELSE 0)
    /\ Total(c.balances) = Total(b.balances) + (IF Sale(o) THEN gross - fee ELSE -(gross + fee))

FillsTo(b, c, o, price, q, fills) == c = [Fill(b, o, price, q) EXCEPT !.fills = fills]

LEMMA FillingIs ==
    ASSUME NEW b, SoundBook(b), OrdersOwn(b), NEW o \in Active(b), NEW p \in Nat, NEW q \in Nat \ {0},
           CanFill(b, o, p, q), NEW t \in Nat, OpenAt(o[1]) <= t,
           NEW fills, NEW c, FillsTo(b, c, o, p, q, fills)
    PROVE  /\ Touches(b, c, o, t) /\ c.fills = fills /\ c.broken = b.broken
           /\ ~IsLive(c.orders[o]) /\ c.orders[o].state # "none"
           /\ Exchanged(b, c, o, p, q)
<1>1. /\ ReplayBook(b) /\ BookInv(Core(b)) /\ BookTypes(Core(b)) /\ b.orders \in [OrderIds -> OrderRows]
      /\ b.balances \in Balances /\ b.positions \in Positions
      /\ o \in OrderIds /\ o[2] \in Instruments /\ OpenAt(o[1]) \in Times
  BY SoundFields, ReasonsArePasses DEF Active
<1>2. PICK order : order = b.orders[o]
  OBVIOUS
<1>3. /\ order.state \in LiveStates /\ order.session = o[1] /\ order.instrument = o[2]
      /\ order.side = SideOf(o) /\ order \in OrderRows /\ order.cash \in Nat
  <2>1. order.state \in LiveStates /\ order.state # "none" /\ order \in OrderRows
    BY <1>1, <1>2 DEF Active, LiveStates
  <2> QED BY <1>1, <1>2, <2>1, OrderFields DEF OrdersOwn, OwnOrder, SideOf
<1>4. PICK d : d = Fill(b, o, p, q)
  OBVIOUS
<1>5. Core(d) = Fill(Core(b), o, p, q) /\ ReplayBook(d) /\ Beside(b, d)
  BY <1>1, <1>4, FillCore
<1>6. c = [balances |-> d.balances, positions |-> d.positions, orders |-> d.orders,
           ledger |-> d.ledger, recorded |-> d.recorded, splits |-> d.splits,
           fills |-> fills, peak |-> d.peak, automatic |-> d.automatic, broken |-> d.broken]
  BY <1>4, <1>5 DEF ReplayBook, FillsTo
<1>7. /\ ReplayBook(c) /\ Core(c) = Core(d) /\ c.fills = fills /\ c.balances = d.balances
      /\ c.positions = d.positions /\ c.orders = d.orders /\ c.ledger = d.ledger /\ c.recorded = d.recorded
      /\ c.peak = b.peak /\ c.automatic = b.automatic /\ c.broken = b.broken
  <2>1. /\ c.fills = fills /\ c.balances = d.balances /\ c.positions = d.positions /\ c.orders = d.orders
        /\ c.ledger = d.ledger /\ c.recorded = d.recorded /\ c.splits = d.splits
        /\ c.peak = d.peak /\ c.automatic = d.automatic /\ c.broken = d.broken
    BY <1>6
  <2>2. Core(c) = Core(d)
    BY <2>1 DEF Core
  <2>3. ReplayBook(c)
    BY <1>6, <2>1 DEF ReplayBook
  <2> QED BY <1>5, <2>1, <2>2, <2>3 DEF Beside
<1>8. BookInv(Core(d))
  <2>1. /\ Core(b).orders[o].state \in LiveStates /\ OpenAt(Core(b).orders[o].session) \in Times
        /\ CanFill(Core(b), o, p, q)
    BY <1>1, <1>2, <1>3, CoreFields
  <2> QED BY <1>1, <1>5, <2>1, FillKeeps
<1>9. PICK e, x, z, signed : Filling(Core(b), o, p, q, Core(d), e, x, z, signed)
  BY <1>1, <1>5, FillFields
<1>10. PICK closed : closed = Closed(order, IF q < order.quantity THEN "partially_filled_cancelled" ELSE "filled")
  OBVIOUS
<1>11. /\ closed \in OrderRows /\ closed.state \notin LiveStates /\ closed.state # "none"
       /\ closed.session = order.session /\ closed.instrument = order.instrument /\ closed.side = order.side
  <2>1. (IF q < order.quantity THEN "partially_filled_cancelled" ELSE "filled") \in OrderStates \ LiveStates
    BY DEF OrderStates, LiveStates
  <2>2. (IF q < order.quantity THEN "partially_filled_cancelled" ELSE "filled") # "none"
    OBVIOUS
  <2> QED BY <1>3, <1>10, <2>1, <2>2, ClosedFields
<1>12. /\ d.orders = [b.orders EXCEPT ![o] = closed]
       /\ d.ledger = b.ledger \cup {e} /\ e.at = OpenAt(o[1]) /\ d.recorded = b.recorded
  <2>1. /\ Core(d).orders = [Core(b).orders EXCEPT ![o] = closed]
        /\ Core(d).ledger = Core(b).ledger \cup {e} /\ Core(d).recorded = Core(b).recorded
        /\ e.at = OpenAt(o[1])
    BY <1>2, <1>3, <1>9, <1>10, CoreFields DEF Filling, Row
  <2> QED BY <2>1, CoreFields
<1>13. c.orders[o] = closed /\ \A r \in OrderIds \ {o} : c.orders[r] = b.orders[r]
  BY <1>1, <1>7, <1>12
<1>14. OrdersOwn(c)
  BY <1>3, <1>11, <1>13 DEF OrdersOwn, OwnOrder, SideOf
<1>15. Touches(b, c, o, t)
  BY <1>7, <1>8, <1>12, <1>13, <1>14 DEF Touches, SoundBook
<1>16. Exchanged(b, c, o, p, q)
  <2>1. PICK gross, fee : gross = GrossValue(p, q) /\ fee = TradeFee(gross)
    OBVIOUS
  <2>2. gross \in Nat /\ fee \in Nat /\ PurchaseCost(p, q) = gross + fee
    BY <2>1, MoneyTypes
  <2>3. /\ ~Sale(o) => x = order.cash - (gross + fee) /\ z = 0 /\ signed = q
        /\ Sale(o) => x = 0 /\ z = gross - fee /\ signed = -q
        /\ d.balances = Plus(b.balances, Delta(x, -order.cash, z, 0))
    <3>1. /\ order.side = "buy" => x = order.cash - PurchaseCost(p, q) /\ z = 0 /\ signed = q
          /\ order.side = "sell" => x = 0 /\ z = gross - TradeFee(gross) /\ signed = -q
          /\ d.balances = Plus(b.balances, Delta(x, -order.cash, z, 0))
      BY <1>2, <1>9, <2>1, CoreFields DEF Filling
    <3> QED BY <1>3, <2>1, <2>2, <3>1 DEF SideOf
  <2>4. x \in Int /\ z \in Int /\ signed \in Int /\ signed = SignedBy(o, q)
        /\ (Sale(o) => order.cash = 0)
    <3>1. Sale(o) => order.cash = 0
      BY <1>1, <1>2, <1>3, SoundFields DEF SideOf, OrderFine
    <3> QED BY <1>3, <2>2, <2>3, <3>1 DEF SignedBy
  <2>5. Total(d.balances) = Total(b.balances) + x - order.cash + z
    <3>1. PICK y, m, n, cash, w : w = 0 /\ y = -cash /\ m = b.balances /\ n = d.balances /\ cash = order.cash
      OBVIOUS
    <3>2. cash \in Nat /\ y \in Int /\ w \in Int /\ m \in Balances /\ Gains(m, n, x, y, z, w)
      BY <1>1, <1>3, <2>3, <3>1 DEF Gains
    <3>3. /\ n.available = m.available + x /\ n.reserved = m.reserved + y
          /\ n.unsettled = m.unsettled + z /\ n.dividends = m.dividends + w
      BY <2>4, <3>2, GainsFields
    <3>4. m.available \in Nat /\ m.reserved \in Nat /\ m.unsettled \in Nat /\ m.dividends \in Nat
      BY <3>2 DEF Balances
    <3>5. /\ Total(n) = n.available + n.reserved + n.unsettled + n.dividends
          /\ Total(m) = m.available + m.reserved + m.unsettled + m.dividends
      BY DEF Total
    <3>6. Total(n) = Total(m) + x - cash + z
      BY <2>4, <3>1, <3>2, <3>3, <3>4, <3>5
    <3> QED BY <3>1, <3>6
  <2>6. Total(b.balances) \in Nat
    BY <1>1 DEF Balances, Total
  <2>7. Total(c.balances) = Total(b.balances) + (IF Sale(o) THEN gross - fee ELSE -(gross + fee))
    BY <1>3, <1>7, <2>2, <2>3, <2>4, <2>5, <2>6
  <2>8. ASSUME NEW i \in Instruments
        PROVE  c.positions[i].quantity
                 = b.positions[i].quantity + (IF i = o[2] THEN SignedBy(o, q) ELSE 0)
    <3>1. PICK cost : d.positions = [b.positions EXCEPT
                        ![o[2]] = [quantity |-> @.quantity + signed, reserved |-> @.reserved - order.shares,
                                   cost |-> cost]]
      <4>1. Core(d).positions = [Core(b).positions EXCEPT
                        ![order.instrument] =
                           [quantity |-> @.quantity + signed, reserved |-> @.reserved - order.shares,
                            cost |-> CostAfter(Core(b), order, PurchaseCost(p, q), q)]]
        BY <1>2, <1>9, CoreFields DEF Filling
      <4> QED BY <1>3, <4>1, CoreFields
    <3>2. b.positions[i].quantity \in Nat
      BY <1>1 DEF Positions
    <3>3. d.positions[i].quantity = IF i = o[2] THEN b.positions[i].quantity + signed ELSE b.positions[i].quantity
      BY <1>1, <3>1 DEF Positions
    <3> QED BY <1>7, <2>4, <3>2, <3>3
  <2> QED BY <2>1, <2>7, <2>8 DEF Exchanged
<1> QED BY <1>7, <1>11, <1>13, <1>15, <1>16 DEF IsLive

(* Nothing is traded.                                                      *)
Stands(b, c) ==
    /\ c.fills = b.fills /\ Total(c.balances) = Total(b.balances)
    /\ \A i \in Instruments : c.positions[i].quantity = b.positions[i].quantity

OnlyState(b, c, o) ==
    /\ b.orders[o].state # "none" /\ c.orders[o].session = b.orders[o].session
    /\ c.orders[o].instrument = b.orders[o].instrument /\ c.orders[o].side = b.orders[o].side
    /\ \A r \in OrderIds \ {o} : c.orders[r] = b.orders[r]

LEMMA OwnStays ==
    ASSUME NEW b, OrdersOwn(b), NEW o \in OrderIds, NEW c, OnlyState(b, c, o)
    PROVE  OrdersOwn(c)
<1>1. OwnOrder(b.orders[o], o)
  BY DEF OrdersOwn
<1>2. OwnOrder(c.orders[o], o)
  BY <1>1 DEF OwnOrder, OnlyState
<1>3. \A r \in OrderIds \ {o} : OwnOrder(c.orders[r], r)
  BY DEF OrdersOwn, OnlyState
<1> QED BY <1>2, <1>3 DEF OrdersOwn

LEMMA Releasing ==
    ASSUME NEW b, SoundBook(b), OrdersOwn(b), NEW o \in Active(b),
           NEW state \in {"expired", "rejected", "cancelled"}, NEW t \in Nat,
           NEW S, S = {o}, NEW c, c = Release(b, S, state)
    PROVE  Touches(b, c, o, t) /\ Stands(b, c) /\ c.broken = b.broken /\ c.orders[o].state = state
<1>1. /\ ReplayBook(b) /\ BookInv(Core(b)) /\ BookTypes(Core(b)) /\ b.orders \in [OrderIds -> OrderRows]
      /\ b.balances \in Balances /\ b.positions \in Positions
      /\ o \in OrderIds /\ {o} \in SUBSET OrderIds
      /\ b.orders[o].state \in LiveStates /\ b.orders[o] \in OrderRows
  BY SoundFields DEF Active, LiveStates
<1>2. Core(c) = Release(Core(b), {o}, state) /\ ReplayBook(c) /\ Beside(b, c)
  BY <1>1, ReleaseCore
<1>3. SoundBook(c)
  <2>1. \A r \in {o} : Core(b).orders[r].state \in LiveStates
    BY <1>1, CoreFields
  <2> QED BY <1>1, <1>2, <2>1, ReleaseKeeps DEF SoundBook
<1>4. PICK N, freed, shares : Released(Core(b), {o}, state, Core(c), N, freed, shares)
  BY <1>1, <1>2, ReleaseFields
<1>5. PICK closed : closed = Closed(b.orders[o], state)
  OBVIOUS
<1>6. /\ closed.state = state /\ closed.session = b.orders[o].session
      /\ closed.instrument = b.orders[o].instrument /\ closed.side = b.orders[o].side
  <2>1. state \in OrderStates \ LiveStates
    BY DEF OrderStates, LiveStates
  <2> QED BY <1>1, <1>5, <2>1, ClosedFields
<1>7. /\ N = RowsOfRelease(Core(b), {o})
      /\ freed = SumFunctionOnSet(CashOf(b.orders), {o})
      /\ c.balances = Plus(b.balances, Delta(freed, -freed, 0, 0))
      /\ c.positions = [i \in Instruments |-> [b.positions[i] EXCEPT !.reserved = @ - shares[i]]]
      /\ c.orders = [r \in OrderIds |-> IF r \in {o} THEN Closed(b.orders[r], state) ELSE b.orders[r]]
      /\ c.ledger = b.ledger \cup N /\ c.recorded = b.recorded
  <2>1. /\ N = RowsOfRelease(Core(b), {o})
        /\ freed = SumFunctionOnSet(CashOf(Core(b).orders), {o})
        /\ Core(c).balances = Plus(Core(b).balances, Delta(freed, -freed, 0, 0))
        /\ Core(c).positions = [i \in Instruments |-> [Core(b).positions[i] EXCEPT !.reserved = @ - shares[i]]]
        /\ Core(c).orders = [r \in OrderIds |-> IF r \in {o} THEN Closed(Core(b).orders[r], state)
                                                             ELSE Core(b).orders[r]]
        /\ Core(c).ledger = Core(b).ledger \cup N /\ Core(c).recorded = Core(b).recorded
    BY <1>4 DEF Released, Core
  <2>2. /\ Core(b).balances = b.balances /\ Core(b).positions = b.positions /\ Core(b).orders = b.orders
        /\ Core(b).ledger = b.ledger /\ Core(b).recorded = b.recorded
        /\ Core(c).balances = c.balances /\ Core(c).positions = c.positions /\ Core(c).orders = c.orders
        /\ Core(c).ledger = c.ledger /\ Core(c).recorded = c.recorded
    BY CoreFields
  <2> QED BY <2>1, <2>2
<1>8. c.orders[o] = closed /\ \A r \in OrderIds \ {o} : c.orders[r] = b.orders[r]
  BY <1>1, <1>5, <1>7
<1>9. OrdersOwn(c)
  <2>1. b.orders[o].state # "none"
    BY <1>1 DEF LiveStates
  <2>2. OnlyState(b, c, o)
    BY <1>6, <1>8, <2>1 DEF OnlyState
  <2> QED BY <1>1, <2>2, OwnStays
<1>10. \A e \in N : e.at <= t
  BY <1>7 DEF RowsOfRelease, ReleaseRow, Row
<1>11. Stands(b, c)
  <2>1. PICK y, m, n, w : w = 0 /\ y = -freed /\ m = b.balances /\ n = c.balances
    OBVIOUS
  <2>2. freed \in Nat /\ y \in Int /\ w \in Int /\ m \in Balances /\ Gains(m, n, freed, y, w, w)
    <3>1. freed \in Nat
      <4>1. PICK f : f = CashOf(b.orders)
        OBVIOUS
      <4>2. \A r \in {o} : f[r] \in Nat
        BY <1>1, <4>1, OrderTerms
      <4>3. IsFiniteSet({o})
        BY FS_Singleton
      <4> QED BY <1>7, <4>1, <4>2, <4>3, SumNat
    <3> QED BY <1>1, <1>7, <2>1, <3>1 DEF Gains
  <2>3. /\ n.available = m.available + freed /\ n.reserved = m.reserved + y
        /\ n.unsettled = m.unsettled + w /\ n.dividends = m.dividends + w
    BY <2>2, GainsFields
  <2>4. m.available \in Nat /\ m.reserved \in Nat /\ m.unsettled \in Nat /\ m.dividends \in Nat
    BY <2>2 DEF Balances
  <2>5. Total(n) = Total(m)
    BY <2>1, <2>2, <2>3, <2>4 DEF Total
  <2>6. \A i \in Instruments : c.positions[i].quantity = b.positions[i].quantity
    BY <1>1, <1>7 DEF Positions
  <2> QED BY <1>2, <2>1, <2>5, <2>6 DEF Stands, Beside
<1>12. Touches(b, c, o, t)
  BY <1>2, <1>3, <1>7, <1>8, <1>9, <1>10 DEF Touches, Beside
<1> QED BY <1>2, <1>6, <1>8, <1>11, <1>12 DEF Beside

LEMMA Advancing ==
    ASSUME NEW b, SoundBook(b), OrdersOwn(b), NEW o \in Active(b), NEW t \in Nat, NEW c, c = Advance(b, {o})
    PROVE  Touches(b, c, o, t) /\ Stands(b, c) /\ c.broken = b.broken /\ c.orders[o].state = "awaiting_bar"
<1>1. /\ ReplayBook(b) /\ BookInv(Core(b)) /\ BookTypes(Core(b)) /\ o \in OrderIds /\ {o} \in SUBSET OrderIds
      /\ b.orders[o].state \in LiveStates /\ b.orders[o] \in OrderRows /\ b.orders[o].state # "none"
  BY SoundFields DEF Active, LiveStates
<1>2. Core(c) = Advance(Core(b), {o}) /\ ReplayBook(c) /\ Beside(b, c)
  BY <1>1, AdvanceCore
<1>3. \A r \in {o} : Core(b).orders[r].state \in LiveStates
  BY <1>1, CoreFields
<1>4. SoundBook(c)
  BY <1>1, <1>2, <1>3, AdvanceKeeps DEF SoundBook
<1>5. /\ Core(c).balances = Core(b).balances /\ Core(c).positions = Core(b).positions
      /\ Core(c).ledger = Core(b).ledger /\ Core(c).recorded = Core(b).recorded
      /\ \A r \in {o} : Core(c).orders[r] = [Core(b).orders[r] EXCEPT !.state = "awaiting_bar"]
      /\ \A r \in OrderIds \ {o} : Core(c).orders[r] = Core(b).orders[r]
  <2>1. PICK d, e, S : d = Core(b) /\ e = Core(c) /\ S = {o}
    OBVIOUS
  <2>2. BookTypes(d) /\ S \in SUBSET OrderIds /\ (\A r \in S : d.orders[r].state \in LiveStates) /\ e = Advance(d, S)
    BY <1>1, <1>2, <1>3, <2>1
  <2>3. /\ e.balances = d.balances /\ e.positions = d.positions /\ e.ledger = d.ledger
        /\ e.recorded = d.recorded
        /\ \A r \in S : e.orders[r] = [d.orders[r] EXCEPT !.state = "awaiting_bar"]
        /\ \A r \in OrderIds \ S : e.orders[r] = d.orders[r]
    BY <2>2, AdvanceOrders
  <2> QED BY <2>1, <2>3
<1>6. /\ c.balances = b.balances /\ c.positions = b.positions
      /\ c.ledger = b.ledger /\ c.recorded = b.recorded
      /\ c.orders[o] = [b.orders[o] EXCEPT !.state = "awaiting_bar"]
      /\ \A r \in OrderIds \ {o} : c.orders[r] = b.orders[r]
  BY <1>5, CoreFields
<1>7. /\ c.orders[o].state = "awaiting_bar" /\ c.orders[o].session = b.orders[o].session
      /\ c.orders[o].instrument = b.orders[o].instrument /\ c.orders[o].side = b.orders[o].side
  BY <1>1, <1>6 DEF OrderRows
<1>8. OrdersOwn(c)
  <2>1. OnlyState(b, c, o)
    BY <1>1, <1>6, <1>7 DEF OnlyState
  <2> QED BY <1>1, <2>1, OwnStays
<1> QED BY <1>2, <1>4, <1>6, <1>7, <1>8 DEF Touches, Stands, Beside

(* What the open of session j says, as known at t.                         *)
LEMMA OpensIs ==
    ASSUME NEW s, Frozen(s), NEW j \in Window, NEW t, NEW prices, prices = Opens(s, j, t)
    PROVE  /\ prices \in [Instruments -> Nat]
           /\ \A i \in Instruments : Opened(s, j, i, t) =>
                 prices[i] = s.days[j].bars[i].open /\ prices[i] \in Nat \ {0}
<1>1. j \in {0} \cup Window /\ j - 1 \in {0} \cup Window
  BY BookAssumption DEF Window
<1>2. ASSUME NEW i \in Instruments
      PROVE  /\ prices[i] \in Nat
             /\ Opened(s, j, i, t) => prices[i] = s.days[j].bars[i].open /\ prices[i] \in Nat \ {0}
  <2>1. prices[i] = IF Opened(s, j, i, t) THEN s.days[j].bars[i].open ELSE Close(s, j - 1, i, OpenAt(j) - 1)
    BY DEF Opens
  <2>2. Close(s, j - 1, i, OpenAt(j) - 1) \in Nat
    BY <1>1, FrozenFields
  <2>3. Opened(s, j, i, t) => s.days[j].bars[i].open \in Nat \ {0}
    BY <1>1, FrozenFields DEF Opened, Selected
  <2> QED BY <2>1, <2>2, <2>3
<1> QED BY <1>2 DEF Opens

(* A fill of order o, confirmed as session k has closed.                   *)
Trades(s, b, c, o, k, q) ==
    LET prices == Opens(s, o[1], CloseAt(k))
        price == SlippedPrice(prices[o[2]], SideOf(o)) IN
    /\ q \in Nat \ {0} /\ prices[o[2]] > 0
    /\ Admissible(Facing(b, o, prices), o, price, q)
    /\ Exchanged(b, c, o, price, q)
    /\ c.fills = b.fills \cup {Reported(o, o[2], SignedBy(o, q), price, OpenAt(o[1]), CloseAt(k))}

Reports(f, o, price, q, at, recorded) == f = Reported(o, o[2], SignedBy(o, q), price, at, recorded)

LEMMA ReportedIs ==
    ASSUME NEW o \in OrderIds, NEW price \in Nat, NEW q \in Nat \ {0}, NEW at \in Nat, NEW recorded \in Nat,
           NEW f, Reports(f, o, price, q, at, recorded)
    PROVE  /\ f \in FillReports /\ f.of = o /\ f.instrument = o[2] /\ f.quantity = SignedBy(o, q)
           /\ f.gross = GrossValue(price, q) /\ f.fee = TradeFee(GrossValue(price, q))
           /\ f.at = at /\ f.recorded = recorded /\ Shares(f) = q
<1>1. PICK n : n = SignedBy(o, q)
  OBVIOUS
<1>2. n \in Int /\ (IF n < 0 THEN -n ELSE n) = q
  BY <1>1 DEF SignedBy
<1>3. f = [of |-> o, instrument |-> o[2], quantity |-> n, gross |-> GrossValue(price, q),
           fee |-> TradeFee(GrossValue(price, q)), at |-> at, recorded |-> recorded]
  BY <1>1, <1>2 DEF Reported, Reports
<1>4. GrossValue(price, q) \in Nat /\ TradeFee(GrossValue(price, q)) \in Nat
  BY MoneyTypes
<1> QED BY <1>1, <1>2, <1>3, <1>4, ReasonsArePasses DEF FillReports, Shares

LEMMA SameFillsFine ==
    ASSUME NEW b, FillsFine(b), NEW c, c.fills = b.fills,
           \A f \in b.fills : c.orders[f.of] = b.orders[f.of]
    PROVE  FillsFine(c)
<1>1. \A f \in b.fills : FillFine(b, f) /\ IsFiniteSet(b.fills)
  BY DEF FillsFine
<1>2. ASSUME NEW f \in b.fills PROVE FillFine(c, f)
  BY <1>1, <1>2 DEF FillFine
<1> QED BY <1>1, <1>2 DEF FillsFine

Executed(s, b, c, o, k) ==
    /\ Touches(b, c, o, OpenAt(k)) /\ FillsFine(c) /\ c.orders[o].state # "none"
    /\ c.broken \/ Stands(b, c) \/ \E q : Trades(s, b, c, o, k, q)

LEMMA Executing ==
    ASSUME NEW s, Frozen(s), NEW b, SoundBook(b), OrdersOwn(b), FillsFine(b), NEW k \in Window,
           NEW o \in Active(b), o[1] <= k, NEW c, c = Execute(s, b, o, k)
    PROVE  Executed(s, b, c, o, k)
<1>1. PICK order, prices, price, q :
        /\ order = b.orders[o]
        /\ prices = Opens(s, order.session, CloseAt(k))
        /\ price = SlippedPrice(prices[o[2]], order.side)
        /\ q = Matched(b, o, price, prices)
  OBVIOUS
<1>2. /\ o \in OrderIds /\ o[1] \in Window /\ o[1] \in Nat /\ o[2] \in Instruments /\ k \in Nat
      /\ order.state \in LiveStates /\ order.state # "none"
      /\ order.session = o[1] /\ order.side = SideOf(o)
      /\ OpenAt(k) \in Nat /\ OpenAt(o[1]) \in Nat /\ CloseAt(k) \in Nat
      /\ OpenAt(o[1]) <= OpenAt(k) /\ CloseAt(o[1]) <= CloseAt(k)
  <2>1. o \in OrderIds /\ order.state \in LiveStates /\ order.state # "none"
    BY <1>1 DEF Active, LiveStates
  <2>2. o[1] \in Window /\ o[1] \in Nat /\ o[2] \in Instruments /\ k \in Nat
    BY <2>1, ReasonsArePasses DEF Window
  <2>3. order.session = o[1] /\ order.side = SideOf(o)
    BY <1>1, <2>1 DEF OrdersOwn, OwnOrder, SideOf
  <2> QED BY <2>1, <2>2, <2>3 DEF OpenAt, CloseAt
<1>3. prices \in [Instruments -> Nat]
  BY <1>1, <1>2, OpensIs
<1>4. ASSUME NEW d, Touches(b, d, o, OpenAt(k)), d.fills = b.fills PROVE FillsFine(d)
  <2>1. \A f \in b.fills : f.of \in OrderIds /\ f.of # o
    BY <1>1, <1>2, FillReportFields DEF FillsFine, FillFine, IsLive
  <2>2. \A f \in b.fills : d.orders[f.of] = b.orders[f.of]
    BY <1>4, <2>1 DEF Touches
  <2> QED BY <1>4, <2>2, SameFillsFine
<1>5. CASE \E state \in {"expired", "rejected"} : c = Release(b, {o}, state)
  <2>1. PICK state \in {"expired", "rejected"} : c = Release(b, {o}, state)
    BY <1>5
  <2>2. Touches(b, c, o, OpenAt(k)) /\ Stands(b, c) /\ c.orders[o].state # "none"
    <3>1. PICK t, S : t = OpenAt(k) /\ S = {o}
      OBVIOUS
    <3>2. t \in Nat /\ state \in {"expired", "rejected", "cancelled"} /\ state # "none"
          /\ S = {o} /\ c = Release(b, S, state)
      BY <1>2, <2>1, <3>1
    <3>3. Touches(b, c, o, t) /\ Stands(b, c) /\ c.orders[o].state = state
      BY <3>2, Releasing
    <3> QED BY <3>1, <3>2, <3>3
  <2>3. c.fills = b.fills
    BY <2>2 DEF Stands
  <2> QED BY <1>4, <2>2, <2>3 DEF Executed
<1>6. CASE c = Advance(b, {o})
  <2>1. Touches(b, c, o, OpenAt(k)) /\ Stands(b, c) /\ c.orders[o].state # "none"
    BY <1>2, <1>6, Advancing
  <2>2. c.fills = b.fills
    BY <2>1 DEF Stands
  <2> QED BY <1>4, <2>1, <2>2 DEF Executed
<1>7. CASE c = Break(b)
  <2>1. Touches(b, c, o, OpenAt(k)) /\ c.broken /\ c.fills = b.fills /\ c.orders = b.orders
    BY <1>7, TouchesBroken
  <2> QED BY <1>1, <1>2, <1>4, <2>1 DEF Executed
<1>8. CASE Opened(s, o[1], o[2], CloseAt(k)) /\ q # 0 /\ CanFill(b, o, price, q)
           /\ c = [Fill(b, o, price, q) EXCEPT
             !.fills = @ \cup {Reported(o, o[2], IF order.side = "buy" THEN q ELSE -q, price,
                                        OpenAt(order.session), CloseAt(k))}]
  <2>1. prices[o[2]] \in Nat \ {0} /\ price \in Nat \ {0} /\ price = SlippedPrice(prices[o[2]], SideOf(o))
    <3>1. prices[o[2]] \in Nat \ {0}
      BY <1>1, <1>2, <1>8, OpensIs
    <3>2. price \in Nat /\ price > 0
      BY <1>1, <3>1, PricesSlip
    <3> QED BY <1>1, <1>2, <3>1, <3>2
  <2>2. PICK p : p = Facing(b, o, prices)
    OBVIOUS
  <2>3. q \in Nat \ {0} /\ Admissible(p, o, price, q)
    <3>1. q \in Nat /\ (q # 0 => Admissible(p, o, price, q))
      BY <1>1, <1>3, <2>1, <2>2, MatchedIs
    <3> QED BY <1>8, <3>1
  <2>4. PICK f : f = Reported(o, o[2], SignedBy(o, q), price, OpenAt(o[1]), CloseAt(k))
    OBVIOUS
  <2>5. (IF order.side = "buy" THEN q ELSE -q) = SignedBy(o, q)
    BY <1>2 DEF SideOf, SignedBy
  <2>6. Fill(b, o, price, q).fills = b.fills
    BY SoundFields, FillCore DEF Beside
  <2>7. c = [Fill(b, o, price, q) EXCEPT !.fills = b.fills \cup {f}]
    BY <1>2, <1>8, <2>4, <2>5, <2>6
  <2>8. /\ Touches(b, c, o, OpenAt(k)) /\ c.fills = b.fills \cup {f} /\ c.broken = b.broken
        /\ ~IsLive(c.orders[o]) /\ c.orders[o].state # "none"
        /\ Exchanged(b, c, o, price, q)
    <3>1. PICK t, fills : t = OpenAt(k) /\ fills = b.fills \cup {f}
      OBVIOUS
    <3>2. t \in Nat /\ OpenAt(o[1]) <= t /\ price \in Nat /\ CanFill(b, o, price, q)
          /\ FillsTo(b, c, o, price, q, fills)
      BY <1>2, <1>8, <2>1, <2>7, <3>1 DEF FillsTo
    <3>3. /\ Touches(b, c, o, t) /\ c.fills = fills /\ c.broken = b.broken
          /\ ~IsLive(c.orders[o]) /\ c.orders[o].state # "none"
          /\ Exchanged(b, c, o, price, q)
      BY <2>3, <3>2, FillingIs
    <3> QED BY <3>1, <3>3
  <2>9. FillsFine(c)
    <3>1. FillFine(c, f)
      <4>1. PICK at, recorded : at = OpenAt(o[1]) /\ recorded = CloseAt(k)
        OBVIOUS
      <4>2. at \in Nat /\ recorded \in Nat /\ price \in Nat /\ Reports(f, o, price, q, at, recorded)
        BY <1>2, <2>1, <2>4, <4>1 DEF Reports
      <4>3. f \in FillReports /\ f.of = o /\ f.instrument = o[2] /\ f.at = at /\ f.recorded = recorded
        BY <1>2, <2>3, <4>2, ReportedIs
      <4> QED BY <1>2, <2>8, <4>1, <4>3 DEF FillFine
    <3>2. ASSUME NEW e \in b.fills PROVE FillFine(c, e)
      <4>1. FillFine(b, e) /\ e.of \in OrderIds /\ e.of # o
        <5>1. FillFine(b, e)
          BY <1>1, <3>2 DEF FillsFine
        <5>2. e.of \in OrderIds /\ ~IsLive(b.orders[e.of])
          BY <5>1, FillReportFields DEF FillFine
        <5> QED BY <1>1, <1>2, <5>1, <5>2 DEF IsLive
      <4>2. c.orders[e.of] = b.orders[e.of]
        BY <2>8, <4>1 DEF Touches
      <4> QED BY <4>1, <4>2 DEF FillFine
    <3>3. IsFiniteSet(b.fills \cup {f})
      <4>1. IsFiniteSet(b.fills)
        BY <1>1 DEF FillsFine
      <4> QED BY <4>1, FS_AddElement
    <3>4. \A e \in b.fills \cup {f} : FillFine(c, e)
      BY <3>1, <3>2
    <3>5. c.fills = b.fills \cup {f}
      BY <2>8
    <3> QED BY <3>3, <3>4, <3>5 DEF FillsFine
  <2>10. Trades(s, b, c, o, k, q)
    <3>1. prices = Opens(s, o[1], CloseAt(k))
      BY <1>1, <1>2
    <3>2. q \in Nat \ {0} /\ Admissible(Facing(b, o, prices), o, price, q)
      BY <2>2, <2>3
    <3>3. c.fills = b.fills \cup {Reported(o, o[2], SignedBy(o, q), price, OpenAt(o[1]), CloseAt(k))}
      BY <2>4, <2>8
    <3> QED BY <2>1, <2>8, <3>1, <3>2, <3>3 DEF Trades
  <2> QED BY <2>8, <2>9, <2>10 DEF Executed
<1> QED
  <2>1. c = IF ~Opened(s, order.session, o[2], CloseAt(k))
            THEN IF ExpiresAt(order.session) <= CloseAt(k) THEN Release(b, {o}, "expired") ELSE Advance(b, {o})
            ELSE IF ~Priced(b, prices) THEN Break(b)
            ELSE IF q = 0 THEN Release(b, {o}, "rejected")
            ELSE IF ~CanFill(b, o, price, q) THEN Break(b)
            ELSE [Fill(b, o, price, q) EXCEPT
             !.fills = @ \cup {Reported(o, o[2], IF order.side = "buy" THEN q ELSE -q, price,
                                        OpenAt(order.session), CloseAt(k))}]
    BY <1>1 DEF Execute
  <2> QED BY <1>2, <1>5, <1>6, <1>7, <1>8, <2>1

-------------------------------------------------------------------------------
(* A replayed book that has applied what took effect by u for the          *)
(* instruments of S, and holds no row from later.                          *)
BookAt(s, b, S, u) ==
    /\ SoundBook(b) /\ OrdersOwn(b) /\ FillsFine(b) /\ b.peak \in Nat
    /\ Past(b, u) /\ Caught(s, b, S, u)

LEMMA NewReplayBookFine ==
    /\ SoundBook(NewReplayBook) /\ OrdersOwn(NewReplayBook) /\ FillsFine(NewReplayBook)
    /\ NewReplayBook.peak \in Nat /\ ~NewReplayBook.broken /\ Active(NewReplayBook) = {}
    /\ \A k : NoneFrom(NewReplayBook, k)
    /\ \A s, S : BookAt(s, NewReplayBook, S, 0)
<1>1. PICK b : b = NewReplayBook
  OBVIOUS
<1>2. /\ b.balances = NewBooks.balances /\ b.positions = NewBooks.positions /\ b.orders = NewBooks.orders
      /\ b.ledger = NewBooks.ledger /\ b.recorded = NewBooks.recorded /\ b.splits = NewBooks.splits
      /\ b.fills = {} /\ b.peak = InitialCash /\ b.broken = FALSE /\ ReplayBook(b)
  BY <1>1 DEF NewReplayBook, ReplayBook
<1>3. Core(b) = NewBooks
  BY <1>2 DEF Core, NewBooks
<1>4. SoundBook(b)
  BY <1>2, <1>3, NewBooksFine DEF SoundBook, BookInv
<1>5. \A o \in OrderIds : b.orders[o].state = "none"
  BY <1>2 DEF NewBooks, NoOrder
<1>6. /\ OrdersOwn(b) /\ Active(b) = {} /\ \A k : NoneFrom(b, k)
  BY <1>5 DEF OrdersOwn, OwnOrder, Active, NoneFrom
<1>7. FillsFine(b)
  BY <1>2, FS_EmptySet DEF FillsFine
<1>8. Past(b, 0)
  BY <1>2 DEF NewBooks, Row, Past
<1>9. \A s, S : Caught(s, b, S, 0)
  <2>1. \A a \in Actions : EffectiveAt[a] > 0
    BY ActionAssumption, BookAssumption DEF CloseAt
  <2> QED BY <2>1, ActionTimes DEF Caught, Timely
<1> QED BY <1>1, <1>2, <1>4, <1>6, <1>7, <1>8, <1>9, BookAssumption DEF BookAt

ReconciledTo(s, b, c, S, t) ==
    /\ BookAt(s, c, S, t) /\ (b.broken => c.broken) /\ c.fills = b.fills /\ c.peak = b.peak
    /\ c.automatic = b.automatic
    /\ Active(c) \subseteq Active(b)
    /\ \A k : NoneFrom(b, k) => NoneFrom(c, k)

LEMMA Reconciling ==
    ASSUME NEW s, Frozen(s), NEW b, NEW S, NEW u \in Nat, BookAt(s, b, S, u), NEW t \in Nat, u <= t,
           NEW asOf, NEW c, c = Reconcile(s, b, t, asOf, S)
    PROVE  ReconciledTo(s, b, c, S, t)
<1>1. SoundBook(b) /\ OrdersOwn(b) /\ FillsFine(b) /\ b.peak \in Nat /\ Past(b, u) /\ Caught(s, b, S, u)
  BY DEF BookAt
<1>2. Carried(b, c, t, Actions) /\ Past(c, t) /\ Caught(s, c, S, t)
  BY <1>1, ReconcileKeeps DEF Frozen
<1>3. /\ SoundBook(c) /\ c.fills = b.fills /\ c.peak = b.peak /\ c.automatic = b.automatic
      /\ (b.broken => c.broken) /\ CancelOnly(b, c)
  BY <1>2 DEF Carried
<1>4. /\ OrdersOwn(c) /\ Active(c) \subseteq Active(b) /\ \A k : NoneFrom(b, k) => NoneFrom(c, k)
  BY <1>1, <1>3, CarriedOrders
<1>5. FillsFine(c)
  <2>1. \A f \in b.fills : f.of \in OrderIds /\ ~IsLive(b.orders[f.of])
    BY <1>1, FillReportFields DEF FillsFine, FillFine
  <2>2. \A f \in b.fills : c.orders[f.of] = b.orders[f.of]
    BY <1>3, <2>1 DEF CancelOnly, Cancelling
  <2> QED BY <1>1, <1>3, <2>2, SameFillsFine
<1> QED BY <1>1, <1>2, <1>3, <1>4, <1>5 DEF BookAt, ReconciledTo

LEMMA TouchedAt ==
    ASSUME NEW s, NEW b, NEW S, NEW u, BookAt(s, b, S, u), NEW o, NEW c, Touches(b, c, o, u), FillsFine(c)
    PROVE  BookAt(s, c, S, u)
BY DEF BookAt, Touches, Past, Caught, Recorded

LEMMA LaterBook ==
    ASSUME NEW b, NEW k \in Nat, NoneFrom(b, k), FillsFine(b)
    PROVE  \A f \in b.fills : f.of \in OrderIds /\ f.of[1] < k
<1>1. SUFFICES ASSUME NEW f \in b.fills PROVE f.of \in OrderIds /\ f.of[1] < k
  OBVIOUS
<1>2. f.of \in OrderIds /\ b.orders[f.of].state # "none" /\ f.of[1] \in Nat
  BY <1>1, FillReportFields, ReasonsArePasses DEF FillsFine, FillFine
<1> QED BY <1>2 DEF NoneFrom

(* The benchmark's purchase.                                               *)
Affords(b, price) ==
    {n \in 0 .. Capacity[Benchmark] : n = 0 \/ PurchaseCost(price, n) <= b.balances.available}
BenchmarkOrder(k, price, q) ==
    [NoOrder EXCEPT !.state = "pending", !.instrument = Benchmark, !.quantity = q,
                    !.capacity = Capacity[Benchmark], !.cash = PurchaseCost(price, q), !.session = k]

LEMMA BenchmarkBought ==
    ASSUME NEW s, Frozen(s), NEW k \in Window, NEW b, NEW S, BookAt(s, b, S, OpenAt(k)), NoneFrom(b, k),
           NEW c, c = BuyBenchmark(s, b, k)
    PROVE  BookAt(s, c, S, OpenAt(k))
<1>1. /\ SoundBook(b) /\ OrdersOwn(b) /\ FillsFine(b) /\ b.balances.available \in Nat
      /\ k \in Nat /\ k \in Sessions /\ OpenAt(k) \in Nat /\ CloseAt(k) \in Nat /\ Benchmark \in Instruments
      /\ k \in {0} \cup Window
  <2>1. /\ SoundBook(b) /\ OrdersOwn(b) /\ FillsFine(b)
    BY DEF BookAt
  <2>2. b.balances.available \in Nat
    BY <2>1, SoundFields DEF Balances
  <2>3. k \in Nat /\ k \in Sessions /\ OpenAt(k) \in Nat /\ CloseAt(k) \in Nat
    BY ReasonsArePasses DEF Window, Sessions, OpenAt, CloseAt
  <2> QED BY <2>1, <2>2, <2>3, BacktestAssumption
<1>p. PICK price : price = SlippedPrice(s.days[k].bars[Benchmark].open, "buy")
  OBVIOUS
<1>q. PICK q : q = Max(Affords(b, price))
  OBVIOUS
<1>o. PICK o : o = <<k, Benchmark, "entry_signal">>
  OBVIOUS
<1>r. PICK order : order = BenchmarkOrder(k, price, q)
  OBVIOUS
<1>2. /\ price = SlippedPrice(s.days[k].bars[Benchmark].open, "buy") /\ q = Max(Affords(b, price))
      /\ o = <<k, Benchmark, "entry_signal">> /\ order = BenchmarkOrder(k, price, q)
  BY <1>p, <1>q, <1>o, <1>r
<1>3. PICK t, f : t = OpenAt(k) /\ f = Reported(o, Benchmark, q, price, OpenAt(k), CloseAt(k))
  OBVIOUS
<1>4. c = IF b.broken \/ ~Opened(s, k, Benchmark, CloseAt(k)) THEN Break(b)
          ELSE IF q = 0 THEN Break(b)
          ELSE [Fill(Reserve(b, o, order), o, price, q) EXCEPT !.fills = {f}]
  BY <1>2, <1>3, Zenon DEF BuyBenchmark, Affords, BenchmarkOrder
<1>5. CASE c = Break(b)
  <2>1. Touches(b, c, o, t) /\ c.fills = b.fills /\ c.orders = b.orders
    BY <1>1, <1>5, TouchesBroken
  <2>2. FillsFine(c)
    BY <1>1, <2>1, SameFillsFine
  <2> QED BY <1>3, <2>1, <2>2, TouchedAt
<1>6. CASE /\ Opened(s, k, Benchmark, CloseAt(k)) /\ q # 0
           /\ c = [Fill(Reserve(b, o, order), o, price, q) EXCEPT !.fills = {f}]
  <2>1. price \in Nat \ {0}
    <3>1. s.days[k].bars[Benchmark].open \in Nat \ {0}
      BY <1>1, <1>6, FrozenFields DEF Opened, Selected
    <3>2. price \in Nat /\ price > 0
      BY <1>2, <3>1, PricesSlip
    <3> QED BY <3>2
  <2>2. /\ q \in Nat \ {0} /\ PurchaseCost(price, q) <= b.balances.available
        /\ PurchaseCost(price, q) \in Nat \ {0} /\ Capacity[Benchmark] \in Nat
    <3>1. Capacity[Benchmark] \in Nat
      BY <1>1, BacktestAssumption
    <3>2. Affords(b, price) \in SUBSET (0 .. Capacity[Benchmark]) /\ 0 \in Affords(b, price)
      BY <3>1 DEF Affords
    <3>3. q \in Affords(b, price)
      BY <1>2, <3>1, <3>2, MaxUpTo
    <3>4. q \in Nat \ {0} /\ PurchaseCost(price, q) <= b.balances.available
      BY <1>6, <3>1, <3>3 DEF Affords
    <3>5. PurchaseCost(price, q) \in Nat \ {0}
      <4>1. PICK gross, fee : gross = GrossValue(price, q) /\ fee = TradeFee(gross)
        OBVIOUS
      <4>2. price \in Nat /\ q \in Nat
        BY <2>1, <3>4
      <4>3. gross \in Nat /\ fee \in Nat \ {0} /\ PurchaseCost(price, q) = gross + fee
        BY <4>1, <4>2, MoneyTypes
      <4> QED BY <4>3
    <3> QED BY <3>1, <3>4, <3>5
  <2>3. /\ order \in OrderRows /\ order.state = "pending" /\ order.side = "buy" /\ order.instrument = Benchmark
        /\ order.session = k /\ order.cash = PurchaseCost(price, q) /\ order.shares = 0
    <3>1. order = [state |-> "pending", side |-> "buy", instrument |-> Benchmark, quantity |-> q,
                   capacity |-> Capacity[Benchmark], cash |-> PurchaseCost(price, q), shares |-> 0, session |-> k]
      BY <1>2 DEF BenchmarkOrder, NoOrder
    <3>2. PurchaseCost(price, q) \in Nat /\ q \in Nat
      BY <2>2
    <3> QED BY <1>1, <2>2, <3>1, <3>2 DEF OrderRows, OrderStates
  <2>4. o \in OrderIds /\ o[1] = k /\ o[2] = Benchmark /\ o[3] = "entry_signal" /\ ~Sale(o)
    BY <1>1, <1>2, ReasonsArePasses DEF Reasons, Sale
  <2>5. b.orders[o].state = "none"
    BY <1>1, <2>4 DEF NoneFrom
  <2>6. PICK d : d = Reserve(b, o, order)
    OBVIOUS
  <2>7. Touches(b, d, o, t) /\ d.fills = b.fills /\ d.broken = b.broken /\ d.orders[o] = order
    <3>1. OwnOrder(order, o) /\ OrderFine(order)
      BY <1>1, <2>3, <2>4 DEF OwnOrder, OrderFine, LiveStates
    <3>2. CanReserve(b, order) /\ OpensLater(b, order)
      BY <2>2, <2>3 DEF CanReserve, OpensLater
    <3> QED BY <1>1, <1>3, <2>3, <2>4, <2>5, <2>6, <3>1, <3>2, Reserving
  <2>8. SoundBook(d) /\ OrdersOwn(d) /\ o \in Active(d) /\ CanFill(d, o, price, q)
    BY <2>2, <2>3, <2>4, <2>7 DEF Touches, Active, CanFill
  <2>9. /\ Touches(d, c, o, t) /\ c.fills = {f} /\ ~IsLive(c.orders[o]) /\ c.orders[o].state # "none"
    <3>1. PICK fills : fills = {f}
      OBVIOUS
    <3>2. FillsTo(d, c, o, price, q, fills) /\ t \in Nat /\ OpenAt(o[1]) <= t /\ price \in Nat
          /\ SoundBook(d) /\ OrdersOwn(d) /\ o \in Active(d) /\ CanFill(d, o, price, q) /\ q \in Nat \ {0}
      BY <1>1, <1>3, <1>6, <2>1, <2>2, <2>4, <2>6, <2>8, <3>1 DEF FillsTo
    <3>3. Touches(d, c, o, t) /\ c.fills = fills /\ ~IsLive(c.orders[o]) /\ c.orders[o].state # "none"
      BY <3>2, FillingIs
    <3> QED BY <3>1, <3>3
  <2>10. FillsFine(c)
    <3>1. PICK at, recorded : at = OpenAt(k) /\ recorded = CloseAt(k)
      OBVIOUS
    <3>2. at \in Nat /\ recorded \in Nat /\ price \in Nat /\ Reports(f, o, price, q, at, recorded)
      BY <1>1, <1>3, <2>1, <2>4, <3>1 DEF Reports, SignedBy
    <3>3. f \in FillReports /\ f.of = o /\ f.instrument = o[2] /\ f.at = at /\ f.recorded = recorded
      BY <2>2, <2>4, <3>2, ReportedIs
    <3>4. FillFine(c, f)
      BY <1>1, <2>4, <2>9, <3>1, <3>3 DEF FillFine
    <3> QED BY <2>9, <3>4, FS_Singleton DEF FillsFine
  <2>11. Touches(b, c, o, t)
    BY <2>7, <2>9 DEF Touches
  <2> QED BY <1>3, <2>10, <2>11, TouchedAt
<1> QED BY <1>4, <1>5, <1>6

-------------------------------------------------------------------------------
(* The steps of a session.  Since(k): what had taken effect by then the    *)
(* book has applied as session k is about to be decided.                   *)
Since(k) == IF k = 1 THEN 0 ELSE CloseAt(k - 1)

LEMMA SessionTimes ==
    ASSUME NEW k \in Window
    PROVE  /\ k \in Nat \ {0} /\ k \in {0} \cup Window /\ k - 1 \in {0} \cup Window /\ k + 1 \in Nat
           /\ Since(k) \in Nat /\ CloseAt(k - 1) \in Nat /\ OpenAt(k) \in Nat /\ CloseAt(k) \in Nat
           /\ Since(k) <= CloseAt(k - 1) /\ CloseAt(k - 1) < OpenAt(k) /\ OpenAt(k) < CloseAt(k)
           /\ CloseAt(k - 1) <= OpenAt(k) /\ OpenAt(k) <= CloseAt(k) /\ Since(k) <= OpenAt(k)
           /\ Since(k + 1) = CloseAt(k)
BY ReasonsArePasses DEF Window, Since, OpenAt, CloseAt

PlannedTo(s, b, m, c, k) ==
    /\ BookAt(s, m, Universe, CloseAt(k - 1)) /\ NoneFrom(m, k) /\ m.fills = b.fills
    /\ BookAt(s, c, Universe, CloseAt(k - 1)) /\ NoneFrom(c, k + 1) /\ c.fills = b.fills
    /\ b.broken => c.broken

LEMMA EveningIs ==
    ASSUME NEW s, Frozen(s), NEW k \in Window, NEW b, BookAt(s, b, Universe, Since(k)), NoneFrom(b, k),
           NEW m, m = Reconcile(s, b, CloseAt(k - 1), CloseAt(k - 1), Universe), NEW c, c = Plan(s, m, k)
    PROVE  PlannedTo(s, b, m, c, k)
<1>1. /\ k \in Nat /\ Since(k) \in Nat /\ CloseAt(k - 1) \in Nat /\ Since(k) <= CloseAt(k - 1)
  BY SessionTimes
<1>2. PICK u, t : u = Since(k) /\ t = CloseAt(k - 1)
  OBVIOUS
<1>3. ReconciledTo(s, b, m, Universe, t)
  <2>1. u \in Nat /\ t \in Nat /\ u <= t /\ BookAt(s, b, Universe, u) /\ m = Reconcile(s, b, t, t, Universe)
    BY <1>1, <1>2
  <2> QED BY <2>1, Reconciling
<1>4. /\ BookAt(s, m, Universe, t) /\ NoneFrom(m, k) /\ m.fills = b.fills /\ (b.broken => m.broken)
      /\ SoundBook(m) /\ OrdersOwn(m) /\ FillsFine(m) /\ m.peak \in Nat /\ Past(m, CloseAt(k - 1))
      /\ Caught(s, m, Universe, t)
  BY <1>2, <1>3 DEF ReconciledTo, BookAt
<1>5. Placed(m, c, k)
  BY <1>4, PlanPlaces
<1>6. /\ SoundBook(c) /\ OrdersOwn(c) /\ Past(c, t) /\ c.fills = m.fills /\ c.peak \in Nat
      /\ (m.broken => c.broken) /\ c.recorded = m.recorded
      /\ \A r \in OrderIds : r[1] # k => c.orders[r] = m.orders[r]
  BY <1>2, <1>4, <1>5 DEF Placed
<1>7. FillsFine(c)
  <2>1. \A f \in m.fills : f.of \in OrderIds /\ f.of[1] < k
    BY <1>1, <1>4, LaterBook
  <2>2. \A f \in m.fills : c.orders[f.of] = m.orders[f.of]
    <3>1. SUFFICES ASSUME NEW f \in m.fills PROVE c.orders[f.of] = m.orders[f.of]
      OBVIOUS
    <3>2. f.of \in OrderIds /\ f.of[1] \in Nat /\ f.of[1] # k
      BY <1>1, <2>1, <3>1, ReasonsArePasses
    <3> QED BY <1>6, <3>2
  <2> QED BY <1>4, <1>6, <2>2, SameFillsFine
<1>8. Caught(s, c, Universe, t)
  BY <1>4, <1>6 DEF Caught, Recorded
<1>9. NoneFrom(c, k + 1)
  <2>1. SUFFICES ASSUME NEW o \in OrderIds, o[1] >= k + 1 PROVE c.orders[o].state = "none"
    BY DEF NoneFrom
  <2>2. o[1] \in Nat /\ o[1] >= k /\ o[1] # k
    BY <1>1, <2>1, ReasonsArePasses
  <2> QED BY <1>4, <1>6, <2>1, <2>2 DEF NoneFrom
<1>10. BookAt(s, c, Universe, t)
  BY <1>6, <1>7, <1>8 DEF BookAt
<1> QED BY <1>2, <1>4, <1>6, <1>9, <1>10 DEF PlannedTo

(* The morning after: the book its orders are executed on.                 *)
OpenedTo(s, b, d, k) ==
    /\ BookAt(s, d, Universe, OpenAt(k)) /\ NoneFrom(d, k + 1) /\ d.fills = b.fills

LEMMA Deciding ==
    ASSUME NEW s, Frozen(s), NEW k \in Window, NEW b, BookAt(s, b, Universe, Since(k)), NoneFrom(b, k),
           NEW d, d = Reconcile(s, Evening(s, b, k), OpenAt(k), CloseAt(k), Universe)
    PROVE  OpenedTo(s, b, d, k)
<1>1. PICK m : m = Reconcile(s, b, CloseAt(k - 1), CloseAt(k - 1), Universe)
  OBVIOUS
<1>2. PICK c : c = Plan(s, m, k)
  OBVIOUS
<1>3. PlannedTo(s, b, m, c, k)
  BY <1>1, <1>2, EveningIs
<1>4. PICK u, t, asOf : u = CloseAt(k - 1) /\ t = OpenAt(k) /\ asOf = CloseAt(k)
  OBVIOUS
<1>5. /\ u \in Nat /\ t \in Nat /\ u <= t /\ BookAt(s, c, Universe, u) /\ d = Reconcile(s, c, t, asOf, Universe)
  BY <1>1, <1>2, <1>3, <1>4, SessionTimes DEF PlannedTo, Evening
<1>6. ReconciledTo(s, c, d, Universe, t)
  BY <1>5, Reconciling
<1> QED BY <1>3, <1>4, <1>6 DEF PlannedTo, ReconciledTo, OpenedTo

NextExecuted(s, b, c, o, k, todo) ==
    /\ Executed(s, b, c, o, k) /\ BookAt(s, c, Universe, OpenAt(k)) /\ NoneFrom(c, k + 1)
    /\ todo \ {o} \subseteq Active(c)

LEMMA ExecutingNext ==
    ASSUME NEW s, Frozen(s), NEW k \in Window, NEW b, BookAt(s, b, Universe, OpenAt(k)), NoneFrom(b, k + 1),
           NEW todo \in SUBSET Active(b), NEW o \in todo, NEW c, c = Execute(s, b, o, k)
    PROVE  NextExecuted(s, b, c, o, k, todo) /\ o[1] <= k
<1>1. /\ SoundBook(b) /\ OrdersOwn(b) /\ FillsFine(b) /\ o \in Active(b) /\ o \in OrderIds
      /\ b.orders[o].state # "none" /\ k \in Nat /\ o[1] \in Nat
  BY SessionTimes, ReasonsArePasses DEF BookAt, Active
<1>2. o[1] <= k
  BY <1>1 DEF NoneFrom
<1>3. Executed(s, b, c, o, k)
  BY <1>1, <1>2, Executing
<1>4. Touches(b, c, o, OpenAt(k)) /\ FillsFine(c) /\ \A r \in OrderIds \ {o} : c.orders[r] = b.orders[r]
  BY <1>3 DEF Executed, Touches
<1>5. BookAt(s, c, Universe, OpenAt(k))
  BY <1>4, TouchedAt
<1>6. NoneFrom(c, k + 1)
  <2>1. SUFFICES ASSUME NEW r \in OrderIds, r[1] >= k + 1 PROVE c.orders[r].state = "none"
    BY DEF NoneFrom
  <2>2. r # o
    BY <1>1, <1>2, <2>1
  <2> QED BY <1>4, <2>1, <2>2 DEF NoneFrom
<1>7. todo \ {o} \subseteq Active(c)
  BY <1>4 DEF Active
<1> QED BY <1>2, <1>3, <1>5, <1>6, <1>7 DEF NextExecuted

(* A session's close, of the book and of the benchmark.                    *)
ClosedBook(b, prices) ==
    IF b.broken \/ ~Priced(b, prices) THEN Break(b) ELSE [b EXCEPT !.peak = Max({@, NAV(b, prices)})]

LEMMA BreakingAt ==
    ASSUME NEW s, NEW b, NEW S, NEW u, BookAt(s, b, S, u), NEW c, c = Break(b)
    PROVE  BookAt(s, c, S, u) /\ c.orders = b.orders
<1>1. SoundBook(b) /\ OrdersOwn(b) /\ FillsFine(b)
  BY DEF BookAt
<1>2. \A o : Touches(b, c, o, u) /\ c.fills = b.fills /\ c.orders = b.orders
  BY <1>1, TouchesBroken
<1>3. FillsFine(c)
  BY <1>1, <1>2, SameFillsFine
<1> QED BY <1>2, <1>3, TouchedAt

LEMMA RaisingPeak ==
    ASSUME NEW s, NEW b, NEW S, NEW u, BookAt(s, b, S, u), NEW peak \in Nat, NEW c, c = [b EXCEPT !.peak = peak]
    PROVE  BookAt(s, c, S, u) /\ c.orders = b.orders
<1>1. /\ SoundBook(b) /\ OrdersOwn(b) /\ FillsFine(b) /\ ReplayBook(b) /\ BookInv(Core(b))
      /\ Past(b, u) /\ Caught(s, b, S, u)
  BY DEF BookAt, SoundBook
<1>2. /\ c.balances = b.balances /\ c.positions = b.positions /\ c.orders = b.orders /\ c.ledger = b.ledger
      /\ c.recorded = b.recorded /\ c.splits = b.splits /\ c.fills = b.fills /\ c.broken = b.broken
      /\ c.peak = peak /\ c.automatic = b.automatic /\ ReplayBook(c)
  BY <1>1 DEF ReplayBook
<1>3. Core(c) = Core(b)
  BY <1>2 DEF Core
<1>4. SoundBook(c) /\ OrdersOwn(c) /\ FillsFine(c)
  BY <1>1, <1>2, <1>3, SameFillsFine DEF SoundBook, OrdersOwn
<1>5. Past(c, u) /\ Caught(s, c, S, u)
  BY <1>1, <1>2 DEF Past, Caught, Recorded
<1> QED BY <1>2, <1>4, <1>5 DEF BookAt

ClosedTo(s, b, c, k) ==
    /\ BookAt(s, c, Universe, CloseAt(k)) /\ NoneFrom(c, k + 1)
    /\ b.broken => c.broken

LEMMA Closing ==
    ASSUME NEW s, Frozen(s), NEW k \in Window, NEW b, BookAt(s, b, Universe, OpenAt(k)), NoneFrom(b, k + 1),
           NEW m, m = Reconcile(s, b, CloseAt(k), CloseAt(k), Universe),
           NEW c, c = ClosedBook(m, Closes(s, k, CloseAt(k)))
    PROVE  ClosedTo(s, b, c, k)
<1>1. PICK u, t : u = OpenAt(k) /\ t = CloseAt(k)
  OBVIOUS
<1>2. u \in Nat /\ t \in Nat /\ u <= t /\ BookAt(s, b, Universe, u) /\ m = Reconcile(s, b, t, t, Universe)
  BY <1>1, SessionTimes
<1>3. ReconciledTo(s, b, m, Universe, t)
  BY <1>2, Reconciling
<1>4. BookAt(s, m, Universe, t) /\ NoneFrom(m, k + 1) /\ (b.broken => m.broken) /\ SoundBook(m) /\ m.peak \in Nat
  BY <1>3 DEF ReconciledTo, BookAt
<1>5. PICK prices : prices = Closes(s, k, CloseAt(k))
  OBVIOUS
<1>6. prices \in [Instruments -> Nat]
  BY <1>5, FrozenFields, SessionTimes
<1>7. PICK peak : peak = Max({m.peak, NAV(m, prices)})
  OBVIOUS
<1>8. peak \in Nat
  <2>1. NAV(m, prices) \in Nat
    BY <1>4, <1>6, NavIs
  <2>2. PICK S : S = {m.peak, NAV(m, prices)}
    OBVIOUS
  <2>3. S \in SUBSET Int /\ IsFiniteSet(S) /\ S # {}
    <3>1. IsFiniteSet({m.peak} \cup {NAV(m, prices)})
      BY FS_Singleton, FS_Union
    <3>2. S = {m.peak} \cup {NAV(m, prices)}
      BY <2>2
    <3>3. IsFiniteSet(S)
      BY <3>1, <3>2
    <3> QED BY <1>4, <2>1, <2>2, <3>3
  <2>4. Max(S) \in S
    BY <2>3, ExtremesExist
  <2> QED BY <1>4, <1>7, <2>1, <2>2, <2>4
<1>9. c = IF m.broken \/ ~Priced(m, prices) THEN Break(m) ELSE [m EXCEPT !.peak = peak]
  BY <1>5, <1>7 DEF ClosedBook
<1>10. CASE c = Break(m)
  <2>1. BookAt(s, c, Universe, t) /\ c.orders = m.orders
    BY <1>4, <1>10, BreakingAt
  <2>2. \A o : Touches(m, c, o, t) /\ c.broken
    BY <1>4, <1>10, TouchesBroken DEF BookAt
  <2> QED BY <1>1, <1>4, <2>1, <2>2 DEF NoneFrom, ClosedTo
<1>11. CASE ~m.broken /\ c = [m EXCEPT !.peak = peak]
  <2>1. BookAt(s, c, Universe, t) /\ c.orders = m.orders
    BY <1>4, <1>8, <1>11, RaisingPeak
  <2> QED BY <1>1, <1>4, <1>11, <2>1 DEF NoneFrom, ClosedTo
<1> QED BY <1>9, <1>10, <1>11

LEMMA Following ==
    ASSUME NEW s, Frozen(s), NEW k \in Window, NEW b, BookAt(s, b, {Benchmark}, Since(k)),
           k = 1 => NoneFrom(b, 1), NEW c, c = FollowBenchmark(s, b, k)
    PROVE  BookAt(s, c, {Benchmark}, CloseAt(k))
<1>1. PICK u, t, v, S : u = Since(k) /\ t = OpenAt(k) /\ v = CloseAt(k) /\ S = {Benchmark}
  OBVIOUS
<1>2. u \in Nat /\ t \in Nat /\ v \in Nat /\ u <= t /\ t <= v /\ BookAt(s, b, S, u)
  BY <1>1, SessionTimes
<1>3. PICK opened : opened = Reconcile(s, b, t, v, S)
  OBVIOUS
<1>4. BookAt(s, opened, S, t) /\ (k = 1 => NoneFrom(opened, k))
  <2>1. ReconciledTo(s, b, opened, S, t)
    BY <1>2, <1>3, Reconciling
  <2> QED BY <2>1 DEF ReconciledTo
<1>5. PICK bought : bought = IF k = 1 THEN BuyBenchmark(s, opened, k) ELSE opened
  OBVIOUS
<1>6. BookAt(s, bought, S, t)
  <2>1. CASE k = 1
    <3>1. bought = BuyBenchmark(s, opened, k) /\ BookAt(s, opened, S, OpenAt(k)) /\ NoneFrom(opened, k)
      BY <1>1, <1>4, <1>5, <2>1
    <3>2. BookAt(s, bought, S, OpenAt(k))
      BY <3>1, BenchmarkBought
    <3> QED BY <1>1, <3>2
  <2>2. CASE k # 1
    BY <1>4, <1>5, <2>2
  <2> QED BY <2>1, <2>2
<1>7. PICK closed : closed = Reconcile(s, bought, v, v, S)
  OBVIOUS
<1>8. BookAt(s, closed, S, v)
  <2>1. ReconciledTo(s, bought, closed, S, v)
    BY <1>2, <1>6, <1>7, Reconciling
  <2> QED BY <2>1 DEF ReconciledTo
<1>9. c = IF Priced(closed, Closes(s, k, CloseAt(k))) THEN closed ELSE Break(closed)
  BY <1>1, <1>3, <1>5, <1>7, Zenon DEF FollowBenchmark
<1>10. CASE c = Break(closed)
  BY <1>1, <1>8, <1>10, BreakingAt
<1> QED BY <1>1, <1>8, <1>9, <1>10

-------------------------------------------------------------------------------
(* What TypeOK says of a book, of a sound one.                             *)
LEMMA BookIsBacked ==
    ASSUME NEW b, SoundBook(b), OrdersOwn(b)
    PROVE  BackedBook(b)
<1>1. /\ b.balances \in Balances /\ b.positions \in Positions /\ b.orders \in [OrderIds -> OrderRows]
      /\ BookInv(Core(b)) /\ Core(b).balances = b.balances /\ Core(b).positions = b.positions
      /\ Core(b).orders = b.orders
  BY SoundFields, CoreFields
<1>2. Active(b) \in SUBSET OrderIds /\ IsFiniteSet(OrderIds)
  BY BookAssumption DEF Active
<1>3. \A o \in OrderIds : b.orders[o].cash \in Nat /\ b.orders[o].shares \in Nat /\ OrderFine(b.orders[o])
  BY SoundFields, OrderFields
<1>4. \A o \in OrderIds \ Active(b) : b.orders[o].cash = 0 /\ b.orders[o].shares = 0
  BY <1>3 DEF Active, OrderFine, LiveStates
<1>5. b.balances.reserved = ReservedCash(b, Active(b))
  <2>1. PICK f, g, T : f = [o \in Active(b) |-> b.orders[o].cash] /\ g = CashOf(b.orders) /\ T = Active(b)
    OBVIOUS
  <2>2. DOMAIN f = T /\ Summable(f, T)
    BY <1>2, <1>3, <2>1 DEF Summable
  <2>3. (\A o \in T : g[o] = f[o]) /\ (\A o \in OrderIds \ T : g[o] = 0)
    BY <1>2, <1>4, <2>1 DEF CashOf
  <2>4. SumFunction(f) = SumFunctionOnSet(g, OrderIds)
    BY <1>2, <2>1, <2>2, <2>3, SumWritten
  <2>5. b.balances.reserved = SumFunctionOnSet(g, OrderIds)
    BY <1>1, <2>1 DEF BookInv, Backed, CashSum
  <2> QED BY <2>1, <2>4, <2>5 DEF ReservedCash
<1>6. ASSUME NEW i \in Instruments
      PROVE  b.positions[i].reserved = ReservedShares(b, {o \in Active(b) : o[2] = i})
  <2>1. PICK T : T = {o \in Active(b) : o[2] = i}
    OBVIOUS
  <2>2. PICK f, g : f = [o \in T |-> b.orders[o].shares] /\ g = SharesIn(b.orders, i)
    OBVIOUS
  <2>3. T \in SUBSET OrderIds /\ DOMAIN f = T /\ Summable(f, T)
    BY <1>2, <1>3, <2>1, <2>2 DEF Summable
  <2>4. \A o \in Active(b) : b.orders[o].instrument = o[2]
    BY <1>2 DEF OrdersOwn, OwnOrder, Active
  <2>5. (\A o \in T : g[o] = f[o]) /\ (\A o \in OrderIds \ T : g[o] = 0)
    BY <1>2, <1>4, <2>1, <2>2, <2>4 DEF SharesIn, SharesOf
  <2>6. SumFunction(f) = SumFunctionOnSet(g, OrderIds)
    BY <1>2, <2>2, <2>3, <2>5, SumWritten
  <2>7. b.positions[i].reserved = SumFunctionOnSet(g, OrderIds)
    BY <1>1, <2>2 DEF BookInv, Backed, SharesSum
  <2> QED BY <2>1, <2>2, <2>6, <2>7 DEF ReservedShares
<1>7. \A i \in Instruments : b.positions[i].reserved <= b.positions[i].quantity
  BY <1>1, ReservedIsHeld
<1> QED BY <1>1, <1>5, <1>6, <1>7 DEF BackedBook

(* There is a first order among those to execute.                          *)
LEMMA LeastExists ==
    ASSUME NEW S, IsFiniteSet(S), S # {}, NEW f, \A x \in S : f[x] \in Int
    PROVE  \E x \in S : \A y \in S : f[x] <= f[y]
<1>1. PICK T : T = {f[x] : x \in S}
  OBVIOUS
<1>2. T \in SUBSET Int /\ T # {} /\ IsFiniteSet(T)
  <2>1. T \in SUBSET Int /\ T # {}
    BY <1>1
  <2>2. IsFiniteSet({f[x] : x \in S})
    BY ImageFinite
  <2>3. IsFiniteSet(T)
    BY <1>1, <2>2
  <2> QED BY <2>1, <2>3
<1>3. Min(T) \in T /\ \A y \in T : Min(T) <= y
  BY <1>2, ExtremesExist
<1> QED BY <1>1, <1>3

LEMMA PlacesApart ==
    /\ \A i \in Instruments : Place(i) \in Nat /\ ByID[Place(i)] = i
    /\ \A e \in Reasons : Pass(e) \in Nat /\ Passes[Pass(e)] = e
<1>1. ASSUME NEW i \in Instruments PROVE Place(i) \in Nat /\ ByID[Place(i)] = i
  <2>1. \E n \in DOMAIN ByID : ByID[n] = i
    BY RiskAssumption, Listed
  <2>2. Place(i) \in DOMAIN ByID /\ ByID[Place(i)] = i
    BY <2>1 DEF Place
  <2> QED BY <2>2, RiskAssumption
<1>2. ASSUME NEW e \in Reasons PROVE Pass(e) \in Nat /\ Passes[Pass(e)] = e
  <2>1. \E n \in DOMAIN Passes : Passes[n] = e
    BY DEF Passes, Reasons, Emergency
  <2>2. Pass(e) \in DOMAIN Passes /\ Passes[Pass(e)] = e
    BY <2>1 DEF Pass
  <2> QED BY <2>2 DEF Passes
<1> QED BY <1>1, <1>2

LEMMA UpcomingIsOne ==
    ASSUME NEW S \in SUBSET OrderIds, S # {}
    PROVE  Upcoming(S) \in S /\ \A r \in S \ {Upcoming(S)} : Precedes(Upcoming(S), r)
<1>1. IsFiniteSet(S) /\ \A T \in SUBSET S : IsFiniteSet(T)
  BY BookAssumption, FS_Subset
<1>2. \A o \in S : /\ o[1] \in Nat /\ Place(o[2]) \in Nat /\ ByID[Place(o[2])] = o[2]
                   /\ Pass(o[3]) \in Nat /\ Passes[Pass(o[3])] = o[3] /\ o = <<o[1], o[2], o[3]>>
  BY ReasonsArePasses, PlacesApart
<1>3. PICK x \in S : \A y \in S : x[1] <= y[1]
  <2>1. PICK f : f = [o \in S |-> o[1]]
    OBVIOUS
  <2>2. \A v \in S : f[v] \in Int
    BY <1>2, <2>1
  <2>3. IsFiniteSet(S)
    BY <1>1
  <2>4. \E v \in S : \A y \in S : f[v] <= f[y]
    BY <2>2, <2>3, LeastExists
  <2> QED BY <2>1, <2>4
<1>4. PICK A : A = {o \in S : o[1] = x[1]}
  OBVIOUS
<1>5. PICK B : B = IF \E o \in A : Sale(o) THEN {o \in A : Sale(o)} ELSE A
  OBVIOUS
<1>6. B # {} /\ B \in SUBSET S
  BY <1>3, <1>4, <1>5
<1>7. PICK w \in B : \A y \in B : Place(w[2]) <= Place(y[2])
  <2>1. PICK f : f = [o \in B |-> Place(o[2])]
    OBVIOUS
  <2>2. IsFiniteSet(B) /\ \A v \in B : f[v] \in Int
    BY <1>1, <1>2, <1>6, <2>1
  <2>3. \E v \in B : \A y \in B : f[v] <= f[y]
    BY <1>6, <2>2, LeastExists
  <2> QED BY <2>1, <2>3
<1>8. PICK C : C = {o \in B : o[2] = w[2]}
  OBVIOUS
<1>9. C # {} /\ C \in SUBSET S
  BY <1>6, <1>7, <1>8
<1>10. PICK o \in C : \A y \in C : Pass(o[3]) <= Pass(y[3])
  <2>1. PICK f : f = [v \in C |-> Pass(v[3])]
    OBVIOUS
  <2>2. IsFiniteSet(C) /\ \A v \in C : f[v] \in Int
    BY <1>1, <1>2, <1>9, <2>1
  <2>3. \E v \in C : \A y \in C : f[v] <= f[y]
    BY <1>9, <2>2, LeastExists
  <2> QED BY <2>1, <2>3
<1>11. o \in S /\ o[1] = x[1] /\ o[2] = w[2]
  BY <1>4, <1>5, <1>8, <1>9
<1>12. ASSUME NEW r \in S \ {o} PROVE Precedes(o, r)
  <2>1. o[1] <= r[1] /\ o[1] \in Nat /\ r[1] \in Nat
    BY <1>2, <1>3, <1>11, <1>12
  <2>2. CASE o[1] < r[1]
    BY <2>2 DEF Precedes
  <2>3. CASE o[1] = r[1] /\ r \notin B
    <3>1. Sale(o) /\ ~Sale(r)
      BY <1>4, <1>5, <1>8, <1>11, <1>12, <2>3
    <3> QED BY <2>3, <3>1 DEF Precedes
  <2>4. CASE o[1] = r[1] /\ r \in B
    <3>1. Sale(o) = Sale(r)
      BY <1>5, <1>8, <2>4 DEF Sale
    <3>2. Place(o[2]) <= Place(r[2]) /\ Place(o[2]) \in Nat /\ Place(r[2]) \in Nat
      BY <1>2, <1>7, <1>11, <1>12, <2>4
    <3>3. CASE Place(o[2]) < Place(r[2])
      BY <2>4, <3>1, <3>3 DEF Precedes
    <3>4. CASE Place(o[2]) = Place(r[2])
      <4>1. o[2] = r[2] /\ r \in C
        BY <1>2, <1>8, <1>11, <1>12, <2>4, <3>4
      <4>2. Pass(o[3]) <= Pass(r[3]) /\ Pass(o[3]) \in Nat /\ Pass(r[3]) \in Nat
        BY <1>2, <1>10, <1>11, <1>12, <4>1
      <4>3. Pass(o[3]) # Pass(r[3])
        BY <1>2, <1>11, <1>12, <2>4, <4>1
      <4>4. Id(o) = Id(r)
        BY <2>4, <3>1, <4>1 DEF Id
      <4> QED BY <4>2, <4>3, <4>4 DEF Precedes
    <3> QED BY <3>2, <3>3, <3>4
  <2> QED BY <2>1, <2>2, <2>3, <2>4
<1> QED BY <1>11, <1>12 DEF Upcoming

-------------------------------------------------------------------------------
(* The invariant of the replay: where an attempt is, its books have        *)
(* applied what had taken effect, hold no row and no order from later, and *)
(* report fills of closed orders only.                                     *)
ReplayRecord(r) ==
    r = [phase |-> r.phase, session |-> r.session, book |-> r.book, benchmark |-> r.benchmark, todo |-> r.todo]
BooksSound(r) ==
    /\ SoundBook(r.book) /\ OrdersOwn(r.book) /\ SoundBook(r.benchmark) /\ OrdersOwn(r.benchmark)
    /\ r.todo \subseteq Active(r.book)
DecidingFine(s, r) ==
    r.session \in Window /\ BookAt(s, r.book, Universe, Since(r.session)) /\ NoneFrom(r.book, r.session)
ExecutingFine(s, r) ==
    r.session \in Window /\ BookAt(s, r.book, Universe, OpenAt(r.session)) /\ NoneFrom(r.book, r.session + 1)
BenchmarkFine(s, r) ==
    /\ BookAt(s, r.benchmark, {Benchmark}, Since(r.session))
    /\ r.session = 1 => NoneFrom(r.benchmark, 1)
ReplayFine(s, r) ==
    /\ ReplayRecord(r) /\ r.phase \in {"idle", "start", "decide", "execute", "finish"} /\ BooksSound(r)
    /\ r.phase \in {"idle", "start"} =>
          r.book = NewReplayBook /\ r.benchmark = NewReplayBook /\ r.todo = {}
    /\ r.phase = "decide" => DecidingFine(s, r) /\ BenchmarkFine(s, r)
    /\ r.phase = "execute" => ExecutingFine(s, r) /\ BenchmarkFine(s, r)

(* The replay's own part of its steps.                                     *)
StartedTo(r, x) == x = [r EXCEPT !.phase = "decide", !.session = 1]
DecidedTo(r, x, d) ==
    x = [r EXCEPT !.book = d, !.todo = Active(d), !.phase = IF d.broken THEN "finish" ELSE "execute"]
ExecutedTo(r, x, c, o) ==
    x = [r EXCEPT !.book = c, !.todo = r.todo \ {o}, !.phase = IF c.broken THEN "finish" ELSE r.phase]
DayClosedTo(r, x, c, e) ==
    x = [r EXCEPT
            !.book = c, !.benchmark = e, !.session = IF r.session + 1 \in Window THEN r.session + 1 ELSE r.session,
            !.phase = IF c.broken \/ r.session + 1 \notin Window THEN "finish" ELSE "decide"]

LEMMA IdleFine ==
    ASSUME NEW s, NEW phase \in {"idle", "start"}, NEW r, r = [NoReplay EXCEPT !.phase = phase]
    PROVE  ReplayFine(s, r) /\ r.phase = phase
<1>1. PICK b : b = NewReplayBook
  OBVIOUS
<1>2. r = [phase |-> phase, session |-> 0, book |-> b, benchmark |-> b, todo |-> {}]
  BY <1>1 DEF NoReplay
<1>3. /\ r.phase = phase /\ r.book = b /\ r.benchmark = b /\ r.todo = {} /\ ReplayRecord(r)
  <2>1. r.phase = phase /\ r.book = b /\ r.benchmark = b /\ r.todo = {} /\ r.session = 0
    BY <1>2
  <2> QED BY <1>2, <2>1, Zenon DEF ReplayRecord
<1>4. BooksSound(r)
  BY <1>1, <1>3, NewReplayBookFine DEF BooksSound
<1> QED BY <1>1, <1>3, <1>4 DEF ReplayFine

LEMMA StartingFine ==
    ASSUME NEW s, NEW r, ReplayFine(s, r), r.phase = "start",
           NEW x, StartedTo(r, x)
    PROVE  ReplayFine(s, x) /\ x.phase = "decide"
<1>1. PICK b : b = NewReplayBook
  OBVIOUS
<1>2. r.book = b /\ r.benchmark = b /\ r.todo = {} /\ ReplayRecord(r) /\ BooksSound(r)
  BY <1>1 DEF ReplayFine
<1>3. /\ x.phase = "decide" /\ x.session = 1 /\ x.book = b /\ x.benchmark = b /\ x.todo = {}
      /\ ReplayRecord(x)
  BY <1>2 DEF ReplayRecord, StartedTo
<1>4. BooksSound(x)
  BY <1>2, <1>3 DEF BooksSound
<1>5. /\ \A S : BookAt(s, b, S, 0)
      /\ \A k : NoneFrom(b, k)
  BY <1>1, NewReplayBookFine
<1>6. 1 \in Window /\ Since(1) = 0
  BY ReasonsArePasses DEF Window, Since
<1>7. DecidingFine(s, x) /\ BenchmarkFine(s, x)
  BY <1>3, <1>5, <1>6 DEF DecidingFine, BenchmarkFine
<1> QED BY <1>3, <1>4, <1>7 DEF ReplayFine

LEMMA DecidedFine ==
    ASSUME NEW s, Frozen(s), NEW r, ReplayFine(s, r), r.phase = "decide",
           NEW d, d = Reconcile(s, Evening(s, r.book, r.session), OpenAt(r.session), CloseAt(r.session), Universe),
           NEW x, DecidedTo(r, x, d)
    PROVE  ReplayFine(s, x) /\ x.phase # "idle"
<1>1. PICK k, b : k = r.session /\ b = r.book
  OBVIOUS
<1>2. /\ k \in Window /\ BookAt(s, b, Universe, Since(k)) /\ NoneFrom(b, k) /\ BenchmarkFine(s, r)
      /\ ReplayRecord(r) /\ BooksSound(r)
  BY <1>1 DEF ReplayFine, DecidingFine
<1>3. OpenedTo(s, b, d, k)
  BY <1>1, <1>2, Deciding
<1>4. /\ x.phase = (IF d.broken THEN "finish" ELSE "execute") /\ x.session = k /\ x.book = d
      /\ x.benchmark = r.benchmark /\ x.todo = Active(d) /\ ReplayRecord(x)
  BY <1>1, <1>2 DEF ReplayRecord, DecidedTo
<1>5. SoundBook(d) /\ OrdersOwn(d) /\ BookAt(s, d, Universe, OpenAt(k)) /\ NoneFrom(d, k + 1)
  BY <1>3 DEF OpenedTo, BookAt
<1>6. BooksSound(x)
  BY <1>2, <1>4, <1>5 DEF BooksSound
<1>7. ExecutingFine(s, x) /\ BenchmarkFine(s, x)
  BY <1>1, <1>2, <1>4, <1>5 DEF ExecutingFine, BenchmarkFine
<1>8. /\ x.phase \in {"idle", "start", "decide", "execute", "finish"}
      /\ x.phase \notin {"idle", "start"} /\ x.phase # "decide"
  BY <1>4
<1> QED BY <1>4, <1>6, <1>7, <1>8 DEF ReplayFine

LEMMA ExecutedFine ==
    ASSUME NEW s, Frozen(s), NEW r, ReplayFine(s, r), r.phase = "execute", NEW o \in r.todo,
           NEW c, c = Execute(s, r.book, o, r.session),
           NEW x, ExecutedTo(r, x, c, o)
    PROVE  ReplayFine(s, x) /\ x.phase # "idle"
<1>1. PICK k, b, todo : k = r.session /\ b = r.book /\ todo = r.todo
  OBVIOUS
<1>2. /\ k \in Window /\ BookAt(s, b, Universe, OpenAt(k)) /\ NoneFrom(b, k + 1) /\ BenchmarkFine(s, r)
      /\ ReplayRecord(r) /\ BooksSound(r) /\ todo \in SUBSET Active(b)
  BY <1>1 DEF ReplayFine, ExecutingFine, BooksSound
<1>3. NextExecuted(s, b, c, o, k, todo)
  BY <1>1, <1>2, ExecutingNext
<1>4. /\ x.phase = (IF c.broken THEN "finish" ELSE "execute") /\ x.session = k /\ x.book = c
      /\ x.benchmark = r.benchmark /\ x.todo = todo \ {o} /\ ReplayRecord(x)
  BY <1>1, <1>2 DEF ReplayRecord, ExecutedTo
<1>5. /\ SoundBook(c) /\ OrdersOwn(c) /\ BookAt(s, c, Universe, OpenAt(k)) /\ NoneFrom(c, k + 1)
      /\ todo \ {o} \subseteq Active(c)
  BY <1>3 DEF NextExecuted, BookAt
<1>6. BooksSound(x)
  BY <1>2, <1>4, <1>5 DEF BooksSound
<1>7. ExecutingFine(s, x) /\ BenchmarkFine(s, x)
  BY <1>1, <1>2, <1>4, <1>5 DEF ExecutingFine, BenchmarkFine
<1>8. /\ x.phase \in {"idle", "start", "decide", "execute", "finish"}
      /\ x.phase \notin {"idle", "start"} /\ x.phase # "decide"
  BY <1>4
<1> QED BY <1>4, <1>6, <1>7, <1>8 DEF ReplayFine

LEMMA ClosedFine ==
    ASSUME NEW s, Frozen(s), NEW r, ReplayFine(s, r), r.phase = "execute", r.todo = {},
           NEW m, m = Reconcile(s, r.book, CloseAt(r.session), CloseAt(r.session), Universe),
           NEW c, c = ClosedBook(m, Closes(s, r.session, CloseAt(r.session))),
           NEW e, e = IF c.broken \/ r.benchmark.broken THEN r.benchmark
                      ELSE FollowBenchmark(s, r.benchmark, r.session),
           NEW x, DayClosedTo(r, x, c, e)
    PROVE  ReplayFine(s, x) /\ x.phase # "idle"
<1>1. PICK k, b : k = r.session /\ b = r.book
  OBVIOUS
<1>2. /\ k \in Window /\ BookAt(s, b, Universe, OpenAt(k)) /\ NoneFrom(b, k + 1) /\ BenchmarkFine(s, r)
      /\ ReplayRecord(r) /\ BooksSound(r)
  BY <1>1 DEF ReplayFine, ExecutingFine
<1>3. ClosedTo(s, b, c, k)
  BY <1>1, <1>2, Closing
<1>4. /\ SoundBook(c) /\ OrdersOwn(c) /\ BookAt(s, c, Universe, CloseAt(k)) /\ NoneFrom(c, k + 1)
  BY <1>3 DEF ClosedTo, BookAt
<1>5. /\ x.phase = (IF c.broken \/ k + 1 \notin Window THEN "finish" ELSE "decide")
      /\ x.session = (IF k + 1 \in Window THEN k + 1 ELSE k)
      /\ x.book = c /\ x.benchmark = e /\ x.todo = {} /\ ReplayRecord(x)
  BY <1>1, <1>2 DEF ReplayRecord, DayClosedTo
<1>6. SoundBook(e) /\ OrdersOwn(e) /\ (c.broken \/ BookAt(s, e, {Benchmark}, CloseAt(k)))
  <2>1. CASE c.broken
    BY <1>2, <2>1 DEF BooksSound
  <2>2. CASE ~c.broken /\ r.benchmark.broken
    <3>1. e = r.benchmark /\ BookAt(s, e, {Benchmark}, Since(k)) /\ e.broken
      BY <1>1, <1>2, <2>2 DEF BenchmarkFine
    <3>2. Past(e, CloseAt(k))
      <4>1. \A row \in e.ledger : row.at <= Since(k) /\ row.at \in Nat
        BY <3>1, SoundFields DEF BookAt, Past, LedgerRows, Times
      <4> QED BY <1>2, <4>1, SessionTimes DEF Past
    <3> QED BY <3>1, <3>2 DEF BookAt, Caught
  <2>3. CASE ~c.broken /\ ~r.benchmark.broken
    <3>1. PICK d : d = r.benchmark
      OBVIOUS
    <3>2. e = FollowBenchmark(s, d, k) /\ BookAt(s, d, {Benchmark}, Since(k)) /\ (k = 1 => NoneFrom(d, 1))
      BY <1>1, <1>2, <2>3, <3>1 DEF BenchmarkFine
    <3>3. BookAt(s, e, {Benchmark}, CloseAt(k))
      BY <1>2, <3>2, Following
    <3> QED BY <3>3 DEF BookAt
  <2> QED BY <2>1, <2>2, <2>3
<1>7. BooksSound(x)
  BY <1>4, <1>5, <1>6 DEF BooksSound
<1>8. CASE x.phase = "decide"
  <2>1. ~c.broken /\ x.session = k + 1 /\ k + 1 \in Window /\ k + 1 # 1 /\ Since(k + 1) = CloseAt(k)
    BY <1>2, <1>5, <1>8, SessionTimes
  <2>2. DecidingFine(s, x) /\ BenchmarkFine(s, x)
    BY <1>4, <1>5, <1>6, <2>1 DEF DecidingFine, BenchmarkFine
  <2> QED BY <1>5, <1>7, <1>8, <2>2 DEF ReplayFine
<1>9. CASE x.phase = "finish"
  BY <1>5, <1>7, <1>9 DEF ReplayFine
<1> QED BY <1>5, <1>8, <1>9

-------------------------------------------------------------------------------
(* The run beside its replay: an attempt is under way only while its job   *)
(* works, on data that were frozen as the run was created.                 *)
RunFine ==
    /\ run = [status |-> run.status, result |-> run.result, job |-> run.job, attempt |-> run.attempt]
    /\ run.status \in {"none", "queued", "running", "completed", "failed"}
    /\ run.job \in {"none", "available", "working", "ended"} /\ run.attempt \in 0 .. MaxAttempts
    /\ run.status = "completed" <=> run.result # NoResult
    /\ run.status # "none" => Frozen(snapshot)
    /\ run.job # "none" => run.status # "none"
    /\ run.job = "available" => run.attempt < MaxAttempts
    /\ replay.phase # "idle" => run.job = "working"
ReplayInv == RunFine /\ ReplayFine(snapshot, replay)

LEMMA NoReplayFine ==
    \A s : ReplayFine(s, NoReplay) /\ NoReplay.phase = "idle"
<1>1. TAKE s
<1>2. NoReplay = [NoReplay EXCEPT !.phase = "idle"]
  BY DEF NoReplay
<1> QED BY <1>2, IdleFine

LEMMA ResultIs ==
    \A b, bench : Result(b, bench) # NoResult
<1>1. TAKE b, bench
<1>2. DOMAIN Result(b, bench).curve = Window /\ 1 \in Window
  BY ReasonsArePasses DEF Result, EconomicCurve, Window
<1>3. DOMAIN NoResult.curve = {}
  BY DEF NoResult
<1> QED BY <1>2, <1>3

LEMMA InitFine == Init => ReplayInv
<1>1. SUFFICES ASSUME Init PROVE ReplayInv
  OBVIOUS
<1>2. ReplayFine(snapshot, replay) /\ replay.phase = "idle"
  BY <1>1, NoReplayFine DEF Init
<1>3. run = [status |-> "none", result |-> NoResult, job |-> "none", attempt |-> 0]
  BY <1>1 DEF Init, NoRun
<1>4. RunFine
  BY <1>2, <1>3, BacktestAssumption DEF RunFine
<1> QED BY <1>2, <1>4 DEF ReplayInv

LEMMA CreateBacktestFine ==
    ASSUME ReplayInv, NEW days \in Pasts, NEW history \in [Actions -> Histories], CreateBacktest(days, history)
    PROVE  ReplayInv'
<1>1. /\ run' = [status |-> "queued", result |-> NoResult, job |-> "available", attempt |-> 0]
      /\ snapshot' = [days |-> days, history |-> history] /\ replay' = replay /\ replay.phase = "idle"
  BY DEF CreateBacktest, NoRun, ReplayInv, RunFine
<1>2. Frozen(snapshot')
  BY <1>1 DEF Frozen
<1>3. RunFine'
  BY <1>1, <1>2, BacktestAssumption DEF RunFine
<1>4. ReplayFine(snapshot', replay')
  BY <1>1 DEF ReplayInv, ReplayFine
<1> QED BY <1>3, <1>4 DEF ReplayInv

LEMMA FetchFine ==
    ASSUME ReplayInv, Fetch
    PROVE  ReplayInv'
<1>1. /\ run' = [status |-> run.status, result |-> run.result, job |-> "working", attempt |-> run.attempt + 1]
      /\ snapshot' = snapshot /\ replay' = [NoReplay EXCEPT !.phase = "start"]
      /\ run.job = "available"
  BY DEF Fetch, ReplayInv, RunFine
<1>2. RunFine'
  BY <1>1, BacktestAssumption DEF ReplayInv, RunFine
<1>3. ReplayFine(snapshot', replay')
  BY <1>1, IdleFine
<1> QED BY <1>2, <1>3 DEF ReplayInv

LEMMA StartFine ==
    ASSUME ReplayInv, Start
    PROVE  ReplayInv'
<1>1. snapshot' = snapshot /\ replay.phase = "start" /\ run.job = "working" /\ run.status # "none"
  BY DEF Start, ReplayInv, RunFine
<1>2. CASE Done(run.status)
  <2>1. /\ run' = [status |-> run.status, result |-> run.result, job |-> "ended", attempt |-> run.attempt]
        /\ replay' = NoReplay
    BY <1>2 DEF Start, ReplayInv, RunFine
  <2>2. ReplayFine(snapshot', replay') /\ replay'.phase = "idle"
    BY <2>1, NoReplayFine
  <2>3. RunFine'
    BY <1>1, <2>1, <2>2 DEF ReplayInv, RunFine
  <2> QED BY <2>2, <2>3 DEF ReplayInv
<1>3. CASE ~Done(run.status)
  <2>1. /\ run' = [status |-> "running", result |-> run.result, job |-> run.job, attempt |-> run.attempt]
        /\ replay' = [replay EXCEPT !.phase = "decide", !.session = 1]
    BY <1>3 DEF Start, ReplayInv, RunFine
  <2>2. ReplayFine(snapshot', replay')
    <3>1. PICK r, x : r = replay /\ x = replay'
      OBVIOUS
    <3>2. ReplayFine(snapshot, r) /\ r.phase = "start" /\ StartedTo(r, x)
      BY <1>1, <2>1, <3>1 DEF ReplayInv, StartedTo
    <3>3. ReplayFine(snapshot, x)
      BY <3>2, StartingFine
    <3> QED BY <1>1, <3>1, <3>3
  <2>3. RunFine'
    BY <1>1, <1>3, <2>1 DEF ReplayInv, RunFine, Done
  <2> QED BY <2>2, <2>3 DEF ReplayInv
<1> QED BY <1>2, <1>3

(* A step of the replay leaves the run alone.                              *)
LEMMA ReplayingFine ==
    ASSUME ReplayInv, replay.phase # "idle", ReplayFine(snapshot, replay)', UNCHANGED <<snapshot, run>>
    PROVE  ReplayInv'
BY DEF ReplayInv, RunFine

LEMMA RunIsFrozen ==
    ASSUME ReplayInv, replay.phase # "idle"
    PROVE  Frozen(snapshot) /\ ReplayFine(snapshot, replay)
BY DEF ReplayInv, RunFine

LEMMA DecideFine ==
    ASSUME ReplayInv, Decide
    PROVE  ReplayInv'
<1>1. PICK d : d = Reconcile(snapshot, Evening(snapshot, replay.book, replay.session), OpenAt(replay.session),
                             CloseAt(replay.session), Universe)
  OBVIOUS
<1>2. /\ snapshot' = snapshot /\ run' = run /\ replay.phase = "decide"
      /\ replay' = [replay EXCEPT !.book = d, !.todo = Active(d),
                                  !.phase = IF d.broken THEN "finish" ELSE "execute"]
  BY <1>1, Zenon DEF Decide
<1>3. PICK r, x : r = replay /\ x = replay'
  OBVIOUS
<1>4. /\ Frozen(snapshot) /\ ReplayFine(snapshot, r) /\ r.phase = "decide"
      /\ d = Reconcile(snapshot, Evening(snapshot, r.book, r.session), OpenAt(r.session), CloseAt(r.session), Universe)
      /\ DecidedTo(r, x, d)
  BY <1>1, <1>2, <1>3, RunIsFrozen DEF DecidedTo
<1>5. ReplayFine(snapshot, x)
  BY <1>4, DecidedFine
<1> QED BY <1>2, <1>3, <1>5, ReplayingFine

LEMMA ExecuteNextFine ==
    ASSUME ReplayInv, ExecuteNext
    PROVE  ReplayInv'
<1>1. PICK o : o = Upcoming(replay.todo)
  OBVIOUS
<1>2. PICK c : c = Execute(snapshot, replay.book, o, replay.session)
  OBVIOUS
<1>3. /\ snapshot' = snapshot /\ run' = run /\ replay.phase = "execute" /\ replay.todo # {}
      /\ replay' = [replay EXCEPT !.book = c, !.todo = replay.todo \ {o},
                                  !.phase = IF c.broken THEN "finish" ELSE replay.phase]
  BY <1>1, <1>2 DEF ExecuteNext
<1>4. o \in replay.todo
  BY <1>1, <1>3, RunIsFrozen, UpcomingIsOne DEF ReplayFine, BooksSound, Active
<1>5. PICK r, x : r = replay /\ x = replay'
  OBVIOUS
<1>6. /\ Frozen(snapshot) /\ ReplayFine(snapshot, r) /\ r.phase = "execute" /\ o \in r.todo
      /\ c = Execute(snapshot, r.book, o, r.session)
      /\ ExecutedTo(r, x, c, o)
  BY <1>2, <1>3, <1>4, <1>5, RunIsFrozen DEF ExecutedTo
<1>7. ReplayFine(snapshot, x)
  BY <1>6, ExecutedFine
<1> QED BY <1>3, <1>5, <1>7, ReplayingFine

LEMMA CloseSessionFine ==
    ASSUME ReplayInv, CloseSession
    PROVE  ReplayInv'
<1>1. PICK k : k = replay.session
  OBVIOUS
<1>2. PICK m : m = Reconcile(snapshot, replay.book, CloseAt(k), CloseAt(k), Universe)
  OBVIOUS
<1>3. PICK c : c = ClosedBook(m, Closes(snapshot, k, CloseAt(k)))
  OBVIOUS
<1>4. PICK e : e = IF c.broken \/ replay.benchmark.broken THEN replay.benchmark
                   ELSE FollowBenchmark(snapshot, replay.benchmark, k)
  OBVIOUS
<1>5. /\ snapshot' = snapshot /\ run' = run /\ replay.phase = "execute" /\ replay.todo = {}
      /\ replay' = [replay EXCEPT
            !.book = c, !.benchmark = e, !.session = IF k + 1 \in Window THEN k + 1 ELSE k,
            !.phase = IF c.broken \/ k + 1 \notin Window THEN "finish" ELSE "decide"]
  BY <1>1, <1>2, <1>3, <1>4, Zenon DEF CloseSession, ClosedBook
<1>6. PICK r, x : r = replay /\ x = replay'
  OBVIOUS
<1>7. /\ Frozen(snapshot) /\ ReplayFine(snapshot, r) /\ r.phase = "execute" /\ r.todo = {}
      /\ m = Reconcile(snapshot, r.book, CloseAt(r.session), CloseAt(r.session), Universe)
      /\ c = ClosedBook(m, Closes(snapshot, r.session, CloseAt(r.session)))
      /\ e = IF c.broken \/ r.benchmark.broken THEN r.benchmark
             ELSE FollowBenchmark(snapshot, r.benchmark, r.session)
      /\ DayClosedTo(r, x, c, e)
  BY <1>1, <1>2, <1>3, <1>4, <1>5, <1>6, RunIsFrozen DEF DayClosedTo
<1>8. ReplayFine(snapshot, x)
  BY <1>7, ClosedFine
<1> QED BY <1>5, <1>6, <1>8, ReplayingFine

LEMMA FinishFine ==
    ASSUME ReplayInv, Finish
    PROVE  ReplayInv'
<1>1. PICK fails : fails = Fails(replay.book, replay.benchmark)
  OBVIOUS
<1>2. PICK result : result = Result(replay.book, replay.benchmark)
  OBVIOUS
<1>3. PICK acknowledged \in BOOLEAN :
        run' = [run EXCEPT !.status = IF fails THEN "failed" ELSE "completed",
                           !.result = IF fails THEN NoResult ELSE result,
                           !.job = IF acknowledged \/ run.attempt >= MaxAttempts THEN "ended" ELSE "available"]
  BY <1>1, <1>2, Zenon DEF Finish
<1>4. snapshot' = snapshot /\ replay' = NoReplay /\ result # NoResult /\ run.job = "working"
  BY <1>2, ResultIs DEF Finish, ReplayInv, RunFine
<1>5. ReplayFine(snapshot', replay') /\ replay'.phase = "idle"
  BY <1>4, NoReplayFine
<1>6. RunFine'
  <2>1. /\ run'.status = (IF fails THEN "failed" ELSE "completed")
        /\ run'.result = (IF fails THEN NoResult ELSE result)
        /\ run'.job = (IF acknowledged \/ run.attempt >= MaxAttempts THEN "ended" ELSE "available")
        /\ run'.attempt = run.attempt
        /\ run' = [status |-> run'.status, result |-> run'.result, job |-> run'.job, attempt |-> run'.attempt]
    BY <1>3 DEF ReplayInv, RunFine
  <2> QED BY <1>4, <1>5, <2>1, BacktestAssumption DEF ReplayInv, RunFine
<1> QED BY <1>5, <1>6 DEF ReplayInv

LEMMA InterruptFine ==
    ASSUME ReplayInv, Interrupt
    PROVE  ReplayInv'
<1>1. PICK marked \in BOOLEAN :
        run' = IF run.attempt < MaxAttempts THEN [run EXCEPT !.job = "available"]
               ELSE IF marked /\ ~Done(run.status) THEN [run EXCEPT !.job = "ended", !.status = "failed"]
               ELSE [run EXCEPT !.job = "ended"]
  BY DEF Interrupt
<1>2. snapshot' = snapshot /\ replay' = NoReplay /\ run.job = "working" /\ run.status # "none"
  BY DEF Interrupt, ReplayInv, RunFine
<1>3. ReplayFine(snapshot', replay') /\ replay'.phase = "idle"
  BY <1>2, NoReplayFine
<1>4. RunFine'
  BY <1>1, <1>2, <1>3, BacktestAssumption DEF ReplayInv, RunFine, Done
<1> QED BY <1>3, <1>4 DEF ReplayInv

LEMMA NextFine == ReplayInv /\ [Next]_vars => ReplayInv'
<1>1. SUFFICES ASSUME ReplayInv, [Next]_vars PROVE ReplayInv'
  OBVIOUS
<1>2. ASSUME NEW days \in Pasts, NEW history \in [Actions -> Histories], CreateBacktest(days, history)
      PROVE  ReplayInv'
  BY <1>1, <1>2, CreateBacktestFine
<1>3. CASE Fetch
  BY <1>1, <1>3, FetchFine
<1>4. CASE Start
  BY <1>1, <1>4, StartFine
<1>5. CASE Decide
  BY <1>1, <1>5, DecideFine
<1>6. CASE ExecuteNext
  BY <1>1, <1>6, ExecuteNextFine
<1>7. CASE CloseSession
  BY <1>1, <1>7, CloseSessionFine
<1>8. CASE Finish
  BY <1>1, <1>8, FinishFine
<1>9. CASE Interrupt
  BY <1>1, <1>9, InterruptFine
<1>10. CASE UNCHANGED vars
  BY <1>1, <1>10 DEF vars, ReplayInv, RunFine
<1> QED BY <1>1, <1>2, <1>3, <1>4, <1>5, <1>6, <1>7, <1>8, <1>9, <1>10 DEF Next

THEOREM ReplayIsFine == Spec => []ReplayInv
<1> QED BY InitFine, NextFine, PTL DEF Spec

(* A run reports a result exactly when its status says so, and both books  *)
(* of a replay back what their open orders reserve (SaveBacktest,          *)
(* backtestAccount's reserve, release and execute).                        *)
THEOREM TypeCorrect == Spec => []TypeOK
<1>1. ReplayInv => TypeOK
  <2>1. SUFFICES ASSUME ReplayInv PROVE TypeOK
    OBVIOUS
  <2>2. ReplayFine(snapshot, replay) /\ RunFine
    BY <2>1 DEF ReplayInv
  <2>3. BackedBook(replay.book) /\ BackedBook(replay.benchmark) /\ replay.todo \subseteq Active(replay.book)
    BY <2>2, BookIsBacked DEF ReplayFine, BooksSound
  <2> QED BY <2>2, <2>3 DEF TypeOK, RunFine, ReplayFine
<1> QED BY <1>1, ReplayIsFine, PTL

-------------------------------------------------------------------------------
(* What a data set says of time t, and the same data without what was not  *)
(* available by then, agree up to t.                                       *)
CensoredAt(s, t) ==
    [days |-> [k \in DOMAIN s.days |->
        [bars |-> [i \in Instruments |->
            IF s.days[k].bars[i] # None /\ AvailableAt(s, k, i) <= t THEN s.days[k].bars[i] ELSE None],
         signals |-> IF CloseAt(k) <= t THEN s.days[k].signals ELSE <<>>]],
     history |-> [a \in DOMAIN s.history |->
        IF EffectiveAt[a] < t THEN s.history[a]
        ELSE IF EffectiveAt[a] = t /\ s.history[a] = "timely" THEN "timely" ELSE "absent"]]

Alike(s, c, t) ==
    /\ \A k \in {0} \cup Window, i \in Instruments, u \in Nat : u <= t =>
          /\ Selected(s, k, i, u) <=> Selected(c, k, i, u)
          /\ Selected(s, k, i, u) => c.days[k].bars[i] = s.days[k].bars[i]
    /\ \A k \in {0} \cup Window : CloseAt(k) <= t => c.days[k].signals = s.days[k].signals
    /\ \A a \in Actions : EffectiveAt[a] < t => c.history[a] = s.history[a]
    /\ \A a \in Actions : EffectiveAt[a] = t =>
          (c.history[a] \in {"absent", "late"} <=> s.history[a] \in {"absent", "late"})

LEMMA CensoredAlike ==
    ASSUME NEW s, Frozen(s), NEW t \in Nat, NEW c, c = CensoredAt(s, t)
    PROVE  Alike(s, c, t)
<1>1. \A k \in {0} \cup Window : k \in DOMAIN s.days /\ CloseAt(k) \in Nat /\ CloseAt(k + 1) \in Nat
  BY ReasonsArePasses, BacktestAssumption DEF Frozen, CloseAt, Window
<1>2. \A k \in {0} \cup Window :
         c.days[k] = [bars |-> [i \in Instruments |->
                         IF s.days[k].bars[i] # None /\ AvailableAt(s, k, i) <= t
                         THEN s.days[k].bars[i] ELSE None],
                      signals |-> IF CloseAt(k) <= t THEN s.days[k].signals ELSE <<>>]
  BY <1>1 DEF CensoredAt
<1>3. ASSUME NEW k \in {0} \cup Window
      PROVE  /\ \A i \in Instruments :
                    c.days[k].bars[i] = IF s.days[k].bars[i] # None /\ AvailableAt(s, k, i) <= t
                                        THEN s.days[k].bars[i] ELSE None
             /\ CloseAt(k) <= t => c.days[k].signals = s.days[k].signals
  <2>1. PICK bars : bars = [i \in Instruments |->
                               IF s.days[k].bars[i] # None /\ AvailableAt(s, k, i) <= t
                               THEN s.days[k].bars[i] ELSE None]
    OBVIOUS
  <2>2. PICK signals : signals = IF CloseAt(k) <= t THEN s.days[k].signals ELSE <<>>
    OBVIOUS
  <2>3. c.days[k] = [bars |-> bars, signals |-> signals]
    BY <1>2, <2>1, <2>2, Zenon
  <2>4. c.days[k].bars = bars /\ c.days[k].signals = signals
    BY <2>3
  <2> QED BY <2>1, <2>2, <2>4
<1>4. ASSUME NEW k \in {0} \cup Window, NEW i \in Instruments, NEW u \in Nat, u <= t
      PROVE  /\ Selected(s, k, i, u) <=> Selected(c, k, i, u)
             /\ Selected(s, k, i, u) => c.days[k].bars[i] = s.days[k].bars[i]
  <2>1. AvailableAt(s, k, i) \in Nat
    BY <1>1 DEF AvailableAt
  <2>2. c.days[k].bars[i] = IF s.days[k].bars[i] # None /\ AvailableAt(s, k, i) <= t
                            THEN s.days[k].bars[i] ELSE None
    BY <1>3
  <2>3. CASE s.days[k].bars[i] # None /\ AvailableAt(s, k, i) <= t
    <3>1. c.days[k].bars[i] = s.days[k].bars[i]
      BY <2>2, <2>3
    <3>2. AvailableAt(c, k, i) = AvailableAt(s, k, i)
      BY <3>1, Zenon DEF AvailableAt
    <3> QED BY <3>1, <3>2 DEF Selected
  <2>4. CASE ~(s.days[k].bars[i] # None /\ AvailableAt(s, k, i) <= t)
    <3>1. c.days[k].bars[i] = None
      BY <2>2, <2>4
    <3>2. ~Selected(c, k, i, u)
      BY <3>1 DEF Selected
    <3>3. ~Selected(s, k, i, u)
      BY <1>4, <2>1, <2>4 DEF Selected
    <3> QED BY <3>2, <3>3
  <2> QED BY <2>3, <2>4
<1>5. \A k \in {0} \cup Window : CloseAt(k) <= t => c.days[k].signals = s.days[k].signals
  BY <1>3
<1>6. \A a \in Actions : c.history[a] = IF EffectiveAt[a] < t THEN s.history[a]
                                        ELSE IF EffectiveAt[a] = t /\ s.history[a] = "timely"
                                        THEN "timely" ELSE "absent"
  BY DEF CensoredAt, Frozen
<1>7. \A a \in Actions : EffectiveAt[a] \in Nat /\ s.history[a] \in {"absent", "timely", "late"}
  BY ActionTimes DEF Frozen, Histories
<1>8. \A a \in Actions : EffectiveAt[a] < t => c.history[a] = s.history[a]
  BY <1>6
<1>9. \A a \in Actions : EffectiveAt[a] = t =>
          (c.history[a] \in {"absent", "late"} <=> s.history[a] \in {"absent", "late"})
  <2>1. SUFFICES ASSUME NEW a \in Actions, EffectiveAt[a] = t
                 PROVE  c.history[a] \in {"absent", "late"} <=> s.history[a] \in {"absent", "late"}
    OBVIOUS
  <2>2. c.history[a] = IF s.history[a] = "timely" THEN "timely" ELSE "absent"
    BY <1>6, <2>1
  <2> QED BY <1>7, <2>2
<1> QED BY <1>4, <1>5, <1>8, <1>9 DEF Alike

LEMMA AlikeCloses ==
    ASSUME NEW s, NEW c, NEW t \in Nat, Alike(s, c, t), NEW k \in {0} \cup Window, NEW u \in Nat, u <= t
    PROVE  /\ Closes(s, k, u) = Closes(c, k, u)
           /\ \A i \in Instruments : Close(s, k, i, u) = Close(c, k, i, u)
           /\ \A i \in Instruments : Opened(s, k, i, u) = Opened(c, k, i, u)
           /\ \A i \in Instruments : Opened(s, k, i, u) => s.days[k].bars[i].open = c.days[k].bars[i].open
<1>1. ASSUME NEW i \in Instruments
      PROVE  /\ Selected(s, k, i, u) = Selected(c, k, i, u)
             /\ Selected(s, k, i, u) => c.days[k].bars[i] = s.days[k].bars[i]
  BY DEF Alike, Selected
<1>2. \A i \in Instruments : Close(s, k, i, u) = Close(c, k, i, u)
  BY <1>1 DEF Close
<1>3. ASSUME NEW i \in Instruments
      PROVE  /\ Opened(s, k, i, u) = Opened(c, k, i, u)
             /\ Opened(s, k, i, u) => s.days[k].bars[i].open = c.days[k].bars[i].open
  <2>1. CASE Selected(s, k, i, u)
    <3>1. Selected(c, k, i, u) /\ c.days[k].bars[i] = s.days[k].bars[i]
      BY <1>1, <2>1
    <3> QED BY <2>1, <3>1, Zenon DEF Opened
  <2>2. CASE ~Selected(s, k, i, u)
    <3>1. ~Selected(c, k, i, u)
      BY <1>1, <2>2
    <3>2. ~Opened(s, k, i, u) /\ ~Opened(c, k, i, u)
      BY <2>2, <3>1, Zenon DEF Opened
    <3>3. Opened(s, k, i, u) = Opened(c, k, i, u)
      BY <2>2, <3>1, Zenon DEF Opened
    <3> QED BY <3>2, <3>3
  <2> QED BY <2>1, <2>2
<1>4. Closes(s, k, u) = Closes(c, k, u)
  BY <1>2 DEF Closes
<1> QED BY <1>2, <1>3, <1>4

LEMMA AlikeOpens ==
    ASSUME NEW s, NEW c, NEW t \in Nat, Alike(s, c, t), NEW k \in Window, CloseAt(k) <= t
    PROVE  Opens(s, k, t) = Opens(c, k, t)
<1>1. PICK u : u = OpenAt(k) - 1
  OBVIOUS
<1>2. u \in Nat /\ u <= t /\ k \in {0} \cup Window /\ k - 1 \in {0} \cup Window /\ t <= t
  BY <1>1, SessionTimes DEF OpenAt, CloseAt
<1>3. /\ \A i \in Instruments : Opened(s, k, i, t) = Opened(c, k, i, t)
      /\ \A i \in Instruments : Opened(s, k, i, t) => s.days[k].bars[i].open = c.days[k].bars[i].open
  BY <1>2, AlikeCloses
<1>4. \A i \in Instruments : Close(s, k - 1, i, u) = Close(c, k - 1, i, u)
  <2>1. PICK j : j = k - 1
    OBVIOUS
  <2>2. j \in {0} \cup Window /\ u \in Nat /\ u <= t
    BY <1>2, <2>1
  <2>3. \A i \in Instruments : Close(s, j, i, u) = Close(c, j, i, u)
    BY <2>2, AlikeCloses
  <2> QED BY <2>1, <2>3
<1> QED BY <1>1, <1>3, <1>4 DEF Opens

LEMMA AlikeActions ==
    ASSUME NEW s, NEW c, NEW t \in Nat, Alike(s, c, t), NEW S
    PROVE  /\ ActionsBy(s, t, t, S) = ActionsBy(c, t, t, S)
           /\ \A a \in ActionsBy(s, t, t, S) : s.history[a] = "late" <=> c.history[a] = "late"
<1>1. ASSUME NEW a \in Actions
      PROVE  /\ a \in ActionsBy(s, t, t, S) <=> a \in ActionsBy(c, t, t, S)
             /\ a \in ActionsBy(s, t, t, S) => (s.history[a] = "late" <=> c.history[a] = "late")
  <2>1. EffectiveAt[a] \in Nat
    BY ActionTimes
  <2>2. CASE EffectiveAt[a] < t
    <3>1. c.history[a] = s.history[a]
      BY <2>2 DEF Alike
    <3> QED BY <3>1, Zenon DEF ActionsBy
  <2>3. CASE EffectiveAt[a] = t
    <3>1. c.history[a] \in {"absent", "late"} <=> s.history[a] \in {"absent", "late"}
      BY <2>3 DEF Alike
    <3>2. ~(EffectiveAt[a] < t)
      BY <2>1, <2>3
    <3> QED BY <3>1, <3>2 DEF ActionsBy
  <2>4. CASE EffectiveAt[a] > t
    BY <2>1, <2>4 DEF ActionsBy
  <2> QED BY <2>1, <2>2, <2>3, <2>4
<1>2. ActionsBy(s, t, t, S) \subseteq Actions /\ ActionsBy(c, t, t, S) \subseteq Actions
  BY DEF ActionsBy
<1> QED BY <1>1, <1>2

LEMMA AlikeReconcile ==
    ASSUME NEW s, NEW c, NEW t \in Nat, Alike(s, c, t), NEW b, NEW S
    PROVE  Reconcile(s, b, t, t, S) = Reconcile(c, b, t, t, S)
<1>1. PICK seen : seen = ActionsBy(s, t, t, S)
  OBVIOUS
<1>2. seen = ActionsBy(c, t, t, S)
  BY <1>1, AlikeActions
<1>3. (\E a \in seen : s.history[a] = "late") <=> (\E a \in seen : c.history[a] = "late")
  BY <1>1, AlikeActions
<1>4. Reconcile(s, b, t, t, S) =
        IF b.broken \/ KeyRepeated(b) \/ \E a \in seen : s.history[a] = "late" THEN Break(b)
        ELSE ReconcileActions(b, t, seen)
  BY <1>1, Zenon DEF Reconcile
<1>5. Reconcile(c, b, t, t, S) =
        IF b.broken \/ KeyRepeated(b) \/ \E a \in seen : c.history[a] = "late" THEN Break(b)
        ELSE ReconcileActions(b, t, seen)
  BY <1>2, Zenon DEF Reconcile
<1> QED BY <1>3, <1>4, <1>5

LEMMA AlikePlan ==
    ASSUME NEW s, NEW c, NEW k \in Window, Alike(s, c, CloseAt(k - 1)), NEW b
    PROVE  Plan(s, b, k) = Plan(c, b, k)
<1>1. PICK prices, signals : prices = Closes(s, k - 1, CloseAt(k - 1)) /\ signals = s.days[k - 1].signals
  OBVIOUS
<1>2. k - 1 \in {0} \cup Window /\ CloseAt(k - 1) \in Nat /\ CloseAt(k - 1) <= CloseAt(k - 1)
  BY SessionTimes
<1>3. prices = Closes(c, k - 1, CloseAt(k - 1))
  BY <1>1, <1>2, AlikeCloses
<1>4. signals = c.days[k - 1].signals
  BY <1>1, <1>2 DEF Alike
<1>5. Rebalance(s, b, k) = Rebalance(c, b, k)
  <2>1. Rebalance(s, b, k)
          = BuildRebalance(b.positions, b.balances.available, prices, NAV(b, prices), b.peak, signals)
    BY <1>1, Zenon DEF Rebalance
  <2>2. Rebalance(c, b, k)
          = BuildRebalance(b.positions, b.balances.available, prices, NAV(b, prices), b.peak, signals)
    BY <1>3, <1>4, Zenon DEF Rebalance
  <2> QED BY <2>1, <2>2, Zenon
<1> QED BY <1>1, <1>3, <1>5, Zenon DEF Plan

LEMMA AlikeExecute ==
    ASSUME NEW s, NEW c, NEW k \in Nat, Alike(s, c, CloseAt(k)), NEW b, NEW o,
           b.orders[o].session \in Window, b.orders[o].session <= k, o[2] \in Instruments
    PROVE  Execute(s, b, o, k) = Execute(c, b, o, k)
<1>1. PICK t, j : t = CloseAt(k) /\ j = b.orders[o].session
  OBVIOUS
<1>2. t \in Nat /\ j \in Window /\ CloseAt(j) <= t /\ Alike(s, c, t) /\ j \in {0} \cup Window /\ t <= t
  <2>1. j \in Window /\ j \in Nat /\ j <= k /\ j \in {0} \cup Window
    BY <1>1, SessionTimes
  <2>2. t \in Nat /\ CloseAt(j) <= t /\ t <= t
    BY <1>1, <2>1 DEF CloseAt
  <2> QED BY <1>1, <2>1, <2>2
<1>3. Opens(s, j, t) = Opens(c, j, t)
  BY <1>2, AlikeOpens
<1>4. Opened(s, j, o[2], t) = Opened(c, j, o[2], t)
  BY <1>2, AlikeCloses
<1>5. PICK order, price, q, prices :
        /\ order = b.orders[o] /\ prices = Opens(s, j, t)
        /\ price = SlippedPrice(prices[o[2]], order.side) /\ q = Matched(b, o, price, prices)
  OBVIOUS
<1>6. PICK result : result =
          IF ~Opened(s, j, o[2], t)
          THEN IF ExpiresAt(j) <= t THEN Release(b, {o}, "expired") ELSE Advance(b, {o})
          ELSE IF ~Priced(b, prices) THEN Break(b)
          ELSE IF q = 0 THEN Release(b, {o}, "rejected")
          ELSE IF ~CanFill(b, o, price, q) THEN Break(b)
          ELSE [Fill(b, o, price, q) EXCEPT
                   !.fills = @ \cup {Reported(o, o[2], IF order.side = "buy" THEN q ELSE -q, price,
                                              OpenAt(j), CloseAt(k))}]
  OBVIOUS
<1>7. Execute(s, b, o, k) = result
  BY <1>1, <1>5, <1>6, Zenon DEF Execute
<1>8. Execute(c, b, o, k) = result
  BY <1>1, <1>3, <1>4, <1>5, <1>6, Zenon DEF Execute
<1> QED BY <1>7, <1>8

(* Nothing that was not available yet decides what a session comes to      *)
(* (SelectSnapshot at decisionAt, at now and before the open).             *)
THEOREM NothingAhead == Spec => []NoLookAhead
<1>1. ReplayInv => NoLookAhead
  <2>1. SUFFICES ASSUME ReplayInv PROVE NoLookAhead
    OBVIOUS
  <2>2. PICK k, b, s, c, todo : /\ k = replay.session /\ b = replay.book /\ s = snapshot
                               /\ c = CensoredAt(snapshot, Known) /\ todo = replay.todo
    OBVIOUS
  <2>3. Censored = c
    BY <2>2, Zenon DEF Censored, CensoredAt
  <2>4. ASSUME replay.phase = "decide" PROVE Evening(s, b, k) = Evening(c, b, k)
    <3>1. Frozen(s) /\ k \in Window /\ Known = CloseAt(k - 1)
      BY <2>1, <2>2, <2>4, RunIsFrozen DEF Known, ReplayFine, DecidingFine
    <3>2. PICK t : t = CloseAt(k - 1)
      OBVIOUS
    <3>3. t \in Nat /\ c = CensoredAt(s, t)
      BY <2>2, <3>1, <3>2, SessionTimes
    <3>4. Alike(s, c, t)
      BY <3>1, <3>3, CensoredAlike
    <3>5. Reconcile(s, b, t, t, Universe) = Reconcile(c, b, t, t, Universe)
      BY <3>3, <3>4, AlikeReconcile
    <3>6. \A m : Plan(s, m, k) = Plan(c, m, k)
      BY <3>1, <3>2, <3>4, AlikePlan
    <3> QED BY <3>2, <3>5, <3>6, Zenon DEF Evening
  <2>5. ASSUME replay.phase = "execute"
        PROVE  /\ todo # {} => Execute(s, b, Upcoming(todo), k) = Execute(c, b, Upcoming(todo), k)
               /\ Reconcile(s, b, CloseAt(k), CloseAt(k), Universe)
                     = Reconcile(c, b, CloseAt(k), CloseAt(k), Universe)
    <3>1. /\ Frozen(s) /\ k \in Window /\ Known = CloseAt(k)
          /\ BookAt(s, b, Universe, OpenAt(k)) /\ NoneFrom(b, k + 1) /\ todo \in SUBSET Active(b)
      BY <2>1, <2>2, <2>5, RunIsFrozen DEF Known, ReplayFine, ExecutingFine, BooksSound
    <3>2. PICK t : t = CloseAt(k)
      OBVIOUS
    <3>3. t \in Nat /\ c = CensoredAt(s, t) /\ k \in Nat
      BY <2>2, <3>1, <3>2, SessionTimes
    <3>4. Alike(s, c, t)
      BY <3>1, <3>3, CensoredAlike
    <3>5. Reconcile(s, b, t, t, Universe) = Reconcile(c, b, t, t, Universe)
      BY <3>3, <3>4, AlikeReconcile
    <3>6. ASSUME todo # {} PROVE Execute(s, b, Upcoming(todo), k) = Execute(c, b, Upcoming(todo), k)
      <4>1. PICK o : o = Upcoming(todo)
        OBVIOUS
      <4>2. o \in todo /\ o \in OrderIds /\ b.orders[o].state # "none"
        BY <3>1, <3>6, <4>1, UpcomingIsOne DEF Active
      <4>3. o[1] \in Window /\ o[1] \in Nat /\ o[2] \in Instruments /\ b.orders[o].session = o[1]
        BY <3>1, <4>2, ReasonsArePasses DEF BookAt, OrdersOwn, OwnOrder
      <4>4. b.orders[o].session <= k
        BY <3>1, <3>3, <4>2, <4>3 DEF NoneFrom
      <4> QED BY <3>2, <3>3, <3>4, <4>1, <4>3, <4>4, AlikeExecute
    <3> QED BY <3>2, <3>5, <3>6
  <2> QED BY <2>2, <2>3, <2>4, <2>5, Zenon DEF NoLookAhead
<1> QED BY <1>1, ReplayIsFine, PTL

-------------------------------------------------------------------------------
(* What the plan comes to, in the terms of PlanKept.                       *)
PlannedGross(prices, orders, S) ==
    SumFunction([n \in S |-> GrossValue(prices[orders[n].instrument], orders[n].quantity)])
Ordinary(orders) == {n \in DOMAIN orders : orders[n].reason \notin Emergency}
KeptPlan(b, prices, nav, orders) ==
    /\ Kept(Projected(b, orders), prices, nav, Universe)
    /\ PlannedGross(prices, orders, Ordinary(orders)) <= MoneyLimit(nav, Policy.turnover)
    /\ (\E n \in Ordinary(orders) : orders[n].side = "buy") =>
          PlannedGross(prices, orders, DOMAIN orders) <= MoneyLimit(nav, Policy.turnover)

LEMMA PlannedSums ==
    ASSUME NEW prices \in [Instruments -> Nat], NEW orders \in Seq(PlannedOrders)
    PROVE  /\ PlannedGross(prices, orders, DOMAIN orders) = SumOver(GrossOf(prices, orders))
           /\ PlannedGross(prices, orders, Ordinary(orders)) = SumOver(OrdinaryOf(prices, orders))
           /\ \A b : \A i \in Instruments :
                 Projected(b, orders)[i] = b.positions[i].quantity + SumOver(ChangeOf(orders, i))
<1>1. PICK D, g : D = DOMAIN orders /\ g = GrossOf(prices, orders)
  OBVIOUS
<1>2. IsFiniteSet(D)
  <2>1. D = 1 .. Len(orders) /\ Len(orders) \in Nat
    BY <1>1
  <2> QED BY <2>1, FS_Interval
<1>3. \A n \in D : orders[n] \in PlannedOrders
  BY <1>1
<1>4. \A n \in D : /\ g[n] = GrossValue(prices[orders[n].instrument], orders[n].quantity)
                   /\ g[n] \in Nat
  <2>1. SUFFICES ASSUME NEW n \in D
                 PROVE  g[n] = GrossValue(prices[orders[n].instrument], orders[n].quantity) /\ g[n] \in Nat
    OBVIOUS
  <2>2. PICK p, q : p = prices[orders[n].instrument] /\ q = orders[n].quantity
    OBVIOUS
  <2>3. p \in Nat /\ q \in Nat
    BY <1>3, <2>2 DEF PlannedOrders
  <2>4. g[n] = GrossValue(p, q)
    BY <1>1, <2>2 DEF GrossOf
  <2>5. GrossValue(p, q) \in Nat
    BY <2>3, GrossFacts
  <2> QED BY <2>2, <2>4, <2>5
<1>5. PlannedGross(prices, orders, DOMAIN orders) = SumOver(GrossOf(prices, orders))
  <2>1. g = [n \in D |-> GrossValue(prices[orders[n].instrument], orders[n].quantity)] /\ DOMAIN g = D
    BY <1>1 DEF GrossOf
  <2>2. SumFunction(g) = SumFunctionOnSet(g, D)
    BY <1>2, <1>4, <2>1, SumOfNats
  <2> QED BY <1>1, <2>1, <2>2 DEF PlannedGross, SumOver
<1>6. PlannedGross(prices, orders, Ordinary(orders)) = SumOver(OrdinaryOf(prices, orders))
  <2>1. PICK T, f, h : /\ T = Ordinary(orders) /\ h = OrdinaryOf(prices, orders)
                      /\ f = [n \in T |-> GrossValue(prices[orders[n].instrument], orders[n].quantity)]
    OBVIOUS
  <2>2. T \in SUBSET D /\ DOMAIN f = T /\ DOMAIN h = D
    BY <1>1, <2>1 DEF Ordinary, OrdinaryOf
  <2>3. Summable(f, T) /\ (\A n \in T : f[n] = g[n])
    BY <1>4, <2>1, <2>2 DEF Summable
  <2>4. (\A n \in T : h[n] = f[n]) /\ (\A n \in D \ T : h[n] = 0)
    BY <1>1, <2>1, <2>2, <2>3 DEF Ordinary, OrdinaryOf
  <2>5. SumFunction(f) = SumFunctionOnSet(h, D)
    BY <1>2, <2>2, <2>3, <2>4, SumWritten
  <2> QED BY <2>1, <2>2, <2>5 DEF PlannedGross, SumOver
<1>7. ASSUME NEW b, NEW i \in Instruments
      PROVE  Projected(b, orders)[i] = b.positions[i].quantity + SumOver(ChangeOf(orders, i))
  <2>1. PICK h : h = ChangeOf(orders, i)
    OBVIOUS
  <2>2. DOMAIN h = D /\ h = [n \in D |-> IF orders[n].instrument = i THEN Signed(orders[n]) ELSE 0]
    BY <1>1, <2>1 DEF ChangeOf
  <2>3. SumFunction(h) = SumFunctionOnSet(h, D)
    BY <2>2 DEF SumFunction
  <2>4. Projected(b, orders)[i] = b.positions[i].quantity + SumFunction(h)
    BY <1>1, <2>2 DEF Projected
  <2> QED BY <2>1, <2>2, <2>3, <2>4 DEF SumOver
<1> QED BY <1>5, <1>6, <1>7

LEMMA PlanIsKept ==
    ASSUME NEW b, NEW prices \in [Instruments -> Nat], NEW c, PlanInv(c, b.positions), c.prices = prices,
           \A level \in Levels : Below(c, level), NEW nav, nav = c.nav
    PROVE  KeptPlan(b, prices, nav, c.orders)
<1>1. PICK orders : orders = c.orders
  OBVIOUS
<1>2. /\ c \in Plans /\ orders \in Seq(PlannedOrders) /\ OrdersApart(orders) /\ nav \in Nat
      /\ c.positions \in Positions
  BY <1>1 DEF PlanInv, PlanFine, Plans
<1>3. /\ PlannedGross(prices, orders, DOMAIN orders) = SumOver(GrossOf(prices, orders))
      /\ PlannedGross(prices, orders, Ordinary(orders)) = SumOver(OrdinaryOf(prices, orders))
      /\ \A i \in Instruments :
            Projected(b, orders)[i] = b.positions[i].quantity + SumOver(ChangeOf(orders, i))
  BY <1>2, PlannedSums
<1>4. /\ c.traded = SumOver(GrossOf(prices, orders))
      /\ \A i \in Instruments : Held(c, i) = b.positions[i].quantity + SumOver(ChangeOf(orders, i))
      /\ SumOver(OrdinaryOf(prices, orders)) <= MoneyLimit(nav, Policy.turnover)
      /\ (\E n \in DOMAIN orders : orders[n].side = "buy") => c.traded <= MoneyLimit(nav, Policy.turnover)
  BY <1>1 DEF PlanInv
<1>5. ASSUME NEW i \in Universe, NEW l \in Levels
      PROVE  Weighs(Projected(b, orders), prices, Group(l, i)) <= MoneyLimit(nav, Policy[l])
  <2>1. PICK S : S = Group(l, i)
    OBVIOUS
  <2>2. i \in Instruments /\ S \in SUBSET Instruments
    BY <1>5, <2>1, GroupIs DEF Universe
  <2>3. [j \in S |-> GrossValue(prices[j], Projected(b, orders)[j])]
          = [j \in S |-> GrossValue(prices[j], c.positions[j].quantity)]
    BY <1>3, <1>4, <2>2 DEF Held
  <2>4. Weighs(Projected(b, orders), prices, S) = Worth(c.positions, prices, S)
    BY <2>3, Zenon DEF Weighs, Worth
  <2>5. ~Over(c, l, i)
    BY <2>2 DEF Below
  <2>6. Worth(c.positions, prices, S) \in Nat /\ MoneyLimit(nav, Policy[l]) \in Nat
    BY <1>2, <2>2, WorthIs, PolicyFields DEF Levels
  <2> QED BY <2>1, <2>4, <2>5, <2>6 DEF Over, WorthIn
<1>6. Kept(Projected(b, orders), prices, nav, Universe)
  BY <1>5 DEF Kept
<1> QED BY <1>1, <1>3, <1>4, <1>6 DEF KeptPlan, Ordinary

LEMMA PlansAreKept ==
    ASSUME Frozen(snapshot), NEW k \in Window, NEW b, SoundBook(b), b.peak \in Nat
    PROVE  PlanKept(b, k)
<1>1. PICK prices : prices = Closes(snapshot, k - 1, CloseAt(k - 1))
  OBVIOUS
<1>2. PICK c : c = Rebalance(snapshot, b, k)
  OBVIOUS
<1>3. ASSUME Active(b) = {}, Priced(b, prices) PROVE KeptPlan(b, prices, NAV(b, prices), c.orders)
  <2>1. Planning(snapshot, b, k)
    BY <1>1, <1>3 DEF Planning
  <2>2. /\ PlanInv(c, b.positions) /\ c.prices = prices /\ c.nav = NAV(b, prices)
        /\ \A level \in Levels : Below(c, level)
    BY <1>1, <1>2, <2>1, RebalancePlans
  <2>3. prices \in [Instruments -> Nat]
    BY <1>1, SessionTimes, FrozenFields
  <2>4. PICK nav : nav = NAV(b, prices)
    OBVIOUS
  <2>5. nav = c.nav
    BY <2>2, <2>4
  <2>6. KeptPlan(b, prices, nav, c.orders)
    BY <2>2, <2>3, <2>5, PlanIsKept
  <2> QED BY <2>4, <2>6
<1> QED BY <1>1, <1>2, <1>3, Zenon DEF PlanKept, KeptPlan, PlannedGross, Ordinary

-------------------------------------------------------------------------------
(* What the fills of a session come to.  A fill's price is never better    *)
(* than the open it slipped from, so the account's worth, and what the     *)
(* policy allows of it, only shrink below what the session opened with.    *)
LEMMA GrossByPrice ==
    ASSUME NEW p \in Nat, NEW price \in Nat, NEW q \in Nat, p <= price
    PROVE  GrossValue(p, q) <= GrossValue(price, q)
<1>1. \A x, y \in Nat : GrossValue(x, y) = GrossValue(y, x)
  BY DEF GrossValue
<1>2. GrossValue(q, p) <= GrossValue(q, price)
  BY GrossFacts
<1> QED BY <1>1, <1>2

LEMMA LimitGrows ==
    ASSUME NEW m \in Nat, NEW n \in Nat, m <= n, NEW w \in 1 .. 100
    PROVE  MoneyLimit(m, w) <= MoneyLimit(n, w)
<1>1. PICK x, y : x = m * w /\ y = n * w
  OBVIOUS
<1>2. x \in Nat /\ y \in Nat /\ x <= y
  <2>1. w \in Nat
    OBVIOUS
  <2>2. PICK d \in Nat : n = m + d
    OBVIOUS
  <2>3. n * w = m * w + d * w /\ d * w \in Nat /\ m * w \in Nat
    BY <2>1, <2>2
  <2> QED BY <1>1, <2>3
<1>3. x \div 100 <= y \div 100
  BY <1>2
<1> QED BY <1>1, <1>3 DEF MoneyLimit

LEMMA SumGrows ==
    ASSUME NEW S, IsFiniteSet(S), NEW x, x \notin S, NEW T, T = S \cup {x},
           NEW f, DOMAIN f = S, \A y \in S : f[y] \in Nat,
           NEW g, DOMAIN g = T, \A y \in S : g[y] = f[y], g[x] \in Nat
    PROVE  SumFunction(g) = SumFunction(f) + g[x] /\ SumFunction(f) \in Nat /\ SumFunction(g) \in Nat
<1>1. Summable(g, S) /\ g[x] \in Int /\ IsFiniteSet(T)
  BY FS_AddElement DEF Summable
<1>2. SumFunctionOnSet(g, T) = SumFunctionOnSet(g, S) + g[x]
  BY <1>1, SumAdd
<1>3. SumFunctionOnSet(g, S) = SumFunctionOnSet(f, S)
  BY SumSame
<1>4. SumFunction(f) = SumFunctionOnSet(f, S) /\ SumFunction(f) \in Nat
  BY SumOfNats
<1>5. SumFunction(g) = SumFunctionOnSet(g, T) /\ SumFunction(g) \in Nat
  <2>1. \A y \in T : g[y] \in Nat
    OBVIOUS
  <2> QED BY <1>1, <2>1, SumOfNats
<1> QED BY <1>2, <1>3, <1>4, <1>5

GrossMoved(p, n, q, m) ==
    /\ GrossValue(p, q) \in Nat
    /\ m = n + q => GrossValue(p, m) = GrossValue(p, n) + GrossValue(p, q)
    /\ m = n - q => GrossValue(p, m) = GrossValue(p, n) - GrossValue(p, q)

LEMMA GrossMoves ==
    ASSUME NEW p \in Nat, NEW n \in Nat, NEW q \in Nat, NEW m \in Nat
    PROVE  GrossMoved(p, n, q, m)
<1>1. p * n \in Nat /\ p * q \in Nat /\ p * m \in Nat
  OBVIOUS
<1>2. ASSUME m = n + q PROVE p * m = p * n + p * q
  BY <1>2
<1>3. ASSUME m = n - q PROVE p * m = p * n - p * q
  <2>1. n = m + q
    BY <1>3
  <2>2. p * n = p * m + p * q
    BY <2>1
  <2> QED BY <1>1, <2>2
<1> QED BY <1>1, <1>2, <1>3 DEF GrossValue, GrossMoved

LEMMA WorthTraded ==
    ASSUME NEW b, b.positions \in Positions, NEW c, c.positions \in Positions,
           NEW prices \in [Instruments -> Nat], NEW i \in Instruments, NEW q \in Nat,
           \A j \in Instruments \ {i} : c.positions[j].quantity = b.positions[j].quantity,
           NEW S \in SUBSET Instruments
    PROVE  /\ i \notin S => Worth(c.positions, prices, S) = Worth(b.positions, prices, S)
           /\ i \in S /\ c.positions[i].quantity = b.positions[i].quantity + q =>
                 Worth(c.positions, prices, S) = Worth(b.positions, prices, S) + GrossValue(prices[i], q)
           /\ i \in S /\ c.positions[i].quantity = b.positions[i].quantity - q =>
                 Worth(c.positions, prices, S) = Worth(b.positions, prices, S) - GrossValue(prices[i], q)
<1>1. PICK f, g : f = Values(b.positions, prices) /\ g = Values(c.positions, prices)
  OBVIOUS
<1>2. /\ Worth(b.positions, prices, S) = SumFunctionOnSet(f, S) /\ IsFiniteSet(S)
      /\ \A j \in Instruments : /\ b.positions[j].quantity \in Nat /\ f[j] \in Nat
                                /\ f[j] = GrossValue(prices[j], b.positions[j].quantity)
  BY <1>1, WorthIs
<1>3. /\ Worth(c.positions, prices, S) = SumFunctionOnSet(g, S)
      /\ \A j \in Instruments : /\ c.positions[j].quantity \in Nat /\ g[j] \in Nat
                                /\ g[j] = GrossValue(prices[j], c.positions[j].quantity)
  BY <1>1, WorthIs
<1>4. \A j \in S \ {i} : g[j] = f[j]
  BY <1>2, <1>3
<1>5. SumFunctionOnSet(f, S) \in Nat
  BY <1>2, SumNat
<1>6. CASE i \notin S
  <2>1. SumFunctionOnSet(f, S) = SumFunctionOnSet(g, S)
    BY <1>2, <1>4, <1>6, SumSame
  <2> QED BY <1>2, <1>3, <1>6, <2>1
<1>7. CASE i \in S
  <2>1. Summable(f, S) /\ g[i] \in Int
    BY <1>2, <1>3 DEF Summable
  <2>2. SumFunctionOnSet(g, S) = SumFunctionOnSet(f, S) - f[i] + g[i]
    BY <1>2, <1>4, <1>7, <2>1, SumChange
  <2>3. PICK p, n, m : p = prices[i] /\ n = b.positions[i].quantity /\ m = c.positions[i].quantity
    OBVIOUS
  <2>4. p \in Nat /\ n \in Nat /\ m \in Nat /\ f[i] = GrossValue(p, n) /\ g[i] = GrossValue(p, m)
    BY <1>2, <1>3, <2>3
  <2>5. /\ GrossValue(p, q) \in Nat
        /\ m = n + q => g[i] = f[i] + GrossValue(p, q)
        /\ m = n - q => g[i] = f[i] - GrossValue(p, q)
    <3>1. p \in Nat /\ n \in Nat /\ m \in Nat
      BY <2>4
    <3>2. GrossMoved(p, n, q, m)
      BY <3>1, GrossMoves
    <3> QED BY <2>4, <3>2 DEF GrossMoved
  <2> QED BY <1>2, <1>3, <1>5, <1>7, <2>2, <2>3, <2>4, <2>5
<1> QED BY <1>6, <1>7

LEMMA WorthSlipped ==
    ASSUME NEW positions \in Positions, NEW prices \in [Instruments -> Nat], NEW slipped \in [Instruments -> Nat],
           \A j \in Instruments : prices[j] <= slipped[j], NEW S \in SUBSET Instruments
    PROVE  Worth(positions, prices, S) <= Worth(positions, slipped, S)
<1>1. PICK f, g : f = Values(positions, prices) /\ g = Values(positions, slipped)
  OBVIOUS
<1>2. /\ Worth(positions, prices, S) = SumFunctionOnSet(f, S) /\ IsFiniteSet(S)
      /\ \A j \in Instruments : /\ positions[j].quantity \in Nat /\ f[j] \in Nat
                                /\ f[j] = GrossValue(prices[j], positions[j].quantity)
  BY <1>1, WorthIs
<1>3. /\ Worth(positions, slipped, S) = SumFunctionOnSet(g, S)
      /\ \A j \in Instruments : g[j] \in Nat /\ g[j] = GrossValue(slipped[j], positions[j].quantity)
  BY <1>1, WorthIs
<1>4. ASSUME NEW j \in S PROVE f[j] <= g[j]
  <2>1. PICK p, x, n : p = prices[j] /\ x = slipped[j] /\ n = positions[j].quantity
    OBVIOUS
  <2>2. p \in Nat /\ x \in Nat /\ n \in Nat /\ p <= x
    BY <1>2, <2>1
  <2>3. GrossValue(p, n) <= GrossValue(x, n)
    BY <2>2, GrossByPrice
  <2> QED BY <1>2, <1>3, <2>1, <2>3
<1>5. Summable(f, S) /\ Summable(g, S)
  BY <1>2, <1>3 DEF Summable
<1> QED BY <1>2, <1>3, <1>4, <1>5, SumMonotone

Slipped(prices, f) ==
    IF f.quantity > 0 THEN f.gross - GrossValue(prices[f.instrument], Shares(f))
    ELSE GrossValue(prices[f.instrument], Shares(f)) - f.gross
Levies(prices, F) == SumFunction([f \in F |-> f.fee + Slipped(prices, f)])
Opening(b, F, prices) == NAV(b, prices) + Levies(prices, F)
GrossSum(F) == SumFunction([f \in F |-> f.gross])
Bought(F) == {f \in F : f.quantity > 0}
OrdinaryFills(F) == {f \in F : f.of[3] \notin Emergency}
FairFills(prices, F) ==
    /\ IsFiniteSet(F)
    /\ \A f \in F : /\ f.instrument \in Instruments /\ f.gross \in Nat /\ f.fee + Slipped(prices, f) \in Nat
                    /\ f.quantity > 0 => f.of[3] \notin Emergency

(* The policy, of the instruments the fills F have bought.                 *)
Within(b, F, prices) ==
    /\ \A f \in Bought(F), l \in Levels :
          Worth(b.positions, prices, Group(l, f.instrument)) <= MoneyLimit(Opening(b, F, prices), Policy[l])
    /\ GrossSum(OrdinaryFills(F)) <= MoneyLimit(Opening(b, F, prices), Policy.turnover)
    /\ Bought(F) # {} => GrossSum(F) <= MoneyLimit(Opening(b, F, prices), Policy.turnover)

LEMMA FairSums ==
    ASSUME NEW prices, NEW F, FairFills(prices, F)
    PROVE  /\ Levies(prices, F) \in Nat /\ GrossSum(F) \in Nat /\ GrossSum(OrdinaryFills(F)) \in Nat
           /\ GrossSum(OrdinaryFills(F)) <= GrossSum(F)
<1>1. IsFiniteSet(F) /\ \A f \in F : f.gross \in Nat /\ f.fee + Slipped(prices, f) \in Nat
  BY DEF FairFills
<1>2. PICK e, g : e = [f \in F |-> f.fee + Slipped(prices, f)] /\ g = [f \in F |-> f.gross]
  OBVIOUS
<1>3. DOMAIN e = F /\ DOMAIN g = F /\ (\A f \in F : e[f] \in Nat /\ g[f] \in Nat)
  BY <1>1, <1>2
<1>4. SumFunction(e) \in Nat /\ SumFunction(g) \in Nat /\ SumFunction(g) = SumFunctionOnSet(g, F)
  BY <1>1, <1>3, SumOfNats
<1>5. PICK T, h : T = OrdinaryFills(F) /\ h = [f \in T |-> f.gross]
  OBVIOUS
<1>6. T \in SUBSET F /\ IsFiniteSet(T) /\ DOMAIN h = T /\ \A f \in T : h[f] \in Nat /\ h[f] = g[f]
  BY <1>1, <1>2, <1>5, FS_Subset DEF OrdinaryFills
<1>7. SumFunction(h) \in Nat /\ SumFunction(h) = SumFunctionOnSet(h, T)
  BY <1>6, SumOfNats
<1>8. SumFunctionOnSet(h, T) = SumFunctionOnSet(g, T)
  BY <1>6, SumSame
<1>9. SumFunctionOnSet(g, T) <= SumFunctionOnSet(g, F)
  BY <1>1, <1>3, <1>6, SumPart
<1> QED BY <1>2, <1>4, <1>5, <1>7, <1>8, <1>9 DEF Levies, GrossSum

LEMMA FairSumsGrow ==
    ASSUME NEW prices, NEW F, NEW f, f \notin F, NEW G, G = F \cup {f}, FairFills(prices, G)
    PROVE  /\ FairFills(prices, F)
           /\ Levies(prices, G) = Levies(prices, F) + (f.fee + Slipped(prices, f))
           /\ GrossSum(G) = GrossSum(F) + f.gross
<1>1. IsFiniteSet(F) /\ FairFills(prices, F)
  <2>1. IsFiniteSet(F)
    BY FS_Subset DEF FairFills
  <2> QED BY <2>1 DEF FairFills
<1>2. \A x \in G : x.gross \in Nat /\ x.fee + Slipped(prices, x) \in Nat
  BY DEF FairFills
<1>3. PICK e, d : e = [x \in F |-> x.fee + Slipped(prices, x)] /\ d = [x \in G |-> x.fee + Slipped(prices, x)]
  OBVIOUS
<1>4. PICK g, h : g = [x \in F |-> x.gross] /\ h = [x \in G |-> x.gross]
  OBVIOUS
<1>5. SumFunction(d) = SumFunction(e) + d[f]
  <2>1. /\ DOMAIN e = F /\ DOMAIN d = G /\ (\A y \in F : e[y] \in Nat) /\ (\A y \in F : d[y] = e[y])
        /\ d[f] \in Nat
    BY <1>2, <1>3
  <2> QED BY <1>1, <2>1, SumGrows
<1>6. SumFunction(h) = SumFunction(g) + h[f] /\ h[f] = f.gross
  <2>1. /\ DOMAIN g = F /\ DOMAIN h = G /\ (\A y \in F : g[y] \in Nat) /\ (\A y \in F : h[y] = g[y])
        /\ h[f] \in Nat /\ h[f] = f.gross
    BY <1>2, <1>4
  <2> QED BY <1>1, <2>1, SumGrows
<1>7. Levies(prices, G) = Levies(prices, F) + (f.fee + Slipped(prices, f))
  <2>1. d[f] = f.fee + Slipped(prices, f)
    BY <1>3
  <2> QED BY <1>3, <1>5, <2>1, Zenon DEF Levies
<1>8. GrossSum(G) = GrossSum(F) + f.gross
  BY <1>4, <1>6 DEF GrossSum
<1>9. /\ Levies(prices, F) \in Nat /\ f.fee + Slipped(prices, f) \in Nat
  BY <1>1, <1>2, FairSums
<1> QED BY <1>1, <1>7, <1>8, <1>9

(* One order of session k is traded at its open.                           *)
TradedAt(s, b, c, o, k, q, prices, price, f) ==
    /\ SoundBook(b) /\ OrdersOwn(b) /\ FillsFine(b) /\ o \in Active(b) /\ o[1] = k /\ SoundBook(c)
    /\ Trades(s, b, c, o, k, q)
    /\ prices = Opens(s, k, CloseAt(k)) /\ price = SlippedPrice(prices[o[2]], SideOf(o))
    /\ f = Reported(o, o[2], SignedBy(o, q), price, OpenAt(k), CloseAt(k))

TradeReported(c, b, o, k, q, prices, price, f) ==
    /\ o \in OrderIds /\ o[2] \in Instruments /\ q \in Nat \ {0} /\ price \in Nat \ {0} /\ prices[o[2]] \in Nat
    /\ prices \in [Instruments -> Nat] /\ b.orders[o].session = k
    /\ f.of = o /\ f.instrument = o[2] /\ f.quantity = SignedBy(o, q) /\ Shares(f) = q
    /\ f.gross = GrossValue(price, q) /\ f.fee = TradeFee(GrossValue(price, q)) /\ f.at = OpenAt(k)
    /\ f.recorded = CloseAt(k)
    /\ f.gross \in Nat \ {0} /\ f.fee \in Nat /\ GrossValue(prices[o[2]], q) \in Nat
    /\ f.quantity > 0 <=> ~Sale(o)
    /\ f.of[3] \in Emergency => Sale(o)
    /\ Slipped(prices, f) \in Nat
    /\ Slipped(prices, f) = IF Sale(o) THEN GrossValue(prices[o[2]], q) - f.gross
                            ELSE f.gross - GrossValue(prices[o[2]], q)
    /\ c.fills = b.fills \cup {f}
    /\ ~Sale(o) => prices[o[2]] <= price

LEMMA TradeIsReported ==
    ASSUME NEW s, Frozen(s), NEW k \in Window, NEW b, NEW c, NEW o, NEW q, NEW prices, NEW price, NEW f,
           TradedAt(s, b, c, o, k, q, prices, price, f)
    PROVE  TradeReported(c, b, o, k, q, prices, price, f)
<1>1. /\ SoundBook(b) /\ OrdersOwn(b) /\ o \in Active(b) /\ o[1] = k /\ Trades(s, b, c, o, k, q)
      /\ prices = Opens(s, k, CloseAt(k)) /\ price = SlippedPrice(prices[o[2]], SideOf(o))
      /\ f = Reported(o, o[2], SignedBy(o, q), price, OpenAt(k), CloseAt(k))
  BY DEF TradedAt
<1>2. /\ o \in OrderIds /\ o[2] \in Instruments /\ o[3] \in Reasons /\ b.orders[o].session = k
      /\ b.orders[o].state # "none"
  BY <1>1, ReasonsArePasses DEF Active, OrdersOwn, OwnOrder
<1>3. /\ q \in Nat \ {0} /\ prices[o[2]] > 0 /\ c.fills = b.fills \cup {f}
  BY <1>1 DEF Trades
<1>4. prices \in [Instruments -> Nat] /\ prices[o[2]] \in Nat
  <2>1. prices \in [Instruments -> Nat]
    BY <1>1, OpensIs
  <2> QED BY <1>2, <2>1
<1>5. PICK p, side : p = prices[o[2]] /\ side = SideOf(o)
  OBVIOUS
<1>6. /\ price \in Nat \ {0} /\ (side = "buy" => price >= p) /\ (side # "buy" => price <= p)
  <2>1. p \in Nat /\ p > 0 /\ price = SlippedPrice(p, side)
    BY <1>1, <1>3, <1>4, <1>5
  <2>2. SlippedPrice(p, side) \in Nat /\ SlippedPrice(p, side) > 0
    BY <2>1, PricesSlip
  <2>3. (side = "buy" => SlippedPrice(p, side) >= p) /\ (side # "buy" => SlippedPrice(p, side) <= p)
    BY <2>1, PricesSlip
  <2> QED BY <2>1, <2>2, <2>3
<1>7. side = "buy" <=> ~Sale(o)
  BY <1>5 DEF SideOf
<1>8. /\ f.of = o /\ f.instrument = o[2] /\ f.quantity = SignedBy(o, q) /\ f.gross = GrossValue(price, q)
      /\ f.fee = TradeFee(GrossValue(price, q)) /\ f.at = OpenAt(k) /\ f.recorded = CloseAt(k) /\ Shares(f) = q
  <2>1. PICK at, recorded : at = OpenAt(k) /\ recorded = CloseAt(k)
    OBVIOUS
  <2>2. at \in Nat /\ recorded \in Nat /\ price \in Nat /\ Reports(f, o, price, q, at, recorded)
    BY <1>1, <1>6, <2>1, SessionTimes DEF Reports
  <2>3. /\ f.of = o /\ f.instrument = o[2] /\ f.quantity = SignedBy(o, q) /\ f.gross = GrossValue(price, q)
        /\ f.fee = TradeFee(GrossValue(price, q)) /\ f.at = at /\ f.recorded = recorded /\ Shares(f) = q
    BY <1>2, <1>3, <2>2, ReportedIs
  <2> QED BY <2>1, <2>3
<1>9. f.gross \in Nat \ {0} /\ f.fee \in Nat /\ GrossValue(p, q) \in Nat
  <2>1. price \in Nat /\ p \in Nat /\ q \in Nat /\ price > 0 /\ q > 0
    BY <1>3, <1>4, <1>5, <1>6
  <2>2. GrossValue(price, q) \in Nat \ {0} /\ GrossValue(p, q) \in Nat
    BY <2>1, GrossFacts
  <2>3. TradeFee(GrossValue(price, q)) \in Nat
    BY <2>1, MoneyTypes
  <2> QED BY <1>8, <2>2, <2>3
<1>10. f.quantity > 0 <=> ~Sale(o)
  BY <1>3, <1>8 DEF SignedBy
<1>11. f.of[3] \in Emergency => Sale(o)
  BY <1>8 DEF Sale, Emergency
<1>12. /\ Slipped(prices, f) = IF Sale(o) THEN GrossValue(p, q) - f.gross ELSE f.gross - GrossValue(p, q)
       /\ Slipped(prices, f) \in Nat
  <2>1. Slipped(prices, f) = IF Sale(o) THEN GrossValue(p, q) - f.gross ELSE f.gross - GrossValue(p, q)
    BY <1>5, <1>8, <1>10, Zenon DEF Slipped
  <2>2. PICK n \in Nat : n = q
    BY <1>3
  <2>3. ASSUME Sale(o) PROVE GrossValue(price, n) <= GrossValue(p, n)
    <3>1. price <= p /\ price \in Nat /\ p \in Nat
      BY <1>4, <1>5, <1>6, <1>7, <2>3
    <3> QED BY <3>1, GrossByPrice
  <2>4. ASSUME ~Sale(o) PROVE GrossValue(p, n) <= GrossValue(price, n)
    <3>1. p <= price /\ price \in Nat /\ p \in Nat
      BY <1>4, <1>5, <1>6, <1>7, <2>4
    <3> QED BY <3>1, GrossByPrice
  <2>5. f.gross = GrossValue(price, n) /\ f.gross \in Nat /\ GrossValue(p, q) = GrossValue(p, n)
    BY <1>8, <1>9, <2>2
  <2> QED BY <1>9, <2>1, <2>3, <2>4, <2>5
<1>13. ~Sale(o) => p <= price
  BY <1>4, <1>5, <1>6, <1>7
<1> QED BY <1>2, <1>3, <1>4, <1>5, <1>6, <1>8, <1>9, <1>10, <1>11, <1>12, <1>13 DEF TradeReported

(* A trade moves money between the account's worth and what it paid.       *)
LEMMA TradeKeepsOpening ==
    ASSUME NEW s, Frozen(s), NEW k \in Window, NEW b, NEW c, NEW o, NEW q, NEW prices, NEW price, NEW f,
           TradedAt(s, b, c, o, k, q, prices, price, f)
    PROVE  /\ NAV(c, prices) + (f.fee + Slipped(prices, f)) = NAV(b, prices)
           /\ NAV(b, prices) \in Nat /\ NAV(c, prices) \in Nat
           /\ \A S \in SUBSET Instruments :
                 /\ o[2] \notin S \/ Sale(o) => Worth(c.positions, prices, S) <= Worth(b.positions, prices, S)
                 /\ o[2] \in S /\ ~Sale(o) =>
                       Worth(c.positions, prices, S)
                         = Worth(b.positions, prices, S) + GrossValue(prices[o[2]], q)
<1>1. TradeReported(c, b, o, k, q, prices, price, f)
  BY TradeIsReported
<1>2. SoundBook(b) /\ SoundBook(c) /\ Exchanged(b, c, o, price, q) /\ prices \in [Instruments -> Nat]
  BY <1>1 DEF TradedAt, Trades, TradeReported
<1>3. PICK i, n, quoted : i = o[2] /\ n = q /\ quoted = GrossValue(prices[o[2]], q)
  OBVIOUS
<1>4. /\ i \in Instruments /\ n \in Nat /\ quoted \in Nat /\ quoted = GrossValue(prices[i], n)
      /\ f.gross \in Nat /\ f.fee \in Nat
      /\ Slipped(prices, f) = IF Sale(o) THEN quoted - f.gross ELSE f.gross - quoted
  BY <1>1, <1>3 DEF TradeReported
<1>5. b.positions \in Positions /\ c.positions \in Positions
  BY <1>2, SoundFields
<1>6. /\ \A j \in Instruments \ {i} : c.positions[j].quantity = b.positions[j].quantity
      /\ Sale(o) => c.positions[i].quantity = b.positions[i].quantity - n
      /\ ~Sale(o) => c.positions[i].quantity = b.positions[i].quantity + n
  <2>1. \A j \in Instruments : b.positions[j].quantity \in Nat
    BY <1>5 DEF Positions
  <2>2. \A j \in Instruments : c.positions[j].quantity
                                = b.positions[j].quantity + (IF j = i THEN SignedBy(o, n) ELSE 0)
    BY <1>2, <1>3 DEF Exchanged
  <2> QED BY <1>4, <2>1, <2>2 DEF SignedBy
<1>7. ASSUME NEW S \in SUBSET Instruments
      PROVE  /\ i \notin S => Worth(c.positions, prices, S) = Worth(b.positions, prices, S)
             /\ i \in S /\ ~Sale(o) => Worth(c.positions, prices, S) = Worth(b.positions, prices, S) + quoted
             /\ i \in S /\ Sale(o) => Worth(c.positions, prices, S) = Worth(b.positions, prices, S) - quoted
             /\ Worth(b.positions, prices, S) \in Nat /\ Worth(c.positions, prices, S) \in Nat
  <2>1. /\ i \notin S => Worth(c.positions, prices, S) = Worth(b.positions, prices, S)
        /\ i \in S /\ c.positions[i].quantity = b.positions[i].quantity + n =>
              Worth(c.positions, prices, S) = Worth(b.positions, prices, S) + GrossValue(prices[i], n)
        /\ i \in S /\ c.positions[i].quantity = b.positions[i].quantity - n =>
              Worth(c.positions, prices, S) = Worth(b.positions, prices, S) - GrossValue(prices[i], n)
    BY <1>2, <1>4, <1>5, <1>6, WorthTraded
  <2>2. Worth(b.positions, prices, S) \in Nat /\ Worth(c.positions, prices, S) \in Nat
    BY <1>2, <1>5, WorthIs
  <2> QED BY <1>4, <1>6, <2>1, <2>2
<1>8. /\ NAV(b, prices) = Total(b.balances) + Worth(b.positions, prices, Instruments)
      /\ NAV(b, prices) \in Nat /\ Total(b.balances) \in Nat
  BY <1>2, NavIs
<1>9. /\ NAV(c, prices) = Total(c.balances) + Worth(c.positions, prices, Instruments)
      /\ NAV(c, prices) \in Nat /\ Total(c.balances) \in Nat
  BY <1>2, NavIs
<1>10. Total(c.balances) = Total(b.balances) + (IF Sale(o) THEN f.gross - f.fee ELSE -(f.gross + f.fee))
  BY <1>1, <1>2 DEF Exchanged, TradeReported
<1>11. NAV(c, prices) + (f.fee + Slipped(prices, f)) = NAV(b, prices)
  <2>1. PICK x, y : x = Worth(b.positions, prices, Instruments) /\ y = Worth(c.positions, prices, Instruments)
    OBVIOUS
  <2>2. x \in Nat /\ y \in Nat /\ y = IF Sale(o) THEN x - quoted ELSE x + quoted
    BY <1>4, <1>7, <2>1
  <2> QED BY <1>4, <1>8, <1>9, <1>10, <2>1, <2>2
<1>12. \A S \in SUBSET Instruments :
          /\ o[2] \notin S \/ Sale(o) => Worth(c.positions, prices, S) <= Worth(b.positions, prices, S)
          /\ o[2] \in S /\ ~Sale(o) =>
                Worth(c.positions, prices, S) = Worth(b.positions, prices, S) + GrossValue(prices[o[2]], q)
  <2>1. SUFFICES ASSUME NEW S \in SUBSET Instruments
                 PROVE  /\ i \notin S \/ Sale(o) =>
                              Worth(c.positions, prices, S) <= Worth(b.positions, prices, S)
                        /\ i \in S /\ ~Sale(o) =>
                              Worth(c.positions, prices, S) = Worth(b.positions, prices, S) + quoted
    BY <1>3
  <2> QED BY <1>4, <1>7
<1> QED BY <1>8, <1>9, <1>11, <1>12

(* What ValidateOrder admitted at the open: with the fill, the session's   *)
(* turnover and the exposures it adds to are within what the NAV allows.   *)
TradeLimited(b, o, k, prices, f) ==
    /\ o[3] \notin Emergency =>
          GrossSum(FillsIn(b, k)) + f.gross <= MoneyLimit(NAV(b, prices), Policy.turnover)
    /\ ~Sale(o) => \A l \in Levels :
          Worth(b.positions, prices, Group(l, o[2])) + f.gross <= MoneyLimit(NAV(b, prices), Policy[l])

LEMMA TradeLimits ==
    ASSUME NEW s, Frozen(s), NEW k \in Window, NEW b, NEW c, NEW o, NEW q, NEW prices, NEW price, NEW f,
           TradedAt(s, b, c, o, k, q, prices, price, f)
    PROVE  TradeLimited(b, o, k, prices, f)
<1>1. TradeReported(c, b, o, k, q, prices, price, f)
  BY TradeIsReported
<1>2. /\ SoundBook(b) /\ OrdersOwn(b) /\ FillsFine(b) /\ o \in Active(b) /\ o[2] \in Instruments
      /\ prices \in [Instruments -> Nat] /\ b.orders[o].session = k /\ price \in Nat \ {0}
      /\ f.gross = GrossValue(price, q) /\ f.gross \in Nat \ {0}
      /\ (~Sale(o) => prices[o[2]] <= price)
  BY <1>1 DEF TradedAt, TradeReported
<1>3. Admissible(Facing(b, o, prices), o, price, q)
  <2>1. Trades(s, b, c, o, k, q) /\ o[1] = k /\ prices = Opens(s, k, CloseAt(k))
        /\ price = SlippedPrice(prices[o[2]], SideOf(o))
    BY DEF TradedAt
  <2> QED BY <2>1 DEF Trades
<1>4. PICK p, i : p = Facing(b, o, prices) /\ i = o[2]
  OBVIOUS
<1>5. PICK slipped : slipped = Slipping(p, i, price)
  OBVIOUS
<1>6. /\ p.prices = prices /\ p.nav = NAV(b, prices) /\ p.nav \in Nat
      /\ p.traded = SessionTurnover(b, b.orders[o].session) /\ p.traded \in Nat
  BY <1>2, <1>4, FacingFields
<1>7. slipped \in [Instruments -> Nat] /\ slipped = [prices EXCEPT ![i] = price]
  BY <1>2, <1>4, <1>5, <1>6 DEF Slipping
<1>8. /\ TurnoverLeft(p, slipped) \in Nat
      /\ \A g \in Nat \ {0} : g <= TurnoverLeft(p, slipped) => p.traded + g <= MoneyLimit(p.nav, Policy.turnover)
      /\ \A S \in SUBSET Instruments : /\ Worth(b.positions, slipped, S) <= Exposure(p, slipped, S)
                                       /\ Exposure(p, slipped, S) \in Nat
                                       /\ Worth(b.positions, slipped, S) \in Nat
  BY <1>2, <1>4, <1>7, FacingLimits
<1>9. p.traded = GrossSum(FillsIn(b, k))
  BY <1>2, <1>6, Zenon DEF SessionTurnover, GrossSum
<1>10. /\ o[3] \notin Emergency => f.gross <= TurnoverLeft(p, slipped)
       /\ ~Sale(o) => f.gross <= Room(p, i, slipped)
  BY <1>2, <1>3, <1>4, <1>5, Zenon DEF Admissible
<1>11. ASSUME ~Sale(o), NEW l \in Levels
       PROVE  Worth(b.positions, prices, Group(l, i)) + f.gross <= MoneyLimit(NAV(b, prices), Policy[l])
  <2>1. PICK m : m = MaxPurchase(p, o[2], price, 0)
    OBVIOUS
  <2>2. PICK S : S = Group(l, i)
    OBVIOUS
  <2>3. /\ Room(p, o[2], Slipping(p, o[2], price)) \in Int
        /\ \A h \in Levels :
              Room(p, o[2], Slipping(p, o[2], price))
                 <= MoneyLimit(p.nav, Policy[h]) - Exposure(p, Slipping(p, o[2], price), Group(h, o[2]))
    <3>1. 0 \in Nat /\ price \in Nat \ {0} /\ o \in Active(b) /\ ~Sale(o) /\ SoundBook(b) /\ OrdersOwn(b)
          /\ FillsFine(b) /\ prices \in [Instruments -> Nat] /\ p = Facing(b, o, prices)
      BY <1>2, <1>4, <1>11
    <3> QED BY <2>1, <3>1, AdmittedPurchase
  <2>4. /\ Room(p, i, slipped) \in Int
        /\ Room(p, i, slipped) <= MoneyLimit(p.nav, Policy[l]) - Exposure(p, slipped, S)
    BY <1>4, <1>5, <1>11, <2>2, <2>3
  <2>5. S \in SUBSET Instruments
    BY <1>2, <1>4, <1>11, <2>2, GroupIs
  <2>6. Worth(b.positions, prices, S) <= Worth(b.positions, slipped, S) /\ Worth(b.positions, prices, S) \in Nat
    <3>1. b.positions \in Positions
      BY <1>2, SoundFields
    <3>2. \A j \in Instruments : prices[j] <= slipped[j]
      BY <1>2, <1>4, <1>7, <1>11
    <3> QED BY <1>2, <1>7, <2>5, <3>1, <3>2, WorthSlipped, WorthIs
  <2>7. Policy[l] \in 1 .. 100 /\ MoneyLimit(p.nav, Policy[l]) \in Nat
    BY <1>6, <1>11, PolicyFields DEF Levels
  <2>8. PICK n, w, e, x, y : /\ n = MoneyLimit(p.nav, Policy[l]) /\ w = Worth(b.positions, prices, S)
                             /\ e = Exposure(p, slipped, S) /\ x = Worth(b.positions, slipped, S)
                             /\ y = Room(p, i, slipped)
    OBVIOUS
  <2>9. n \in Nat /\ w \in Nat /\ e \in Nat /\ x \in Nat /\ y \in Int /\ w <= x /\ x <= e /\ y <= n - e
        /\ f.gross <= y /\ f.gross \in Nat
    BY <1>2, <1>8, <1>10, <1>11, <2>4, <2>5, <2>6, <2>7, <2>8
  <2>10. w + f.gross <= n
    BY <2>9
  <2> QED BY <1>6, <2>2, <2>8, <2>10
<1>12. ASSUME o[3] \notin Emergency
       PROVE  GrossSum(FillsIn(b, k)) + f.gross <= MoneyLimit(NAV(b, prices), Policy.turnover)
  <2>1. f.gross \in Nat \ {0} /\ f.gross <= TurnoverLeft(p, slipped)
    BY <1>2, <1>10, <1>12
  <2> QED BY <1>6, <1>8, <1>9, <2>1
<1> QED BY <1>4, <1>11, <1>12 DEF TradeLimited

(* A trade leaves the session's fills within the policy, provided nothing  *)
(* has been bought before a sale: the order of execution.                  *)
LEMMA TradeWithin ==
    ASSUME NEW s, Frozen(s), NEW k \in Window, NEW b, NEW c, NEW o, NEW q, NEW prices, NEW price, NEW f,
           TradedAt(s, b, c, o, k, q, prices, price, f),
           FairFills(prices, FillsIn(b, k)), Within(b, FillsIn(b, k), prices),
           Sale(o) => Bought(FillsIn(b, k)) = {}
    PROVE  /\ FillsIn(c, k) = FillsIn(b, k) \cup {f}
           /\ FairFills(prices, FillsIn(c, k)) /\ Within(c, FillsIn(c, k), prices)
<1>1. TradeReported(c, b, o, k, q, prices, price, f) /\ TradeLimited(b, o, k, prices, f)
  BY TradeIsReported, TradeLimits
<1>2. /\ NAV(c, prices) + (f.fee + Slipped(prices, f)) = NAV(b, prices)
      /\ NAV(b, prices) \in Nat /\ NAV(c, prices) \in Nat
      /\ \A S \in SUBSET Instruments :
            /\ o[2] \notin S \/ Sale(o) => Worth(c.positions, prices, S) <= Worth(b.positions, prices, S)
            /\ o[2] \in S /\ ~Sale(o) =>
                  Worth(c.positions, prices, S) = Worth(b.positions, prices, S) + GrossValue(prices[o[2]], q)
  BY TradeKeepsOpening
<1>3. PICK F, G : F = FillsIn(b, k) /\ G = FillsIn(c, k)
  OBVIOUS
<1>4. f \notin b.fills
  <2>1. FillsFine(b) /\ o \in Active(b) /\ f.of = o
    BY <1>1 DEF TradedAt, TradeReported
  <2>2. IsLive(b.orders[o])
    BY <2>1 DEF Active, IsLive, LiveStates
  <2> QED BY <2>1, <2>2 DEF FillsFine, FillFine
<1>5. f \notin F /\ G = F \cup {f}
  <2>1. c.fills = b.fills \cup {f} /\ f.at = OpenAt(k)
    BY <1>1 DEF TradeReported
  <2> QED BY <1>3, <1>4, <2>1 DEF FillsIn
<1>6. /\ f.of = o /\ f.instrument = o[2] /\ o[2] \in Instruments /\ f.gross \in Nat
      /\ f.fee + Slipped(prices, f) \in Nat /\ (f.quantity > 0 <=> ~Sale(o))
      /\ (o[3] \in Emergency => Sale(o)) /\ GrossValue(prices[o[2]], q) \in Nat
      /\ (~Sale(o) => GrossValue(prices[o[2]], q) <= f.gross)
  <2>1. /\ f.of = o /\ f.instrument = o[2] /\ o[2] \in Instruments /\ f.gross \in Nat
        /\ (f.quantity > 0 <=> ~Sale(o)) /\ (o[3] \in Emergency => Sale(o))
        /\ f.fee \in Nat /\ Slipped(prices, f) \in Nat
        /\ Slipped(prices, f) = IF Sale(o) THEN GrossValue(prices[o[2]], q) - f.gross
                                ELSE f.gross - GrossValue(prices[o[2]], q)
        /\ GrossValue(prices[o[2]], q) \in Nat
    BY <1>1 DEF TradeReported
  <2>2. f.fee + Slipped(prices, f) \in Nat
    BY <2>1
  <2>3. ~Sale(o) => GrossValue(prices[o[2]], q) <= f.gross
    BY <2>1
  <2> QED BY <2>1, <2>2, <2>3
<1>7. FairFills(prices, G)
  <2>1. IsFiniteSet(G) /\ FairFills(prices, F)
    <3>1. FairFills(prices, F) /\ IsFiniteSet(F)
      BY <1>3 DEF FairFills
    <3> QED BY <1>5, <3>1, FS_AddElement
  <2> QED BY <1>5, <1>6, <2>1 DEF FairFills
<1>8. /\ Levies(prices, G) = Levies(prices, F) + (f.fee + Slipped(prices, f))
      /\ GrossSum(G) = GrossSum(F) + f.gross /\ FairFills(prices, F)
  BY <1>5, <1>7, FairSumsGrow
<1>9. /\ Levies(prices, F) \in Nat /\ GrossSum(F) \in Nat /\ Levies(prices, G) \in Nat /\ GrossSum(G) \in Nat
      /\ GrossSum(OrdinaryFills(G)) \in Nat /\ GrossSum(OrdinaryFills(G)) <= GrossSum(G)
  BY <1>7, <1>8, FairSums
<1>10. PICK n, w : n = NAV(b, prices) /\ w = Opening(b, F, prices)
  OBVIOUS
<1>11. w = Opening(c, G, prices) /\ w \in Nat /\ n \in Nat /\ n <= w
  <2>1. w = n + Levies(prices, F) /\ Opening(c, G, prices) = NAV(c, prices) + Levies(prices, G)
    BY <1>10, Zenon DEF Opening
  <2> QED BY <1>2, <1>6, <1>8, <1>9, <1>10, <2>1
<1>12. ASSUME NEW v \in 1 .. 100
       PROVE  MoneyLimit(n, v) <= MoneyLimit(w, v) /\ MoneyLimit(n, v) \in Nat /\ MoneyLimit(w, v) \in Nat
  BY <1>11, LimitGrows, PolicyFields
<1>13. Policy.turnover \in 1 .. 100 /\ \A l \in Levels : Policy[l] \in 1 .. 100
  BY PolicyFields DEF Levels
<1>14. ASSUME o[3] \notin Emergency PROVE GrossSum(G) <= MoneyLimit(w, Policy.turnover)
  <2>1. GrossSum(F) + f.gross <= MoneyLimit(n, Policy.turnover)
    BY <1>1, <1>3, <1>10, <1>14 DEF TradeLimited
  <2>2. /\ MoneyLimit(n, Policy.turnover) <= MoneyLimit(w, Policy.turnover)
        /\ MoneyLimit(n, Policy.turnover) \in Nat /\ MoneyLimit(w, Policy.turnover) \in Nat
    BY <1>12, <1>13
  <2> QED BY <1>6, <1>8, <1>9, <2>1, <2>2
<1>15. GrossSum(OrdinaryFills(G)) <= MoneyLimit(w, Policy.turnover)
  <2>1. CASE o[3] \in Emergency
    <3>1. OrdinaryFills(G) = OrdinaryFills(F)
      BY <1>5, <1>6, <2>1 DEF OrdinaryFills
    <3>2. GrossSum(OrdinaryFills(F)) <= MoneyLimit(w, Policy.turnover)
      BY <1>3, <1>10 DEF Within
    <3> QED BY <3>1, <3>2
  <2>2. CASE o[3] \notin Emergency
    <3>1. MoneyLimit(w, Policy.turnover) \in Nat
      BY <1>12, <1>13
    <3> QED BY <1>9, <1>14, <2>2, <3>1
  <2> QED BY <2>1, <2>2
<1>16. Sale(o) => Bought(G) = {}
  BY <1>3, <1>5, <1>6 DEF Bought
<1>17. Bought(G) # {} => GrossSum(G) <= MoneyLimit(w, Policy.turnover)
  BY <1>6, <1>14, <1>16
<1>18. ASSUME NEW g \in Bought(G), NEW l \in Levels
       PROVE  Worth(c.positions, prices, Group(l, g.instrument)) <= MoneyLimit(w, Policy[l])
  <2>1. ~Sale(o)
    BY <1>16, <1>18
  <2>2. PICK S : S = Group(l, g.instrument)
    OBVIOUS
  <2>3. g.instrument \in Instruments
    BY <1>7, <1>18 DEF Bought, FairFills
  <2>4. S \in SUBSET Instruments
    BY <1>18, <2>2, <2>3, GroupIs
  <2>5. MoneyLimit(n, Policy[l]) <= MoneyLimit(w, Policy[l]) /\ MoneyLimit(n, Policy[l]) \in Nat
        /\ MoneyLimit(w, Policy[l]) \in Nat
    BY <1>12, <1>13, <1>18
  <2>6. Worth(b.positions, prices, S) \in Nat /\ Worth(c.positions, prices, S) \in Nat
    <3>1. b.positions \in Positions /\ c.positions \in Positions /\ prices \in [Instruments -> Nat]
      BY <1>1, SoundFields DEF TradedAt, TradeReported
    <3> QED BY <2>4, <3>1, WorthIs
  <2>7. CASE o[2] \in S
    <3>1. S = Group(l, o[2])
      BY <1>6, <1>18, <2>2, <2>3, <2>7, GroupIs
    <3>2. Worth(b.positions, prices, S) + f.gross <= MoneyLimit(n, Policy[l])
      BY <1>1, <1>10, <1>18, <2>1, <3>1 DEF TradeLimited
    <3>3. Worth(c.positions, prices, S) = Worth(b.positions, prices, S) + GrossValue(prices[o[2]], q)
      BY <1>2, <2>1, <2>4, <2>7
    <3> QED BY <1>6, <2>1, <2>2, <2>5, <2>6, <3>2, <3>3
  <2>8. CASE o[2] \notin S
    <3>1. g \in Bought(F)
      <4>1. o[2] \in Group(l, o[2])
        BY <1>6, <1>18, GroupIs
      <4> QED BY <1>5, <1>6, <1>18, <2>2, <2>8, <4>1 DEF Bought
    <3>2. Worth(b.positions, prices, S) <= MoneyLimit(w, Policy[l])
      BY <1>3, <1>10, <1>18, <2>2, <3>1 DEF Within
    <3>3. Worth(c.positions, prices, S) <= Worth(b.positions, prices, S)
      BY <1>2, <2>4, <2>8
    <3> QED BY <2>2, <2>5, <2>6, <3>2, <3>3
  <2> QED BY <2>7, <2>8
<1>19. Within(c, G, prices)
  BY <1>11, <1>15, <1>17, <1>18 DEF Within
<1> QED BY <1>3, <1>5, <1>7, <1>19

-------------------------------------------------------------------------------
(***************************************************************************)
(* A session as it is executed.  While something has been filled, only     *)
(* orders of the session are left to do, and once something has been       *)
(* bought no sales: so what a purchase was admitted against still holds    *)
(* when the last order has been executed.                                  *)
(***************************************************************************)
SessionKept(b, k, todo, prices, F) ==
    /\ \A f \in F : f.recorded = CloseAt(k)
    /\ F # {} => \A r \in todo : r[1] = k
    /\ Bought(F) # {} => \A r \in todo : ~Sale(r)
    /\ FairFills(prices, F) /\ Within(b, F, prices)

LEMMA NothingFilled ==
    ASSUME NEW b, SoundBook(b), NEW k, NEW todo, NEW prices \in [Instruments -> Nat]
    PROVE  SessionKept(b, k, todo, prices, {})
<1>1. Bought({}) = {} /\ OrdinaryFills({}) = {}
  BY DEF Bought, OrdinaryFills
<1>2. FairFills(prices, {})
  BY FS_EmptySet DEF FairFills
<1>3. Levies(prices, {}) \in Nat /\ GrossSum({}) \in Nat
  BY <1>2, FairSums
<1>4. GrossSum({}) = 0
  <2>1. PICK g : g = [f \in {} |-> f.gross]
    OBVIOUS
  <2>2. SumFunction(g) = SumFunctionOnSet(g, {})
    BY <2>1, FS_EmptySet, SumOfNats
  <2> QED BY <2>1, <2>2, SumEmpty, Zenon DEF GrossSum
<1>5. NAV(b, prices) \in Nat
  BY NavIs
<1>6. MoneyLimit(Opening(b, {}, prices), Policy.turnover) \in Nat
  <2>1. Opening(b, {}, prices) \in Nat
    BY <1>3, <1>5 DEF Opening
  <2> QED BY <2>1, PolicyFields
<1>7. Within(b, {}, prices)
  BY <1>1, <1>4, <1>6 DEF Within
<1> QED BY <1>1, <1>2, <1>7 DEF SessionKept

LEMMA StandingKept ==
    ASSUME NEW b, SoundBook(b), NEW c, SoundBook(c), Stands(b, c), NEW k, NEW todo, NEW left \in SUBSET todo,
           NEW prices \in [Instruments -> Nat], SessionKept(b, k, todo, prices, FillsIn(b, k))
    PROVE  SessionKept(c, k, left, prices, FillsIn(c, k))
<1>1. PICK F : F = FillsIn(b, k)
  OBVIOUS
<1>2. F = FillsIn(c, k)
  BY <1>1 DEF Stands, FillsIn
<1>3. b.positions \in Positions /\ c.positions \in Positions
  BY SoundFields
<1>4. ASSUME NEW S \in SUBSET Instruments
      PROVE  Worth(c.positions, prices, S) = Worth(b.positions, prices, S)
  <2>1. PICK x, y : x = Values(b.positions, prices) /\ y = Values(c.positions, prices)
    OBVIOUS
  <2>2. /\ Worth(b.positions, prices, S) = SumFunctionOnSet(x, S) /\ IsFiniteSet(S)
        /\ \A i \in Instruments : x[i] = GrossValue(prices[i], b.positions[i].quantity)
    BY <1>3, <1>4, <2>1, WorthIs
  <2>3. /\ Worth(c.positions, prices, S) = SumFunctionOnSet(y, S)
        /\ \A i \in Instruments : y[i] = GrossValue(prices[i], c.positions[i].quantity)
    BY <1>3, <1>4, <2>1, WorthIs
  <2>4. \A i \in S : y[i] = x[i]
    BY <1>4, <2>2, <2>3 DEF Stands
  <2> QED BY <2>2, <2>3, <2>4, SumSame
<1>5. NAV(c, prices) = NAV(b, prices)
  <2>1. /\ NAV(b, prices) = Total(b.balances) + Worth(b.positions, prices, Instruments)
        /\ NAV(c, prices) = Total(c.balances) + Worth(c.positions, prices, Instruments)
    BY NavIs
  <2> QED BY <1>4, <2>1 DEF Stands
<1>6. Opening(c, F, prices) = Opening(b, F, prices)
  BY <1>5, Zenon DEF Opening
<1>7. FairFills(prices, F) /\ Within(b, F, prices)
  BY <1>1 DEF SessionKept
<1>8. Within(c, F, prices)
  <2>1. ASSUME NEW f \in Bought(F), NEW l \in Levels
        PROVE  Worth(c.positions, prices, Group(l, f.instrument))
                  = Worth(b.positions, prices, Group(l, f.instrument))
    <3>1. f.instrument \in Instruments
      BY <1>7, <2>1 DEF FairFills, Bought
    <3>2. Group(l, f.instrument) \in SUBSET Instruments
      BY <2>1, <3>1, GroupIs
    <3> QED BY <1>4, <3>2
  <2> QED BY <1>6, <1>7, <2>1 DEF Within
<1> QED BY <1>1, <1>2, <1>7, <1>8 DEF SessionKept

(* Precedes and the sessions: a later order of todo is not of an earlier   *)
(* session, and is no sale if this one is a purchase of the same session.  *)
LEMMA NextInOrder ==
    ASSUME NEW k \in Window, NEW b, NoneFrom(b, k + 1), NEW todo \in SUBSET Active(b),
           NEW o \in todo, NEW r \in todo, Precedes(o, r)
    PROVE  /\ o[1] = k => r[1] = k
           /\ o[1] = k /\ ~Sale(o) => ~Sale(r)
<1>1. o \in OrderIds /\ r \in OrderIds /\ b.orders[r].state # "none"
  BY DEF Active
<1>2. o[1] \in Nat /\ r[1] \in Nat /\ k \in Nat
  BY <1>1, BacktestAssumption, BookAssumption DEF Window
<1>3. r[1] <= k
  BY <1>1, <1>2 DEF NoneFrom
<1>4. o[1] <= r[1] /\ (o[1] = r[1] /\ ~Sale(o) => ~Sale(r))
  <2>1. Id(o) = Id(r) => o[1] = r[1] /\ (Sale(o) <=> Sale(r))
    BY DEF Id, Sale
  <2>2. CASE o[1] < r[1]
    BY <1>2, <2>2
  <2>3. CASE o[1] = r[1] /\ Sale(o) /\ ~Sale(r)
    BY <1>2, <2>3
  <2>4. CASE o[1] = r[1] /\ Sale(o) = Sale(r)
    BY <1>2, <2>4
  <2>5. CASE Id(o) = Id(r)
    BY <1>2, <2>1, <2>5
  <2> QED BY <2>2, <2>3, <2>4, <2>5 DEF Precedes
<1> QED BY <1>2, <1>3, <1>4

LEMMA ExecutionKeeps ==
    ASSUME NEW s, Frozen(s), NEW k \in Window, NEW b, BookAt(s, b, Universe, OpenAt(k)), NoneFrom(b, k + 1),
           NEW todo \in SUBSET Active(b), todo # {}, NEW o, o = Upcoming(todo),
           NEW c, c = Execute(s, b, o, k), ~c.broken,
           NEW prices, prices = Opens(s, k, CloseAt(k)), SessionKept(b, k, todo, prices, FillsIn(b, k))
    PROVE  SessionKept(c, k, todo \ {o}, prices, FillsIn(c, k))
<1>1. o \in todo /\ \A r \in todo \ {o} : Precedes(o, r)
  BY UpcomingIsOne DEF Active
<1>2. PICK F, left : F = FillsIn(b, k) /\ left = todo \ {o}
  OBVIOUS
<1>3. NextExecuted(s, b, c, o, k, todo)
  BY <1>1, ExecutingNext
<1>4. /\ SoundBook(b) /\ OrdersOwn(b) /\ FillsFine(b) /\ SoundBook(c) /\ Executed(s, b, c, o, k)
      /\ o \in Active(b) /\ left \in SUBSET todo
  BY <1>1, <1>2, <1>3 DEF NextExecuted, BookAt
<1>5. prices \in [Instruments -> Nat]
  BY OpensIs
<1>6. CASE Stands(b, c)
  BY <1>2, <1>4, <1>5, <1>6, StandingKept
<1>7. ASSUME NEW q, Trades(s, b, c, o, k, q), o[1] = k
      PROVE  SessionKept(c, k, left, prices, FillsIn(c, k))
  <2>1. PICK price : price = SlippedPrice(prices[o[2]], SideOf(o))
    OBVIOUS
  <2>2. PICK f : f = Reported(o, o[2], SignedBy(o, q), price, OpenAt(k), CloseAt(k))
    OBVIOUS
  <2>3. TradedAt(s, b, c, o, k, q, prices, price, f)
    BY <1>4, <1>7, <2>1, <2>2 DEF TradedAt
  <2>4. TradeReported(c, b, o, k, q, prices, price, f)
    BY <2>3, TradeIsReported
  <2>5. f.recorded = CloseAt(k) /\ (f.quantity > 0 <=> ~Sale(o))
    BY <2>4 DEF TradeReported
  <2>6. /\ FairFills(prices, F) /\ Within(b, F, prices) /\ (Sale(o) => Bought(F) = {})
        /\ (\A g \in F : g.recorded = CloseAt(k)) /\ (Bought(F) # {} => \A r \in todo : ~Sale(r))
    BY <1>1, <1>2 DEF SessionKept
  <2>7. /\ FillsIn(c, k) = F \cup {f}
        /\ FairFills(prices, FillsIn(c, k)) /\ Within(c, FillsIn(c, k), prices)
    BY <1>2, <2>3, <2>6, TradeWithin
  <2>8. \A r \in left : r[1] = k /\ (~Sale(o) => ~Sale(r))
    BY <1>1, <1>2, <1>7, NextInOrder
  <2>9. ASSUME Bought(F \cup {f}) # {}, NEW r \in left PROVE ~Sale(r)
    BY <1>2, <2>5, <2>6, <2>8, <2>9 DEF Bought
  <2> QED BY <2>5, <2>6, <2>7, <2>8, <2>9 DEF SessionKept
<1>8. ASSUME NEW q, Trades(s, b, c, o, k, q), o[1] # k
      PROVE  SessionKept(c, k, left, prices, FillsIn(c, k))
  <2>1. F = {}
    BY <1>1, <1>2, <1>8 DEF SessionKept
  <2>2. o[1] \in Nat /\ k \in Nat
    BY <1>4, BacktestAssumption, BookAssumption DEF Window, Active
  <2>3. PICK f : f = Reported(o, o[2], SignedBy(o, q), SlippedPrice(Opens(s, o[1], CloseAt(k))[o[2]], SideOf(o)),
                              OpenAt(o[1]), CloseAt(k))
    OBVIOUS
  <2>4. c.fills = b.fills \cup {f}
    BY <1>8, <2>3 DEF Trades
  <2>5. f.at = OpenAt(o[1])
    BY <2>3 DEF Reported
  <2>6. f.at # OpenAt(k)
    BY <1>8, <2>2, <2>5 DEF OpenAt
  <2>7. FillsIn(c, k) = {}
    BY <1>2, <2>1, <2>4, <2>6 DEF FillsIn
  <2> QED BY <1>4, <1>5, <2>7, NothingFilled
<1> QED BY <1>2, <1>4, <1>6, <1>7, <1>8 DEF Executed

SessionFair(s, r) ==
    SessionKept(r.book, r.session, r.todo, Opens(s, r.session, CloseAt(r.session)), FillsIn(r.book, r.session))
PolicyFine(s, r) == r.phase = "execute" => SessionFair(s, r)
PolicyInv == PolicyFine(snapshot, replay)

LEMMA DecidedKept ==
    ASSUME NEW s, Frozen(s), NEW r, ReplayFine(s, r), r.phase = "decide",
           NEW d, d = Reconcile(s, Evening(s, r.book, r.session), OpenAt(r.session), CloseAt(r.session), Universe),
           NEW x, DecidedTo(r, x, d)
    PROVE  PolicyFine(s, x)
<1>1. PICK k, b : k = r.session /\ b = r.book
  OBVIOUS
<1>2. k \in Window /\ BookAt(s, b, Universe, Since(k)) /\ NoneFrom(b, k) /\ ReplayRecord(r)
  BY <1>1 DEF ReplayFine, DecidingFine
<1>3. OpenedTo(s, b, d, k)
  BY <1>1, <1>2, Deciding
<1>4. SoundBook(d) /\ d.fills = b.fills /\ FillsFine(b)
  BY <1>2, <1>3 DEF OpenedTo, BookAt
<1>5. x.session = k /\ x.book = d /\ x.todo = Active(d)
  BY <1>1, <1>2 DEF ReplayRecord, DecidedTo
<1>6. k \in Nat
  BY <1>2, BacktestAssumption DEF Window
<1>7. FillsIn(d, k) = {}
  <2>1. SUFFICES ASSUME NEW f \in b.fills PROVE f.at # OpenAt(k)
    BY <1>4 DEF FillsIn
  <2>2. f.of \in OrderIds /\ f.of[1] < k
    BY <1>2, <1>4, <1>6, LaterBook
  <2>3. f.of[1] \in Nat
    BY <2>2, BacktestAssumption DEF Window
  <2>4. f.at = OpenAt(f.of[1])
    BY <1>4 DEF FillsFine, FillFine
  <2> QED BY <1>6, <2>2, <2>3, <2>4 DEF OpenAt
<1>8. PICK prices : prices = Opens(s, k, CloseAt(k))
  OBVIOUS
<1>9. prices \in [Instruments -> Nat]
  BY <1>2, <1>8, OpensIs
<1>10. SessionKept(d, k, Active(d), prices, {})
  BY <1>4, <1>9, NothingFilled
<1> QED BY <1>5, <1>7, <1>8, <1>10 DEF PolicyFine, SessionFair

LEMMA ExecutedKept ==
    ASSUME NEW s, Frozen(s), NEW r, ReplayFine(s, r), PolicyFine(s, r), r.phase = "execute", r.todo # {},
           NEW o, o = Upcoming(r.todo), NEW c, c = Execute(s, r.book, o, r.session),
           NEW x, ExecutedTo(r, x, c, o)
    PROVE  PolicyFine(s, x)
<1>1. PICK k, b, todo : k = r.session /\ b = r.book /\ todo = r.todo
  OBVIOUS
<1>2. /\ k \in Window /\ BookAt(s, b, Universe, OpenAt(k)) /\ NoneFrom(b, k + 1) /\ ReplayRecord(r)
      /\ todo \in SUBSET Active(b)
  BY <1>1 DEF ReplayFine, ExecutingFine, BooksSound
<1>3. PICK prices : prices = Opens(s, k, CloseAt(k))
  OBVIOUS
<1>4. /\ x.session = k /\ x.book = c /\ x.todo = todo \ {o}
      /\ x.phase = IF c.broken THEN "finish" ELSE "execute"
  BY <1>1, <1>2 DEF ReplayRecord, ExecutedTo
<1>5. SessionKept(b, k, todo, prices, FillsIn(b, k))
  BY <1>1, <1>3 DEF PolicyFine, SessionFair
<1>6. ASSUME ~c.broken PROVE SessionKept(c, k, todo \ {o}, prices, FillsIn(c, k))
  <2>1. todo # {} /\ o = Upcoming(todo) /\ c = Execute(s, b, o, k)
    BY <1>1
  <2> QED BY <1>2, <1>3, <1>5, <1>6, <2>1, ExecutionKeeps
<1> QED BY <1>3, <1>4, <1>6 DEF PolicyFine, SessionFair

(* Between the actions only ExecuteNext finds orders to execute.           *)
LEMMA PolicyIsKept == ReplayInv /\ PolicyInv /\ [Next]_vars => PolicyInv'
<1>1. SUFFICES ASSUME ReplayInv, PolicyInv, [Next]_vars PROVE PolicyInv'
  OBVIOUS
<1>2. ReplayFine(snapshot, replay) /\ ReplayRecord(replay)
  BY <1>1 DEF ReplayInv, ReplayFine
<1>3. SUFFICES ASSUME replay'.phase = "execute" PROVE PolicyFine(snapshot', replay')
  BY Zenon DEF PolicyInv, PolicyFine
<1>4. NoReplay.phase = "idle"
  BY NoReplayFine
<1>5. ASSUME NEW days \in Pasts, NEW history \in [Actions -> Histories], CreateBacktest(days, history)
      PROVE  FALSE
  <2>1. run.status = "none" /\ replay' = replay
    BY <1>5 DEF CreateBacktest
  <2> QED BY <1>1, <1>3, <2>1 DEF ReplayInv, RunFine
<1>6. CASE Fetch
  <2>1. replay' = [NoReplay EXCEPT !.phase = "start"]
    BY <1>6 DEF Fetch
  <2>2. replay'.phase = "start"
    BY <2>1 DEF NoReplay
  <2> QED BY <1>3, <2>2
<1>7. CASE Start
  <2>1. replay' = NoReplay \/ replay' = [replay EXCEPT !.phase = "decide", !.session = 1]
    BY <1>7 DEF Start
  <2>2. replay'.phase \in {"idle", "decide"}
    BY <1>2, <1>4, <2>1 DEF ReplayRecord
  <2> QED BY <1>3, <2>2
<1>8. CASE Decide
  <2>1. PICK d : d = Reconcile(snapshot, Evening(snapshot, replay.book, replay.session),
                               OpenAt(replay.session), CloseAt(replay.session), Universe)
    OBVIOUS
  <2>2. /\ snapshot' = snapshot /\ replay.phase = "decide"
        /\ replay' = [replay EXCEPT !.book = d, !.todo = Active(d),
                                    !.phase = IF d.broken THEN "finish" ELSE "execute"]
    BY <1>8, <2>1, Zenon DEF Decide
  <2>3. PICK r, x : r = replay /\ x = replay'
    OBVIOUS
  <2>4. /\ Frozen(snapshot) /\ ReplayFine(snapshot, r) /\ r.phase = "decide"
        /\ d = Reconcile(snapshot, Evening(snapshot, r.book, r.session), OpenAt(r.session), CloseAt(r.session), Universe)
        /\ DecidedTo(r, x, d)
    BY <1>1, <2>1, <2>2, <2>3, RunIsFrozen DEF DecidedTo
  <2>5. PolicyFine(snapshot, x)
    BY <2>4, DecidedKept
  <2> QED BY <2>2, <2>3, <2>5
<1>9. CASE ExecuteNext
  <2>1. PICK o : o = Upcoming(replay.todo)
    OBVIOUS
  <2>2. PICK c : c = Execute(snapshot, replay.book, o, replay.session)
    OBVIOUS
  <2>3. /\ snapshot' = snapshot /\ replay.phase = "execute" /\ replay.todo # {}
        /\ replay' = [replay EXCEPT !.book = c, !.todo = replay.todo \ {o},
                                    !.phase = IF c.broken THEN "finish" ELSE replay.phase]
    BY <1>9, <2>1, <2>2 DEF ExecuteNext
  <2>4. PICK r, x : r = replay /\ x = replay'
    OBVIOUS
  <2>5. /\ Frozen(snapshot) /\ ReplayFine(snapshot, r) /\ PolicyFine(snapshot, r) /\ r.phase = "execute"
        /\ r.todo # {} /\ o = Upcoming(r.todo) /\ c = Execute(snapshot, r.book, o, r.session)
        /\ ExecutedTo(r, x, c, o)
    BY <1>1, <2>1, <2>2, <2>3, <2>4, RunIsFrozen DEF ExecutedTo, PolicyInv
  <2>6. PolicyFine(snapshot, x)
    BY <2>5, ExecutedKept
  <2> QED BY <2>3, <2>4, <2>6
<1>10. CASE CloseSession
  <2>1. PICK c, e, k, phase :
           /\ phase \in {"finish", "decide"}
           /\ replay' = [replay EXCEPT !.book = c, !.benchmark = e, !.session = k, !.phase = phase]
    <3>1. PICK k, b, prices, c, e, m, phase :
             /\ k = replay.session
             /\ b = Reconcile(snapshot, replay.book, CloseAt(k), CloseAt(k), Universe)
             /\ prices = Closes(snapshot, k, CloseAt(k))
             /\ c = IF b.broken \/ ~Priced(b, prices) THEN Break(b)
                    ELSE [b EXCEPT !.peak = Max({@, NAV(b, prices)})]
             /\ e = IF c.broken \/ replay.benchmark.broken THEN replay.benchmark
                    ELSE FollowBenchmark(snapshot, replay.benchmark, k)
             /\ m = IF k + 1 \in Window THEN k + 1 ELSE k
             /\ phase = IF c.broken \/ k + 1 \notin Window THEN "finish" ELSE "decide"
      OBVIOUS
    <3>2. replay' = [replay EXCEPT !.book = c, !.benchmark = e, !.session = m, !.phase = phase]
      BY <1>10, <3>1, Zenon DEF CloseSession
    <3>3. phase \in {"finish", "decide"}
      BY <3>1
    <3> QED BY <3>2, <3>3
  <2>2. replay'.phase = phase
    BY <1>2, <2>1 DEF ReplayRecord
  <2> QED BY <1>3, <2>1, <2>2
<1>11. CASE Finish
  BY <1>3, <1>4, <1>11 DEF Finish
<1>12. CASE Interrupt
  BY <1>3, <1>4, <1>12 DEF Interrupt
<1>13. CASE UNCHANGED vars
  BY <1>1, <1>13 DEF vars, PolicyInv
<1> QED BY <1>1, <1>5, <1>6, <1>7, <1>8, <1>9, <1>10, <1>11, <1>12, <1>13 DEF Next

LEMMA WeighsIs ==
    ASSUME NEW b, NEW prices, NEW holdings, holdings = [i \in Instruments |-> b.positions[i].quantity],
           NEW S \in SUBSET Instruments
    PROVE  Weighs(holdings, prices, S) = Worth(b.positions, prices, S)
<1>1. [i \in S |-> GrossValue(prices[i], holdings[i])] = [i \in S |-> GrossValue(prices[i], b.positions[i].quantity)]
  OBVIOUS
<1> QED BY <1>1, Zenon DEF Weighs, Worth

(* What WithinPolicy says of an executed session.                          *)
LEMMA ExecutionIsKept ==
    ASSUME Frozen(snapshot), NEW k \in Window, NEW b, NEW prices, prices = Opens(snapshot, k, CloseAt(k)),
           SessionKept(b, k, {}, prices, FillsIn(b, k))
    PROVE  ExecutionKept(b, k)
<1>1. PICK F : F = FillsIn(b, k)
  OBVIOUS
<1>2. OnTime(b, k) = F /\ FairFills(prices, F) /\ Within(b, F, prices)
  BY <1>1 DEF OnTime, SessionKept
<1>3. PICK nav : nav = Opening(b, F, prices)
  OBVIOUS
<1>4. OpeningNAV(b, k) = nav
  <2>1. OpeningNAV(b, k)
           = NAV(b, prices) + SumFunction([f \in F |-> f.fee + Slipped(prices, f)])
    BY <1>2, Zenon DEF OpeningNAV, Slipped
  <2> QED BY <1>3, <2>1 DEF Opening, Levies
<1>5. PICK holdings : holdings = [i \in Instruments |-> b.positions[i].quantity]
  OBVIOUS
<1>6. Kept(holdings, prices, nav, {f.instrument : f \in Bought(F)})
  <2>1. SUFFICES ASSUME NEW f \in Bought(F), NEW l \in Levels
                 PROVE  Weighs(holdings, prices, Group(l, f.instrument)) <= MoneyLimit(nav, Policy[l])
    BY Zenon DEF Kept
  <2>2. f.instrument \in Instruments
    BY <1>2 DEF FairFills, Bought
  <2>3. Group(l, f.instrument) \in SUBSET Instruments
    BY <2>2, GroupIs
  <2>4. Weighs(holdings, prices, Group(l, f.instrument)) = Worth(b.positions, prices, Group(l, f.instrument))
    BY <1>5, <2>3, WeighsIs
  <2> QED BY <1>2, <1>3, <2>4 DEF Within
<1>7. /\ GrossSum(OrdinaryFills(F)) <= MoneyLimit(nav, Policy.turnover)
      /\ Bought(F) # {} => GrossSum(F) <= MoneyLimit(nav, Policy.turnover)
  BY <1>2, <1>3 DEF Within
<1> QED BY <1>2, <1>4, <1>5, <1>6, <1>7, Zenon DEF ExecutionKept, GrossSum, OrdinaryFills, Bought

(* The policy is kept (WithinPolicy): by what BuildRebalance plans at the  *)
(* closes it sees, and by what execute makes of it at the opens, gaps and  *)
(* partial fills included, once a session's orders are done.               *)
THEOREM WithinThePolicy == Spec => []WithinPolicy
<1>1. Init => PolicyInv
  <2>1. NoReplay.phase = "idle"
    BY NoReplayFine
  <2> QED BY <2>1 DEF Init, PolicyInv, PolicyFine
<1>2. ReplayInv /\ PolicyInv => WithinPolicy
  <2>1. SUFFICES ASSUME ReplayInv, PolicyInv PROVE WithinPolicy
    OBVIOUS
  <2>2. PICK k, b : k = replay.session /\ b = replay.book
    OBVIOUS
  <2>3. ASSUME replay.phase = "decide"
        PROVE  PlanKept(Reconcile(snapshot, b, CloseAt(k - 1), CloseAt(k - 1), Universe), k)
    <3>1. Frozen(snapshot) /\ k \in Window /\ BookAt(snapshot, b, Universe, Since(k)) /\ NoneFrom(b, k)
      BY <2>1, <2>2, <2>3, RunIsFrozen DEF ReplayFine, DecidingFine
    <3>2. PICK m : m = Reconcile(snapshot, b, CloseAt(k - 1), CloseAt(k - 1), Universe)
      OBVIOUS
    <3>3. PICK c : c = Plan(snapshot, m, k)
      OBVIOUS
    <3>4. PlannedTo(snapshot, b, m, c, k)
      BY <3>1, <3>2, <3>3, EveningIs
    <3>5. SoundBook(m) /\ m.peak \in Nat
      BY <3>4 DEF PlannedTo, BookAt
    <3> QED BY <3>1, <3>2, <3>5, PlansAreKept
  <2>4. ASSUME replay.phase = "execute", replay.todo = {} PROVE ExecutionKept(b, k)
    <3>1. Frozen(snapshot) /\ k \in Window
      BY <2>1, <2>2, <2>4, RunIsFrozen DEF ReplayFine, ExecutingFine
    <3>2. PICK prices : prices = Opens(snapshot, k, CloseAt(k))
      OBVIOUS
    <3>3. SessionKept(b, k, {}, prices, FillsIn(b, k))
      BY <2>1, <2>2, <2>4, <3>2 DEF PolicyInv, PolicyFine, SessionFair
    <3> QED BY <3>1, <3>2, <3>3, ExecutionIsKept
  <2> QED BY <2>2, <2>3, <2>4, Zenon DEF WithinPolicy
<1> QED BY <1>1, <1>2, ReplayIsFine, PolicyIsKept, PTL DEF Spec

===============================================================================
