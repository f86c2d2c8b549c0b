----------------------------- MODULE PaperAccount -----------------------------
(***************************************************************************)
(* One simulated account of the Investment context                         *)
(* (backend/internal/modules/investment): its cash balances, positions,    *)
(* orders and ledger, as the API's commands and the Worker's account jobs  *)
(* change them.                                                            *)
(*                                                                         *)
(* Every command locks the account row first and keeps the lock to the end *)
(* of its transaction, so transactions on one account are serial, and one  *)
(* that rolls back is one that never ran.  The two that loop, Execute over *)
(* the due orders and Reconcile over the corporate actions, are a step per *)
(* iteration with the lock held (job); the others are one step.  The       *)
(* versions that callers and saves compare only refuse a command and are   *)
(* left out.                                                               *)
(*                                                                         *)
(* The changes of the books themselves are AccountBook's.  Prices are      *)
(* after slippage, one price for a bar's open and close; the risk limits,  *)
(* which need the whole market, are a bound chosen freely (RiskRules has   *)
(* them).                                                                  *)
(***************************************************************************)
EXTENDS AccountBook

CONSTANTS
    Quantities,     \* quantities orders are placed with
    Price,          \* the price of each instrument in each session
    Capacities      \* the capacities volume allows a session

ASSUME AccountAssumption ==
    /\ Quantities \subseteq Nat \ {0} /\ Price \in [Instruments -> [Sessions -> Nat]]
    /\ Capacities \subseteq Nat

VARIABLES
    clock,     \* the time, in ticks
    bars,      \* the sessions of which each instrument's bar is published
    edition,   \* what the source has published of each action
    books,     \* the account's committed rows
    navs,      \* per session, what the saved NAV values
    job        \* the transaction that holds the account, and its remaining work

vars == <<clock, bars, edition, books, navs, job>>

-------------------------------------------------------------------------------
(* The account job the Worker runs (InvestmentJobHandler.maintain): the      *)
(* transaction it is in or has committed last, which holds the account's     *)
(* lock while it has something to do; clean tells that the job has met no    *)
(* corporate action it could not deal with, and at is the time Reconcile     *)
(* read, before the lock.  A job that stops between transactions is run      *)
(* again from its start.                                                     *)
Jobs == [name : {"idle", "execute", "reconcile"}, todo : SUBSET (OrderIds \cup Actions),
         clean : BOOLEAN, at : Times]
Idle == [name |-> "idle", todo |-> {}, clean |-> TRUE, at |-> 0]

(* CreateAccountHandler's account.                                         *)
Init ==
    /\ clock = CloseAt(0)
    /\ bars = [i \in Instruments |-> {0}]
    /\ edition = [a \in Actions |-> "none"]
    /\ books = NewBooks
    /\ navs = [k \in Sessions |-> None]
    /\ job = Idle

Order(o) == books.orders[o]
Terminal(o) == Order(o).state \notin {"pending", "awaiting_bar"}
Active == {o \in OrderIds : Order(o).state \in {"pending", "awaiting_bar"}}
Latest == (clock - 2) \div 3   \* LatestCompleted, the session closed last
Due == {o \in Active : OpenAt(Order(o).session) <= clock}

-------------------------------------------------------------------------------
(* Corporate actions, as ReconcileAccountHandler applies them.             *)

Published(a) == edition[a] # "none"
RevisionUnreviewed(b, a) == Recorded(b, a) /\ b.recorded[a] # edition[a]

(* InventoryChangedSince: a fill from then on, or a later split.           *)
(* Fault: a fill at the very time is not seen.                             *)
InventoryChangedAfter(b, i, t) ==
    \E e \in b.ledger : /\ e.instrument = i /\ e.at > t
                        /\ e.kind \in {"buy_fill", "sell_fill", "split"}
InventoryChangedSince(b, i, t) ==
    \E e \in b.ledger :
        /\ e.instrument = i
        /\ \/ e.kind \in {"buy_fill", "sell_fill"} /\ e.at >= t
           \/ e.kind = "split" /\ e.at > t

(* An unrecorded split cancels the orders of its instrument that have not  *)
(* opened before it, even if it can not be applied afterwards.             *)
Cancelled(b, a) ==
    LET live == {o \in OrderIds : /\ b.orders[o].state \in {"pending", "awaiting_bar"}
                                  /\ b.orders[o].instrument = Security[a]
                                  /\ EffectiveAt[a] <= OpenAt(b.orders[o].session)} IN
    Release(b, live, "cancelled")

(* Why an unrecorded action is left for review.                            *)
PriorOpeningUnresolved(b, a) ==
    \E o \in OrderIds : /\ b.orders[o].state \in {"pending", "awaiting_bar"}
                        /\ b.orders[o].instrument = Security[a]
                        /\ OpenAt(b.orders[o].session) < EffectiveAt[a]
CannotApply(b, a) ==
    \/ Split(a) /\ InventoryChangedSince(b, Security[a], EffectiveAt[a])
    \/ PriorOpeningUnresolved(b, a)
    \/ edition[a] = "incomplete"
    \/ Split(a) /\ b.positions[Security[a]].reserved # 0

(* One iteration of Reconcile's loop: the books after it, and whether the  *)
(* action stays blocked.                                                   *)
Reconciled(b, a) ==
    IF RevisionUnreviewed(b, a) THEN [books |-> b, blocked |-> TRUE]
    ELSE LET c == IF Split(a) /\ ~Recorded(b, a) THEN Cancelled(b, a) ELSE b
             stuck == ~Recorded(c, a) /\ CannotApply(c, a)
             d == IF Recorded(c, a) THEN c ELSE ApplyCorporateAction(c, a, edition[a]) IN
         IF stuck THEN [books |-> c, blocked |-> TRUE]
         ELSE [books |-> IF PaymentDue(d, a, job.at) THEN PayDividend(d, a) ELSE d, blocked |-> FALSE]

-------------------------------------------------------------------------------
(* Matching, as ExecuteOrdersHandler does it.                              *)

(* What keeps an order of the account from executing.                      *)
Blocked(o) ==
    \E a \in Actions :
        /\ Published(a) /\ Security[a] = Order(o).instrument
        /\ EffectiveAt[a] <= OpenAt(Order(o).session)
        /\ \/ edition[a] = "incomplete"
           \/ RevisionUnreviewed(books, a)
           \/ Split(a) /\ ~Recorded(books, a)

(* The opening bar of the order and of all that is held has been seen.     *)
HasBar(o) ==
    /\ ~Blocked(o)
    /\ \A i \in Instruments :
        i = Order(o).instrument \/ books.positions[i].quantity > 0
            => Order(o).session \in bars[i]

(* The fills of the order's instrument and session share one capacity, the *)
(* least any order for them was given.                                     *)
Peers(o) == {r \in OrderIds : /\ Order(r).state # "none"
                              /\ Order(r).instrument = Order(o).instrument
                              /\ Order(r).session = Order(o).session}
FillsOf(S) == {e \in books.ledger : e.kind \in {"buy_fill", "sell_fill"} /\ e.of \in S}
Shares(e) == IF e.quantity < 0 THEN -e.quantity ELSE e.quantity
(* Fault: each order has the capacity to itself.                           *)
RemainingEach(o) == Order(o).capacity
Remaining(o) ==
    LET left == Min({Order(r).capacity : r \in Peers(o)}) - SumFunction([e \in FillsOf(Peers(o)) |-> Shares(e)])
    IN IF left < 0 THEN 0 ELSE left

(* MatchAtOpen: what the order's own reservation, the capacities and the   *)
(* risk limits (any bound at all) leave of its quantity.                   *)
Matches(o) ==
    LET order == Order(o)
        p == Price[order.instrument][order.session]
        pos == books.positions[order.instrument] IN
    {q \in 0 .. Min({order.quantity, order.capacity, Remaining(o)}) :
        IF order.side = "buy" THEN q = 0 \/ PurchaseCost(p, q) <= order.cash
                              ELSE q <= order.shares /\ q <= pos.quantity - pos.reserved + order.shares}
BelowFee(o, q) ==
    LET gross == GrossValue(Price[Order(o).instrument][Order(o).session], q) IN
    Order(o).side = "sell" /\ gross < TradeFee(gross)

-------------------------------------------------------------------------------
(* The world: time, the market's bars, the source's corporate actions.     *)

Unlocked == job.todo = {}

Tick == /\ Unlocked /\ clock < Horizon
        /\ clock' = clock + 1
        /\ UNCHANGED <<bars, edition, books, navs, job>>

(* A bar published after its orders expire is never used for them.         *)
BarArrives(i, k) ==
    /\ Unlocked /\ k \notin bars[i]
    /\ CloseAt(k) <= clock /\ clock <= ExpiresAt(k)
    /\ bars' = [bars EXCEPT ![i] = @ \cup {k}]
    /\ UNCHANGED <<clock, edition, books, navs, job>>

(* One published ahead of its effective time does nothing until then, and  *)
(* a revision of one not yet recorded is just the one to record.           *)
Publish(a, e) ==
    /\ Unlocked /\ EffectiveAt[a] <= clock
    /\ \/ edition[a] = "none" /\ e \in {"incomplete", "complete"}
       \/ edition[a] = "incomplete" /\ e = "complete"
       \/ Recorded(books, a) /\ edition[a] = "complete" /\ e = "revised"
    /\ edition' = [edition EXCEPT ![a] = e]
    /\ UNCHANGED <<clock, bars, books, navs, job>>

-------------------------------------------------------------------------------
(* The commands of the API, and the batch an evaluation issues.            *)

(* PlaceOrderHandler, and EvaluateAccountHandler for an order of its batch *)
(* (whose capacity may be 0).  A buy reserves its cost at the latest close. *)
PlaceOrder(o, side, i, q, c) ==
    LET k == CHOOSE n \in 0 .. Last + 1 : OpenAt(n) > clock /\ \A m \in 0 .. n - 1 : OpenAt(m) <= clock
        order == [state |-> "pending", side |-> side, instrument |-> i, quantity |-> q,
                  capacity |-> c, session |-> k,
                  cash |-> IF side = "buy" THEN PurchaseCost(Price[i][Latest], q) ELSE 0,
                  shares |-> IF side = "sell" THEN q ELSE 0] IN
    /\ Unlocked /\ Order(o).state = "none"
    /\ k + 1 \in Sessions /\ Latest \in bars[i]
    /\ CanReserve(books, order)
    /\ books' = Reserve(books, o, order)
    /\ UNCHANGED <<clock, bars, edition, navs, job>>

(* CancelOrderHandler: a pending order whose session has opened is only    *)
(* advanced, and the command refused.                                      *)
CancelOrder(o) ==
    /\ Unlocked /\ Order(o).state = "pending"
    /\ books' = IF o \in Due THEN Advance(books, {o})
                ELSE Release(books, {o}, "cancelled")
    /\ UNCHANGED <<clock, bars, edition, navs, job>>

(* ReservationWriter.CancelBeforeOpen: a pause cancels every order before  *)
(* its open, a change of configuration the buys.                           *)
(* Fault: orders whose session has opened are cancelled too.               *)
CancelPending(buysOnly) ==
    LET freed == {o \in OrderIds : /\ Order(o).state = "pending"
                                   /\ buysOnly => Order(o).side = "buy"} IN
    /\ Unlocked /\ freed # {}
    /\ books' = Release(books, freed, "cancelled")
    /\ UNCHANGED <<clock, bars, edition, navs, job>>
CancelBeforeOpen(buysOnly) ==
    LET pending == {o \in OrderIds : Order(o).state = "pending"}
        freed == {o \in pending \ Due : buysOnly => Order(o).side = "buy"} IN
    /\ Unlocked /\ pending # {}
    /\ books' = Release(Advance(books, pending \cap Due), freed, "cancelled")
    /\ UNCHANGED <<clock, bars, edition, navs, job>>

-------------------------------------------------------------------------------
(* The account job: InvestmentJobHandler.maintain.                         *)

(* Execute begins the job; maintain runs it again when Reconcile unblocks  *)
(* an order, which is the job run once more.                               *)
BeginExecute ==
    /\ Unlocked
    /\ job' = [Idle EXCEPT !.name = "execute", !.todo = Due]
    /\ UNCHANGED <<clock, bars, edition, books, navs>>

(* The next order of Execute's loop: sells come before buys.               *)
Upcoming(o) ==
    /\ job.name = "execute" /\ o \in job.todo
    /\ Order(o).side = "buy" => \A r \in job.todo : Order(r).side = "buy"
Handled(o) ==
    /\ job' = [job EXCEPT !.todo = @ \ {o}, !.clean = @ /\ ~Blocked(o)]
    /\ UNCHANGED <<clock, bars, edition, navs>>

AwaitBar(o) ==
    /\ Upcoming(o) /\ ~HasBar(o) /\ clock < ExpiresAt(Order(o).session)
    /\ books' = Advance(books, {o})
    /\ Handled(o)

ExpireOrder(o) ==
    /\ Upcoming(o) /\ ~HasBar(o) /\ ExpiresAt(Order(o).session) <= clock
    /\ books' = Release(books, {o}, "expired")
    /\ Handled(o)

RejectOrder(o) ==
    /\ Upcoming(o) /\ HasBar(o)
    /\ \E q \in Matches(o) : q = 0 \/ BelowFee(o, q)
    /\ books' = Release(books, {o}, "rejected")
    /\ Handled(o)

FillOrder(o) ==
    LET p == Price[Order(o).instrument][Order(o).session] IN
    /\ Upcoming(o) /\ HasBar(o)
    /\ \E q \in Matches(o) \ {0} : /\ ~BelowFee(o, q) /\ CanFill(books, o, p, q)
                                   /\ books' = Fill(books, o, p, q)
    /\ Handled(o)

(* The job after a step of Reconcile: it is over when something is blocked. *)
After(j) == IF j.todo # {} THEN j ELSE IF j.clean THEN [j EXCEPT !.at = 0] ELSE Idle

(* Reconcile settles, and lists the actions by the time it read before it  *)
(* waited for the lock: now, or as long ago as the tick before.            *)
BeginReconcile ==
    /\ Unlocked /\ job.name = "execute"
    /\ \E t \in {clock - 1, clock} :
          /\ job' = After([job EXCEPT !.name = "reconcile", !.at = t,
                 !.todo = {a \in Actions : Published(a) /\ EffectiveAt[a] <= t}])
          /\ books' = Settle(books, t)
    /\ UNCHANGED <<clock, bars, edition, navs>>

(* Actions go by effective time, splits first.                             *)
ReconcileAction(a) ==
    LET r == Reconciled(books, a) IN
    /\ job.name = "reconcile" /\ a \in job.todo
    /\ \A c \in job.todo : /\ EffectiveAt[a] <= EffectiveAt[c]
                           /\ EffectiveAt[a] = EffectiveAt[c] => (Split(a) \/ ~Split(c))
    /\ books' = r.books
    /\ job' = After([job EXCEPT !.todo = @ \ {a}, !.clean = @ /\ ~r.blocked])
    /\ UNCHANGED <<clock, bars, edition, navs>>

Filled == {e.of : e \in FillsOf(OrderIds)}
Applied == {a \in Actions : Split(a) /\ Recorded(books, a)}
Valued == [fills |-> Filled, splits |-> Applied,
           held |-> [i \in Instruments |-> books.positions[i].quantity]]

(* The end of the job: the NAV of the latest session, unless something is  *)
(* blocked, an order past its open is undecided, or it was saved before.   *)
(* Fault: orders that wait for their bar are not looked at.                *)
SaveNAVEarly ==
    /\ Unlocked /\ job.name = "reconcile" /\ job.clean
    /\ navs[Latest] = None
    /\ \A i \in Instruments : books.positions[i].quantity > 0 => Latest \in bars[i]
    /\ navs' = [navs EXCEPT ![Latest] = Valued]
    /\ job' = Idle
    /\ UNCHANGED <<clock, bars, edition, books>>
SaveNAV ==
    /\ Unlocked /\ job.name = "reconcile" /\ job.clean
    /\ Due = {} /\ navs[Latest] = None
    /\ \A i \in Instruments : books.positions[i].quantity > 0 => Latest \in bars[i]
    /\ navs' = [navs EXCEPT ![Latest] = Valued]
    /\ job' = Idle
    /\ UNCHANGED <<clock, bars, edition, books>>

Next ==
    \/ Tick
    \/ \E i \in Instruments, k \in Sessions : BarArrives(i, k)
    \/ \E a \in Actions, e \in Editions : Publish(a, e)
    \/ \E o \in OrderIds, side \in {"buy", "sell"}, i \in Instruments, q \in Quantities,
          c \in Capacities : PlaceOrder(o, side, i, q, c)
    \/ \E o \in OrderIds : CancelOrder(o)
    \/ \E buysOnly \in BOOLEAN : CancelBeforeOpen(buysOnly)
    \/ BeginExecute
    \/ \E o \in OrderIds : AwaitBar(o) \/ ExpireOrder(o) \/ RejectOrder(o) \/ FillOrder(o)
    \/ BeginReconcile
    \/ \E a \in Actions : ReconcileAction(a)
    \/ SaveNAV

Spec == Init /\ [][Next]_vars

-------------------------------------------------------------------------------
(* Properties.                                                             *)

(* Every variable has its type: no balance, position or reservation the    *)
(* commands compute ever goes below zero.                                  *)
TypeOK ==
    /\ clock \in Times
    /\ bars \in [Instruments -> SUBSET Sessions]
    /\ edition \in [Actions -> Editions]
    /\ books.balances \in Balances
    /\ books.positions \in Positions
    /\ books.orders \in [OrderIds -> OrderRows]
    /\ \A e \in books.ledger : e \in LedgerRows
    /\ books.recorded \in [Actions -> Editions]
    /\ \A k \in Sessions : navs[k] # None => navs[k].fills \subseteq OrderIds
    /\ job \in Jobs

(* The balances are what the ledger adds up to, and a ledger row exists    *)
(* once for each event key: an account can be rebuilt from its ledger.     *)
LedgerBalances ==
    /\ \A f \in DOMAIN books.balances :
          books.balances[f] = SumFunction([e \in books.ledger |-> e.delta[f]])
    /\ \A i \in Instruments :
          books.positions[i].quantity =
              SumFunction([e \in {r \in books.ledger : r.instrument = i} |-> e.quantity])
    /\ \A e, r \in books.ledger : e.kind = r.kind /\ e.of = r.of => e = r

(* The accruals that are still owed.                                       *)
Unpaid(b) ==
    {e \in b.ledger : /\ e.kind = "dividend_accrual"
                      /\ ~\E r \in b.ledger : r.kind = "dividend_payment" /\ r.of = e.of}

(* What is reserved is exactly what live orders have reserved, and no more *)
(* than is held; what is owed to the account is exactly what no settlement *)
(* and no dividend payment has paid out; and a position that is sold out   *)
(* has no cost left.                                                       *)
ReservationsBacked ==
    /\ books.balances.reserved = SumFunction([o \in Active |-> Order(o).cash])
    /\ \A o \in OrderIds : Terminal(o) => Order(o).cash = 0 /\ Order(o).shares = 0
    /\ \A i \in Instruments :
          /\ books.positions[i].reserved =
                 SumFunction([o \in {r \in Active : Order(r).instrument = i} |-> Order(o).shares])
          /\ books.positions[i].reserved <= books.positions[i].quantity
          /\ books.positions[i].quantity = 0 => books.positions[i].cost = 0
    /\ books.balances.unsettled = SumFunction([e \in Unsettled(books) |-> e.delta.unsettled])
    /\ books.balances.dividends = SumFunction([e \in Unpaid(books) |-> e.delta.dividends])

(* The shares held of i at time t, the fills and the splits of S replayed. *)
Holdings(i, S, t) == Replayed(FillsOf(OrderIds), i, S, t)

(* However late bars and corporate actions are published, and in whatever  *)
(* order fills and splits are recorded, a position is what recording each  *)
(* at its effective time would have made it: no old quantity is traded     *)
(* after a split, and no split multiplies shares bought after it.  And a   *)
(* dividend accrues on the shares so held as its day begins, fills         *)
(* recorded late included, with the splits recorded by then.               *)
EntitledTo(e) ==
    LET eff == EffectiveAt[e.of]
        here == {a \in books.splits[e.of] : Security[a] = e.instrument /\ EffectiveAt[a] = eff}
        held == Holdings(e.instrument, books.splits[e.of], eff - 1)
    IN IF here = {} THEN held ELSE AfterSplit(CHOOSE a \in here : TRUE, held)

HoldingsReplay ==
    /\ \A i \in Instruments : books.positions[i].quantity = Holdings(i, Applied, Horizon)
    /\ \A e \in books.ledger :
          e.kind = "dividend_accrual" => e.delta.dividends = Amount[e.of] * EntitledTo(e)

(* The fills of one instrument in one session stay within the capacity     *)
(* each of the session's orders was given, however the trade was divided.  *)
CapacityShared ==
    \A o \in OrderIds :
        Order(o).state # "none" =>
            SumFunction([e \in FillsOf(Peers(o)) |-> Shares(e)]) <= Order(o).capacity

(* A saved NAV is final: it counts the fills of its session and of the     *)
(* earlier ones, and no such fill is recorded after it.                    *)
NavComplete ==
    \A k \in Sessions :
        navs[k] # None => navs[k].fills = {o \in Filled : Order(o).session <= k}

(* The NAV of a session values the shares held at its close: a split that  *)
(* takes effect in a later session is not in it.                           *)
NavAtClose ==
    \A k \in Sessions, i \in Instruments :
        navs[k] # None => navs[k].held[i] = Holdings(i, navs[k].splits, CloseAt(k))

(* An order that has ended never changes again, and one whose session has  *)
(* opened is never cancelled by a command, only by a split that precedes   *)
(* its open.                                                               *)
OrdersEndOnce ==
    [][\A o \in OrderIds :
          /\ Order(o).state # "none" /\ Terminal(o) => Order(o)' = Order(o)
          /\ o \in Due /\ Order(o)'.state = "cancelled" =>
                \E a \in Actions : /\ Split(a) /\ Security[a] = Order(o).instrument
                                  /\ EffectiveAt[a] <= OpenAt(Order(o).session)
                                  /\ job.name = "reconcile"]_vars

===============================================================================
