-------------------------- MODULE PaperAccountProofs --------------------------
(***************************************************************************)
(* Proofs about PaperAccount: its types, that its ledger adds up, that     *)
(* what it has reserved and is owed is backed, that orders for one session *)
(* share their capacity, that saved NAVs are final, that orders end once,  *)
(* and that positions and dividends are the replay of fills and splits.    *)
(***************************************************************************)
EXTENDS PaperAccount, AccountBookProofs

(* The shares a trade moved.                                               *)
Traded == [e \in LedgerRows |-> Shares(e)]

(* The trades of the orders of S, and what they add up to.                 *)
FillsIn(b, S) == {e \in FillRows(b) : e.of \in S}
TradedSum(b, S) == SumFunctionOnSet(Traded, FillsIn(b, S))

(* The orders that share the capacity of o's session.                      *)
PeersIn(b, o) ==
    {r \in OrderIds : /\ b.orders[r].state # "none"
                      /\ b.orders[r].instrument = b.orders[o].instrument
                      /\ b.orders[r].session = b.orders[o].session}

(* What they have traded is within the capacity of each.                   *)
WithinCapacity(b) ==
    \A o \in OrderIds :
        b.orders[o].state # "none" => TradedSum(b, PeersIn(b, o)) <= b.orders[o].capacity

(* An order is filled in a session that has closed.                        *)
FillsClosed(b, t) == \A e \in FillRows(b) : CloseAt(b.orders[e.of].session) <= t

(* A NAV counts the fills up to its session, and no order is left that can *)
(* still be filled in one of those sessions.                               *)
FilledBy(b, k) == {e.of : e \in {r \in FillRows(b) : b.orders[r.of].session <= k}}

(* A saved NAV has valued the fills of the sessions through k, and no      *)
(* order of those is live any more, so that none will be added.            *)
NavFinal(b, nav, k) ==
    /\ nav.fills = FilledBy(b, k)
    /\ \A o \in OrderIds : IsLive(b.orders[o]) => k < b.orders[o].session
NavsFinal(b, saved, t) ==
    \A k \in Sessions : saved[k] # None => CloseAt(k) <= t /\ NavFinal(b, saved[k], k)

(* What holds of the books beside the saved NAVs at time t.                *)
BooksInv(b, saved, t) ==
    BookInv(b) /\ Past(b, t) /\ FillsClosed(b, t) /\ WithinCapacity(b) /\ NavsFinal(b, saved, t)

(* What holds of the clock, the market and the published actions.          *)
WorldFine ==
    /\ clock \in CloseAt(0) .. Horizon
    /\ bars \in [Instruments -> SUBSET Sessions]
    /\ \A i \in Instruments : \A k \in bars[i] : CloseAt(k) <= clock
    /\ edition \in [Actions -> Editions]
    /\ navs = [k \in Sessions |-> navs[k]]

(* The remaining work of a job is work the job was begun for.              *)
JobFine ==
    /\ job \in Jobs
    /\ job.name = "idle" => job.todo = {}
    /\ job.name = "execute" => job.todo \subseteq Due
    /\ job.name = "reconcile" =>
          job.todo \subseteq {a \in Actions : Published(a) /\ EffectiveAt[a] <= clock}

AccountInv == WorldFine /\ JobFine /\ BooksInv(books, navs, clock)

-------------------------------------------------------------------------------
(* Fills and what they traded.                                             *)

(* The terms of the sums of trades.                                        *)
LEMMA TradedTerms ==
    ASSUME NEW S \in SUBSET LedgerRows, IsFiniteSet(S)
    PROVE  /\ \A e \in S : Traded[e] = Shares(e) /\ Traded[e] \in Nat
           /\ Summable(Traded, S) /\ SumFunctionOnSet(Traded, S) \in Nat
           /\ SumFunction([e \in S |-> Shares(e)]) = SumFunctionOnSet(Traded, S)
<1>1. ASSUME NEW e \in S PROVE Traded[e] = Shares(e) /\ Traded[e] \in Nat
  <2>1. e \in LedgerRows /\ e.quantity \in Int
    BY RowFields
  <2> QED BY <2>1 DEF Traded, Shares
<1>2. Summable(Traded, S) /\ SumFunctionOnSet(Traded, S) \in Nat
  BY <1>1, SumNat DEF Summable
<1>3. PICK f : f = [e \in S |-> Shares(e)]
  OBVIOUS
<1>4. DOMAIN f = S /\ Summable(f, S) /\ \A e \in S : Traded[e] = f[e]
  BY <1>1, <1>3 DEF Summable
<1>5. SumFunction(f) = SumFunctionOnSet(Traded, S)
  BY <1>4, SumWritten
<1> QED BY <1>1, <1>2, <1>3, <1>5

(* The trades are finitely many ledger rows of orders that ended with      *)
(* them.                                                                   *)
LEMMA FillsAre ==
    ASSUME NEW b, BookTypes(b)
    PROVE  /\ \A S : FillsIn(b, S) \in SUBSET LedgerRows /\ IsFiniteSet(FillsIn(b, S))
           /\ \A e \in FillRows(b) : /\ e \in b.ledger /\ e.of \in OrderIds
                                     /\ b.orders[e.of].state \in {"filled", "partially_filled_cancelled"}
                                     /\ e.at = OpenAt(b.orders[e.of].session)
<1>1. ASSUME NEW S PROVE FillsIn(b, S) \in SUBSET LedgerRows /\ IsFiniteSet(FillsIn(b, S))
  <2>1. FillsIn(b, S) \subseteq b.ledger
    BY DEF FillsIn, FillRows
  <2> QED BY <2>1, BookFields, FS_Subset
<1>2. ASSUME NEW e \in FillRows(b)
      PROVE  /\ e \in b.ledger /\ e.of \in OrderIds
             /\ b.orders[e.of].state \in {"filled", "partially_filled_cancelled"}
             /\ e.at = OpenAt(b.orders[e.of].session)
  <2>1. e \in b.ledger /\ RowFine(b, e) /\ e.kind \in FillKinds
    BY BookFields DEF FillRows
  <2> QED BY <2>1 DEF RowFine, OrderKinds
<1> QED BY <1>1, <1>2

(* Books that have traded the same, with the same orders to fill or fewer. *)
LEMMA QuietKeeps ==
    ASSUME NEW b, NEW saved, NEW t, BooksInv(b, saved, t), NEW c, BookInv(c),
           NEW S, Quiet(b, c, t, S)
    PROVE  BooksInv(c, saved, t)
<1>1. /\ BookTypes(b) /\ BookTypes(c) /\ FillRows(c) = FillRows(b)
      /\ \A o \in OrderIds : SameTarget(b.orders[o], c.orders[o])
      /\ \A o \in OrderIds : IsLive(c.orders[o]) => IsLive(b.orders[o])
  BY DEF BooksInv, BookInv, Quiet, QuietRows, QuietOrders, QuietOrder
<1>2. Past(c, t)
  BY DEF BooksInv, Quiet, QuietRows
<1>3. \A e \in FillRows(b) : e.of \in OrderIds
  BY <1>1, FillsAre
<1>4. FillsClosed(c, t)
  BY <1>1, <1>3 DEF BooksInv, FillsClosed, SameTarget
<1>5. WithinCapacity(c)
  <2> SUFFICES ASSUME NEW o \in OrderIds, c.orders[o].state # "none"
               PROVE  TradedSum(c, PeersIn(c, o)) <= c.orders[o].capacity
    BY DEF WithinCapacity
  <2>1. PeersIn(c, o) = PeersIn(b, o)
    BY <1>1 DEF PeersIn, SameTarget
  <2>2. FillsIn(c, PeersIn(c, o)) = FillsIn(b, PeersIn(b, o))
    BY <1>1, <2>1 DEF FillsIn
  <2>3. b.orders[o].state # "none" /\ b.orders[o].capacity = c.orders[o].capacity
    BY <1>1 DEF SameTarget
  <2> QED BY <2>2, <2>3 DEF BooksInv, WithinCapacity, TradedSum
<1>6. NavsFinal(c, saved, t)
  <2> SUFFICES ASSUME NEW k \in Sessions, saved[k] # None
               PROVE  CloseAt(k) <= t /\ NavFinal(c, saved[k], k)
    BY DEF NavsFinal
  <2>1. CloseAt(k) <= t /\ NavFinal(b, saved[k], k)
    BY DEF BooksInv, NavsFinal
  <2>2. \A e \in FillRows(b) : c.orders[e.of].session = b.orders[e.of].session
    BY <1>1, <1>3 DEF SameTarget
  <2>3. FilledBy(c, k) = FilledBy(b, k)
    BY <1>1, <2>2 DEF FilledBy
  <2>4. \A o \in OrderIds : IsLive(c.orders[o]) => k < c.orders[o].session
    BY <1>1, <2>1 DEF NavFinal, SameTarget
  <2> QED BY <2>1, <2>3, <2>4 DEF NavFinal
<1> QED BY <1>2, <1>4, <1>5, <1>6 DEF BooksInv

(* Time passes.                                                            *)
LEMMA TimeKeeps ==
    ASSUME NEW b, NEW saved, NEW t \in Int, BooksInv(b, saved, t), NEW u \in Int, t <= u
    PROVE  BooksInv(b, saved, u)
<1>1. /\ \A k \in Sessions : CloseAt(k) \in Int
      /\ \A e \in b.ledger : e.at \in Int
      /\ \A e \in FillRows(b) : b.orders[e.of].session \in Sessions
  <2>1. BookTypes(b) /\ BookInv(b)
    BY DEF BooksInv, BookInv
  <2>2. \A e \in b.ledger : e \in LedgerRows /\ e.at \in Times
    BY <2>1, BookFields, RowFields
  <2>3. \A e \in FillRows(b) : e.of \in OrderIds
    BY <2>1, FillsAre
  <2>4. \A o \in OrderIds : b.orders[o].session \in Sessions
    BY <2>1, BookFields, OrderFields
  <2> QED BY <2>2, <2>3, <2>4 DEF Sessions, Times, CloseAt
<1>2. Past(b, u)
  BY <1>1 DEF BooksInv, Past
<1>3. FillsClosed(b, u)
  BY <1>1 DEF BooksInv, FillsClosed
<1>4. NavsFinal(b, saved, u)
  BY <1>1 DEF BooksInv, NavsFinal
<1> QED BY <1>2, <1>3, <1>4 DEF BooksInv

(* An order is placed for a session that opens later.                      *)
LEMMA PlacingKeeps ==
    ASSUME NEW b, NEW saved, NEW t \in Nat, BooksInv(b, saved, t),
           NEW o \in OrderIds, b.orders[o].state = "none",
           NEW order \in OrderRows, order.state = "pending", order.instrument \in Instruments,
           OrderFine(order), CanReserve(b, order), t < OpenAt(order.session),
           NEW c, c = Reserve(b, o, order)
    PROVE  /\ BooksInv(c, saved, t)
           /\ c.orders[o] = order /\ \A r \in OrderIds \ {o} : c.orders[r] = b.orders[r]
<1>1. BookInv(b) /\ BookTypes(b) /\ Past(b, t) /\ FillsClosed(b, t) /\ b.orders \in [OrderIds -> OrderRows]
  BY BookFields DEF BooksInv, BookInv
<1>2. order.session \in Sessions /\ OpenAt(order.session) \in Int /\ order.capacity \in Nat
  BY OrderFields DEF Sessions, OpenAt
<1>3. BookInv(c)
  <2>1. \A e \in b.ledger : e \in LedgerRows /\ e.at \in Times
    BY <1>1, BookFields, RowFields
  <2>2. OpensLater(b, order)
    BY <1>1, <1>2, <2>1 DEF Past, Times, OpensLater
  <2> QED BY <1>1, <2>2, ReserveKeeps
<1>4. PICK e : e = Row("reserve", o, Delta(-order.cash, order.cash, 0, 0), order.instrument, 0, 0)
  OBVIOUS
<1>5. c.orders = [b.orders EXCEPT ![o] = order] /\ c.ledger = b.ledger \cup {e}
  BY <1>1, <1>4 DEF Reserve, BookTypes, Books
<1>6. c.orders[o] = order /\ \A r \in OrderIds \ {o} : c.orders[r] = b.orders[r]
  BY <1>1, <1>5
<1>7. FillRows(c) = FillRows(b) /\ Past(c, t)
  <2>1. e.kind \notin FillKinds /\ e.at <= t
    BY <1>4 DEF Row, FillKinds
  <2>2. QuietRows(b, c, t)
    BY <1>5, <2>1, RowsAreQuiet
  <2> QED BY <1>1, <2>2 DEF QuietRows
<1>8. \A f \in FillRows(b) : f.of \in OrderIds \ {o} /\ CloseAt(b.orders[f.of].session) <= t
                             /\ b.orders[f.of].session \in Sessions
  <2>1. \A f \in FillRows(b) : f.of \in OrderIds \ {o}
    BY <1>1, FillsAre
  <2>2. \A r \in OrderIds : b.orders[r].session \in Sessions
    BY <1>1, BookFields, OrderFields
  <2> QED BY <1>1, <2>1, <2>2 DEF FillsClosed
<1>9. FillsClosed(c, t)
  BY <1>6, <1>7, <1>8 DEF FillsClosed
<1>10. WithinCapacity(c)
  <2> SUFFICES ASSUME NEW x \in OrderIds, c.orders[x].state # "none"
               PROVE  TradedSum(c, PeersIn(c, x)) <= c.orders[x].capacity
    BY DEF WithinCapacity
  <2>1. CASE x = o
    <3>1. \A f \in FillRows(b) : f.of \notin PeersIn(c, x)
      <4> SUFFICES ASSUME NEW f \in FillRows(b), f.of \in PeersIn(c, x) PROVE FALSE
        OBVIOUS
      <4>1. f.of \in OrderIds \ {o} /\ CloseAt(b.orders[f.of].session) <= t
            /\ b.orders[f.of].session \in Sessions
        BY <1>8
      <4>2. b.orders[f.of].session = order.session
        BY <1>6, <2>1, <4>1 DEF PeersIn
      <4> QED BY <1>2, <4>1, <4>2 DEF CloseAt, OpenAt, Sessions
    <3>2. FillsIn(c, PeersIn(c, x)) = {}
      BY <1>7, <3>1 DEF FillsIn
    <3>3. TradedSum(c, PeersIn(c, x)) = 0
      BY <3>2, SumEmpty DEF TradedSum
    <3> QED BY <1>2, <1>6, <2>1, <3>3
  <2>2. CASE x # o
    <3>1. c.orders[x] = b.orders[x]
      BY <1>6, <2>2
    <3>2. \A f \in FillRows(b) : f.of \in PeersIn(c, x) <=> f.of \in PeersIn(b, x)
      BY <1>6, <1>8, <3>1 DEF PeersIn
    <3>3. FillsIn(c, PeersIn(c, x)) = FillsIn(b, PeersIn(b, x))
      BY <1>7, <3>2 DEF FillsIn
    <3> QED BY <3>1, <3>3 DEF BooksInv, WithinCapacity, TradedSum
  <2> QED BY <2>1, <2>2
<1>11. NavsFinal(c, saved, t)
  <2> SUFFICES ASSUME NEW k \in Sessions, saved[k] # None
               PROVE  CloseAt(k) <= t /\ NavFinal(c, saved[k], k)
    BY DEF NavsFinal
  <2>1. CloseAt(k) <= t /\ NavFinal(b, saved[k], k)
    BY DEF BooksInv, NavsFinal
  <2>2. FilledBy(c, k) = FilledBy(b, k)
    BY <1>6, <1>7, <1>8 DEF FilledBy
  <2>3. k < order.session
    BY <1>2, <2>1 DEF Sessions, CloseAt, OpenAt
  <2>4. \A r \in OrderIds : IsLive(c.orders[r]) => k < c.orders[r].session
    BY <1>6, <2>1, <2>3 DEF NavFinal
  <2> QED BY <2>1, <2>2, <2>4 DEF NavFinal
<1> QED BY <1>3, <1>6, <1>7, <1>9, <1>10, <1>11 DEF BooksInv

(* A fill of a closed session, within what the order's peers leave it.     *)
LEMMA FillingKeeps ==
    ASSUME NEW b, NEW saved, NEW t \in Times, BooksInv(b, saved, t),
           NEW o \in OrderIds, IsLive(b.orders[o]), CloseAt(b.orders[o].session) <= t,
           NEW p \in Nat, NEW q \in Nat \ {0}, CanFill(b, o, p, q),
           \A r \in PeersIn(b, o) : TradedSum(b, PeersIn(b, o)) + q <= b.orders[r].capacity,
           NEW c, c = Fill(b, o, p, q)
    PROVE  /\ BooksInv(c, saved, t)
           /\ c.orders[o].state \in {"filled", "partially_filled_cancelled"}
           /\ \A r \in OrderIds \ {o} : c.orders[r] = b.orders[r]
<1>1. BookInv(b) /\ BookTypes(b) /\ Past(b, t) /\ FillsClosed(b, t) /\ b.orders \in [OrderIds -> OrderRows]
  BY BookFields DEF BooksInv, BookInv
<1>2. PICK order \in OrderRows : order = b.orders[o]
  BY <1>1
<1>3. order.session \in Sessions /\ OpenAt(order.session) \in Times /\ OpenAt(order.session) <= t
  BY <1>2, OrderFields, BookAssumption DEF Sessions, OpenAt, CloseAt, Times
<1>4. BookInv(c)
  <2>1. OpenAt(b.orders[o].session) \in Times /\ b.orders[o].state \in LiveStates
    BY <1>2, <1>3 DEF IsLive
  <2> QED BY <1>1, <2>1, FillKeeps
<1>5. PICK e, x, z, signed : Filling(b, o, p, q, c, e, x, z, signed)
  <2>1. PICK e, x, z, signed : Filling(b, o, p, q, Fill(b, o, p, q), e, x, z, signed)
    BY <1>1, FillFields
  <2> QED BY <2>1
<1>6. PICK end : /\ end \in {"filled", "partially_filled_cancelled"}
                 /\ c.orders = [b.orders EXCEPT ![o] = Closed(order, end)]
  BY <1>2, <1>5 DEF Filling
<1>7. c.ledger = b.ledger \cup {e}
  BY <1>5 DEF Filling
<1>8. /\ e.of = o /\ e.at = OpenAt(order.session) /\ e.kind \in FillKinds /\ e.quantity = signed
      /\ signed = q \/ signed = -q
  BY <1>2, <1>5, OrderFields DEF Filling, Row, FillKinds
<1>9. PICK closed : /\ closed = Closed(order, end) /\ closed.state = end /\ ~IsLive(closed)
                    /\ closed.instrument = order.instrument /\ closed.session = order.session
                    /\ closed.capacity = order.capacity /\ closed.state # "none"
  <2>1. end \in OrderStates \ LiveStates /\ end # "none"
    BY <1>6 DEF OrderStates, LiveStates
  <2> QED BY <2>1, ClosedFields DEF IsLive
<1>10. c.orders[o] = closed /\ \A r \in OrderIds \ {o} : c.orders[r] = b.orders[r]
  BY <1>1, <1>6, <1>9
<1>11. order.state # "none" /\ \A r \in OrderIds : SameTarget(b.orders[r], c.orders[r])
  BY <1>2, <1>9, <1>10 DEF SameTarget, IsLive, LiveStates
<1>12. FillRows(c) = FillRows(b) \cup {e} /\ e \notin b.ledger /\ e \in LedgerRows
  <2>1. e \notin b.ledger
    <3>1. \A f \in FillRows(b) : f.of # o
      BY <1>1, FillsAre DEF IsLive, LiveStates
    <3> QED BY <1>8, <3>1 DEF FillRows
  <2>2. e \in LedgerRows
    BY <1>4, <1>7, BookFields DEF BookInv
  <2> QED BY <1>7, <1>8, <2>1, <2>2 DEF FillRows
<1>13. Past(c, t)
  BY <1>1, <1>3, <1>7, <1>8 DEF Past
<1>14. \A f \in FillRows(b) : f.of \in OrderIds
  BY <1>1, FillsAre
<1>15. FillsClosed(c, t)
  BY <1>1, <1>8, <1>11, <1>12, <1>14 DEF FillsClosed, SameTarget
<1>16. WithinCapacity(c)
  <2> SUFFICES ASSUME NEW r \in OrderIds, c.orders[r].state # "none"
               PROVE  TradedSum(c, PeersIn(c, r)) <= c.orders[r].capacity
    BY DEF WithinCapacity
  <2>1. PeersIn(c, r) = PeersIn(b, r)
    BY <1>11 DEF PeersIn, SameTarget
  <2>2. b.orders[r].state # "none" /\ b.orders[r].capacity = c.orders[r].capacity
    BY <1>11 DEF SameTarget
  <2>3. CASE o \in PeersIn(b, r)
    <3>1. PeersIn(b, r) = PeersIn(b, o) /\ r \in PeersIn(b, o)
      BY <2>2, <2>3 DEF PeersIn
    <3>2. PICK F : F = FillsIn(b, PeersIn(b, o))
      OBVIOUS
    <3>3. FillsIn(c, PeersIn(c, r)) = F \cup {e} /\ e \notin F
      BY <1>8, <1>12, <2>1, <2>3, <3>1, <3>2 DEF FillsIn, FillRows
    <3>4. F \in SUBSET LedgerRows /\ IsFiniteSet(F)
      BY <1>1, <3>2, FillsAre
    <3>5. Summable(Traded, F) /\ Traded[e] = q
      <4>1. Traded[e] = Shares(e)
        BY <1>12 DEF Traded
      <4>2. Shares(e) = q
        BY <1>8 DEF Shares
      <4> QED BY <3>4, <4>1, <4>2, TradedTerms
    <3>6. SumFunctionOnSet(Traded, F \cup {e}) = SumFunctionOnSet(Traded, F) + q
      BY <3>3, <3>4, <3>5, SumAdd
    <3> QED BY <2>2, <3>1, <3>2, <3>3, <3>6 DEF TradedSum
  <2>4. CASE o \notin PeersIn(b, r)
    <3>1. FillsIn(c, PeersIn(c, r)) = FillsIn(b, PeersIn(b, r))
      BY <1>8, <1>12, <2>1, <2>4 DEF FillsIn
    <3> QED BY <2>2, <3>1 DEF BooksInv, WithinCapacity, TradedSum
  <2> QED BY <2>3, <2>4
<1>17. NavsFinal(c, saved, t)
  <2> SUFFICES ASSUME NEW k \in Sessions, saved[k] # None
               PROVE  CloseAt(k) <= t /\ NavFinal(c, saved[k], k)
    BY DEF NavsFinal
  <2>1. CloseAt(k) <= t /\ NavFinal(b, saved[k], k)
    BY DEF BooksInv, NavsFinal
  <2>2. k < order.session
    BY <1>2, <2>1 DEF NavFinal
  <2>3. ~(order.session <= k)
    BY <1>3, <2>2 DEF Sessions
  <2>4. \A f \in FillRows(b) : c.orders[f.of].session = b.orders[f.of].session
    BY <1>11, <1>14 DEF SameTarget
  <2>5. FilledBy(c, k) = FilledBy(b, k)
    BY <1>8, <1>9, <1>10, <1>12, <2>3, <2>4 DEF FilledBy
  <2>6. \A r \in OrderIds : IsLive(c.orders[r]) => k < c.orders[r].session
    BY <1>9, <1>10, <2>1 DEF NavFinal
  <2> QED BY <2>1, <2>5, <2>6 DEF NavFinal
<1> QED BY <1>4, <1>6, <1>9, <1>10, <1>13, <1>15, <1>16, <1>17 DEF BooksInv

-------------------------------------------------------------------------------
(* What matching chooses from.                                             *)
LEMMA OwnNames ==
    /\ \A o : Order(o) = books.orders[o]
    /\ \A o \in OrderIds : Terminal(o) <=> ~IsLive(Order(o))
    /\ Active = {o \in OrderIds : IsLive(books.orders[o])}
    /\ \A o \in OrderIds : Peers(o) = PeersIn(books, o)
    /\ \A S : FillsOf(S) = FillsIn(books, S)
BY DEF Order, Terminal, IsLive, LiveStates, Active, Peers, PeersIn, FillsOf, FillsIn, FillRows, FillKinds

(* PaperAccount's sums of trades are these.                                *)
LEMMA TradedOf ==
    ASSUME BookTypes(books), NEW S
    PROVE  /\ SumFunction([e \in FillsOf(S) |-> Shares(e)]) = TradedSum(books, S)
           /\ TradedSum(books, S) \in Nat
<1>1. PICK F : F = FillsIn(books, S)
  OBVIOUS
<1>2. F \in SUBSET LedgerRows /\ IsFiniteSet(F)
  BY <1>1, FillsAre
<1>3. /\ SumFunction([e \in F |-> Shares(e)]) = SumFunctionOnSet(Traded, F)
      /\ SumFunctionOnSet(Traded, F) \in Nat
  BY <1>2, TradedTerms
<1>4. FillsOf(S) = F
  BY <1>1, OwnNames
<1> QED BY <1>1, <1>3, <1>4 DEF TradedSum

(* A quantity matched is positive, and fits beside what the peers of the   *)
(* order have traded already, whichever of their capacities counts.        *)
LEMMA MatchesFit ==
    ASSUME BookTypes(books), NEW o \in OrderIds, IsLive(books.orders[o]), NEW q \in Matches(o) \ {0}
    PROVE  /\ q \in Nat \ {0}
           /\ \A r \in PeersIn(books, o) :
                 TradedSum(books, PeersIn(books, o)) + q <= books.orders[r].capacity
<1>1. PICK C, P : P = PeersIn(books, o) /\ C = {books.orders[r].capacity : r \in P}
  OBVIOUS
<1>2. o \in P /\ C \in SUBSET Nat /\ C # {}
  <2>1. o \in P
    BY <1>1 DEF PeersIn, IsLive, LiveStates
  <2>2. \A r \in P : books.orders[r].capacity \in Nat
    BY <1>1, BookFields, OrderFields DEF PeersIn
  <2> QED BY <1>1, <2>1, <2>2
<1>3. PICK m : m = Min(C)
  OBVIOUS
<1>4. m \in Nat /\ \A r \in P : m <= books.orders[r].capacity
  <2>1. Min(C) \in C /\ \A y \in C : Min(C) <= y
    BY <1>2, MinIs
  <2> QED BY <1>1, <1>2, <1>3, <2>1
<1>5. PICK s : s = TradedSum(books, P) /\ s \in Nat
  BY TradedOf
<1>6. Remaining(o) = (IF m - s < 0 THEN 0 ELSE m - s)
  <2>1. Peers(o) = P /\ {Order(r).capacity : r \in P} = C
    BY <1>1, OwnNames
  <2>2. SumFunction([e \in FillsOf(P) |-> Shares(e)]) = s
    BY <1>5, TradedOf
  <2>3. Remaining(o) = (IF Min({Order(r).capacity : r \in Peers(o)})
                           - SumFunction([e \in FillsOf(Peers(o)) |-> Shares(e)]) < 0
                        THEN 0 ELSE Min({Order(r).capacity : r \in Peers(o)})
                           - SumFunction([e \in FillsOf(Peers(o)) |-> Shares(e)]))
    BY DEF Remaining
  <2> QED BY <1>3, <2>1, <2>2, <2>3
<1>7. PICK left, three : left = Remaining(o) /\ three = {Order(o).quantity, Order(o).capacity, left}
  OBVIOUS
<1>8. left \in Nat /\ three \in SUBSET Nat /\ left \in three
  <2>1. books.orders[o] \in OrderRows
    BY BookFields
  <2> QED BY <1>4, <1>5, <1>6, <1>7, <2>1, OrderFields, OwnNames
<1>9. Min(three) \in Nat /\ Min(three) <= left
  BY <1>8, MinIs
<1>10. q \in 0 .. Min(three) /\ q # 0
  BY <1>7 DEF Matches
<1>11. q \in Nat \ {0} /\ q <= left /\ s + q <= m
  BY <1>4, <1>5, <1>6, <1>7, <1>8, <1>9, <1>10
<1> QED BY <1>1, <1>4, <1>5, <1>11, <1>2

-------------------------------------------------------------------------------
(* The steps that leave the books alone.                                   *)

(* What OrdersEndOnce says of a step.                                      *)
OrdersEnd ==
    \A o \in OrderIds :
        /\ Order(o).state # "none" /\ Terminal(o) => Order(o)' = Order(o)
        /\ o \in Due /\ Order(o)'.state = "cancelled" =>
              \E a \in Actions : /\ Split(a) /\ Security[a] = Order(o).instrument
                                /\ EffectiveAt[a] <= OpenAt(Order(o).session)
                                /\ job.name = "reconcile"

(* A step that leaves the books and NAVs alone keeps what holds of them.   *)
LEMMA SameBooks ==
    ASSUME AccountInv, books' = books, navs' = navs, clock' \in Int, clock <= clock'
    PROVE  BooksInv(books', navs', clock') /\ OrdersEnd
<1>1. clock \in Int
  BY BookAssumption DEF AccountInv, WorldFine, CloseAt
<1>2. BooksInv(books', navs', clock')
  BY <1>1, TimeKeeps DEF AccountInv
<1>3. OrdersEnd
  BY DEF OrdersEnd, Order, Terminal, Due, Active
<1> QED BY <1>2, <1>3

(* One that leaves the world alone keeps that.                             *)
LEMMA SameWorld ==
    ASSUME WorldFine, UNCHANGED <<clock, bars, edition, navs>>
    PROVE  WorldFine'
BY DEF WorldFine

(* One that leaves the job alone does too, when no job holds the account.  *)
LEMMA NoWork ==
    ASSUME JobFine, job' = job, Unlocked
    PROVE  JobFine'
BY DEF JobFine, Unlocked

(* What is known of the time: it is after the first close, and the latest  *)
(* session is the one that has closed last.                                *)
LEMMA Clocks ==
    ASSUME WorldFine
    PROVE  /\ clock \in Times /\ clock \in Nat /\ 2 <= clock /\ Latest \in Sessions
           /\ CloseAt(Latest) <= clock /\ clock < OpenAt(Latest + 1) + 1
           /\ Last \in Nat /\ Horizon \in Nat
<1>1. /\ Last \in Nat /\ Horizon \in Int /\ clock \in Int /\ 2 <= clock /\ clock <= Horizon
      /\ Horizon <= 3 * Last + 2
  BY BookAssumption DEF WorldFine, CloseAt
<1> QED BY <1>1 DEF Times, Latest, Sessions, CloseAt, OpenAt

(* The clock moves, when no job holds the account.                         *)
LEMMA TickStep ==
    ASSUME AccountInv, Tick
    PROVE  AccountInv' /\ OrdersEnd
<1>1. clock' \in CloseAt(0) .. Horizon /\ clock' \in Int /\ clock \in Int /\ clock <= clock'
      /\ CloseAt(0) \in Int
  <2>1. clock \in CloseAt(0) .. Horizon /\ CloseAt(0) = 2 /\ Horizon \in Int
    BY Clocks DEF AccountInv, WorldFine, CloseAt
  <2> QED BY <2>1 DEF Tick
<1>2. WorldFine'
  <2>1. \A i \in Instruments : \A k \in bars[i] : CloseAt(k) \in Int /\ CloseAt(k) <= clock
    BY BookAssumption DEF AccountInv, WorldFine, Sessions, CloseAt
  <2>2. \A i \in Instruments : \A k \in bars[i] : CloseAt(k) <= clock'
    BY <1>1, <2>1
  <2> QED BY <1>1, <2>2 DEF AccountInv, WorldFine, Tick
<1> QED BY <1>1, <1>2, SameBooks, NoWork DEF AccountInv, Tick

(* A bar is published.                                                     *)
LEMMA BarArrivesStep ==
    ASSUME AccountInv, NEW i \in Instruments, NEW k \in Sessions, BarArrives(i, k)
    PROVE  AccountInv' /\ OrdersEnd
<1>1. WorldFine'
  BY DEF AccountInv, WorldFine, BarArrives
<1>2. clock' \in Int /\ clock <= clock'
  BY Clocks DEF AccountInv, BarArrives
<1> QED BY <1>1, <1>2, SameBooks, NoWork DEF AccountInv, BarArrives

(* A corporate action is published.                                        *)
LEMMA PublishStep ==
    ASSUME AccountInv, NEW a \in Actions, NEW e \in Editions, Publish(a, e)
    PROVE  AccountInv' /\ OrdersEnd
<1>1. WorldFine'
  BY DEF AccountInv, WorldFine, Publish
<1>2. clock' \in Int /\ clock <= clock'
  BY Clocks DEF AccountInv, Publish
<1> QED BY <1>1, <1>2, SameBooks, NoWork DEF AccountInv, Publish

(* Execute locks the account and settles the sales that are due.           *)
LEMMA BeginExecuteStep ==
    ASSUME AccountInv, BeginExecute
    PROVE  AccountInv' /\ OrdersEnd
<1>1. WorldFine'
  BY SameWorld DEF AccountInv, BeginExecute
<1>2. clock' \in Int /\ clock <= clock'
  BY Clocks DEF AccountInv, BeginExecute
<1>3. JobFine'
  <2>1. job' = [name |-> "execute", todo |-> Due, clean |-> TRUE, at |-> 0]
    BY DEF BeginExecute, Idle
  <2>2. Due' = Due
    BY DEF BeginExecute, Due, Active, Order
  <2>3. Due \subseteq OrderIds /\ 0 \in Times
    BY Clocks DEF AccountInv, Due, Active, Times
  <2> QED BY <2>1, <2>2, <2>3 DEF JobFine, Jobs
<1> QED BY <1>1, <1>2, <1>3, SameBooks DEF AccountInv, BeginExecute

(* A NAV is saved: nothing that it values is open any more.                *)
LEMMA SaveNAVStep ==
    ASSUME AccountInv, SaveNAV
    PROVE  AccountInv' /\ OrdersEnd
<1>1. /\ UNCHANGED <<clock, bars, edition, books>> /\ navs' = [navs EXCEPT ![Latest] = Valued]
      /\ job' = Idle /\ Due = {}
  BY DEF SaveNAV
<1>2. WorldFine'
  BY <1>1 DEF AccountInv, WorldFine
<1>3. JobFine'
  <2>1. 0 \in Times
    BY Clocks DEF AccountInv, Times
  <2> QED BY <1>1, <2>1 DEF JobFine, Jobs, Idle
<1>4. OrdersEnd
  BY <1>1 DEF OrdersEnd, Order, Terminal, Due, Active
<1>5. /\ clock \in Nat /\ Latest \in Sessions /\ CloseAt(Latest) <= clock
      /\ clock < OpenAt(Latest + 1) + 1 /\ BooksInv(books, navs, clock) /\ BookTypes(books)
  BY Clocks DEF AccountInv, BooksInv, BookInv
<1>6. \A o \in OrderIds : books.orders[o].session \in Nat
  BY <1>5, BookFields, OrderFields DEF Sessions
<1>7. NavFinal(books, Valued, Latest)
  <2>1. ASSUME NEW e \in FillRows(books) PROVE books.orders[e.of].session <= Latest
    <3>1. e.of \in OrderIds /\ CloseAt(books.orders[e.of].session) <= clock
      BY <1>5, FillsAre DEF BooksInv, FillsClosed
    <3> QED BY <1>5, <1>6, <3>1 DEF CloseAt, OpenAt, Sessions
  <2>2. Filled = {e.of : e \in FillRows(books)}
    <3>1. FillsIn(books, OrderIds) = FillRows(books)
      BY <1>5, FillsAre DEF FillsIn
    <3> QED BY <3>1, OwnNames DEF Filled
  <2>3. {e \in FillRows(books) : books.orders[e.of].session <= Latest} = FillRows(books)
    BY <2>1
  <2>4. FilledBy(books, Latest) = {e.of : e \in FillRows(books)}
    BY <2>3 DEF FilledBy
  <2>5. Valued.fills = FilledBy(books, Latest)
    BY <2>2, <2>4 DEF Valued
  <2>6. ASSUME NEW o \in OrderIds, IsLive(books.orders[o]) PROVE Latest < books.orders[o].session
    <3>1. ~(OpenAt(books.orders[o].session) <= clock)
      BY <1>1, <2>6, OwnNames DEF Due
    <3> QED BY <1>5, <1>6, <3>1 DEF CloseAt, OpenAt, Sessions
  <2> QED BY <2>5, <2>6 DEF NavFinal
<1>8. NavsFinal(books, navs', clock)
  <2>1. navs'[Latest] = Valued /\ \A k \in Sessions \ {Latest} : navs'[k] = navs[k]
    BY <1>1, <1>5 DEF AccountInv, WorldFine
  <2> QED BY <1>5, <1>7, <2>1 DEF BooksInv, NavsFinal
<1>9. BooksInv(books', navs', clock')
  BY <1>1, <1>5, <1>8 DEF BooksInv
<1> QED BY <1>2, <1>3, <1>4, <1>9 DEF AccountInv

-------------------------------------------------------------------------------
(* The steps that change the books.                                        *)

(* A new order is placed for the first session that has not opened.        *)
LEMMA NextSession ==
    ASSUME AccountInv
    PROVE  \E n \in 0 .. Last + 1 : OpenAt(n) > clock /\ \A m \in 0 .. n - 1 : OpenAt(m) <= clock
<1>1. /\ clock \in Nat /\ 2 <= clock /\ clock <= 3 * Last + 2 /\ Last \in Nat
  BY Clocks, BookAssumption DEF AccountInv, WorldFine, CloseAt
<1>2. PICK n : n = (clock + 2) \div 3
  OBVIOUS
<1>3. n \in 0 .. Last + 1 /\ 3 * n + 1 > clock /\ 3 * n <= clock + 2
  BY <1>1, <1>2
<1>4. \A m \in 0 .. n - 1 : 3 * m + 1 <= clock
  BY <1>1, <1>3
<1> QED BY <1>3, <1>4 DEF OpenAt

(* An order is placed: Reserve takes what it needs out of what is there.   *)
LEMMA PlaceOrderStep ==
    ASSUME AccountInv, NEW o \in OrderIds, NEW side \in {"buy", "sell"}, NEW i \in Instruments,
           NEW q \in Quantities, NEW c \in Capacities, PlaceOrder(o, side, i, q, c)
    PROVE  AccountInv' /\ OrdersEnd
<1>1. PICK k : k = CHOOSE n \in 0 .. Last + 1 :
                      OpenAt(n) > clock /\ \A m \in 0 .. n - 1 : OpenAt(m) <= clock
  OBVIOUS
<1>2. k \in 0 .. Last + 1 /\ OpenAt(k) > clock
  BY <1>1, NextSession
<1>3. PICK cash, shares :
         /\ cash = IF side = "buy" THEN PurchaseCost(Price[i][Latest], q) ELSE 0
         /\ shares = IF side = "sell" THEN q ELSE 0
  OBVIOUS
<1>4. PICK order : order = [state |-> "pending", side |-> side, instrument |-> i, quantity |-> q,
                            capacity |-> c, session |-> k, cash |-> cash, shares |-> shares]
  OBVIOUS
<1>5. /\ Unlocked /\ Order(o).state = "none" /\ k + 1 \in Sessions
      /\ CanReserve(books, order) /\ books' = Reserve(books, o, order)
      /\ UNCHANGED <<clock, bars, edition, navs, job>>
  BY <1>1, <1>3, <1>4, Zenon DEF PlaceOrder
<1>6. WorldFine /\ JobFine /\ BooksInv(books, navs, clock) /\ BookTypes(books)
  BY DEF AccountInv, BooksInv, BookInv
<1>7. cash \in Nat /\ shares \in Nat /\ q \in Nat /\ c \in Nat /\ k \in Sessions
  <2>1. Latest \in Sessions /\ Last \in Nat
    BY <1>6, Clocks
  <2>2. Price[i][Latest] \in Nat /\ q \in Nat /\ c \in Nat
    BY <2>1, AccountAssumption
  <2>3. PurchaseCost(Price[i][Latest], q) \in Nat
    <3>1. /\ GrossValue(Price[i][Latest], q) \in Nat
          /\ TradeFee(GrossValue(Price[i][Latest], q)) \in Nat
          /\ PurchaseCost(Price[i][Latest], q)
               = GrossValue(Price[i][Latest], q) + TradeFee(GrossValue(Price[i][Latest], q))
      BY <2>2, MoneyTypes
    <3> QED BY <3>1
  <2> QED BY <1>2, <1>3, <1>5, <2>1, <2>2, <2>3 DEF Sessions
<1>8. /\ order \in OrderRows /\ order.state = "pending" /\ order.instrument \in Instruments
      /\ OrderFine(order) /\ order.session = k
  BY <1>3, <1>4, <1>7 DEF OrderRows, OrderStates, OrderFine, LiveStates
<1>9. clock \in Nat /\ clock < OpenAt(order.session)
  BY <1>2, <1>6, <1>7, <1>8, Clocks DEF OpenAt, Sessions
<1>10. /\ BooksInv(books', navs, clock) /\ books'.orders[o] = order
       /\ \A r \in OrderIds \ {o} : books'.orders[r] = books.orders[r]
  <2>1. books.orders[o].state = "none"
    BY <1>5 DEF Order
  <2> QED BY <1>5, <1>6, <1>8, <1>9, <2>1, PlacingKeeps
<1>11. WorldFine' /\ JobFine' /\ BooksInv(books', navs', clock')
  BY <1>5, <1>6, <1>10, SameWorld, NoWork
<1>12. OrdersEnd
  BY <1>5, <1>10 DEF OrdersEnd, Order, Terminal, Due, Active
<1> QED BY <1>11, <1>12 DEF AccountInv

(* A quiet step of the account.                                            *)
LEMMA QuietStep ==
    ASSUME AccountInv, UNCHANGED <<clock, bars, edition, navs>>, JobFine', BookInv(books'),
           NEW S, Quiet(books, books', clock, S),
           \A o \in OrderIds : o \in S /\ o \in Due =>
              \E a \in Actions : /\ Split(a) /\ Security[a] = Order(o).instrument
                                /\ EffectiveAt[a] <= OpenAt(Order(o).session)
                                /\ job.name = "reconcile"
    PROVE  AccountInv' /\ OrdersEnd
<1>1. BooksInv(books', navs', clock')
  <2>1. BooksInv(books', navs, clock)
    BY QuietKeeps DEF AccountInv
  <2> QED BY <2>1
<1>2. WorldFine'
  BY SameWorld DEF AccountInv
<1>3. ASSUME NEW o \in OrderIds, Terminal(o) PROVE Order(o)' = Order(o)
  <2>1. QuietOrder(books.orders[o], books'.orders[o]) /\ ~IsLive(books.orders[o])
    BY <1>3, OwnNames DEF Quiet, QuietOrders
  <2> QED BY <2>1 DEF QuietOrder, Order
<1>4. ASSUME NEW o \in OrderIds, o \in Due, Order(o)'.state = "cancelled" PROVE o \in S
  <2>1. IsLive(books.orders[o]) /\ books'.orders[o].state = "cancelled"
    BY <1>4, OwnNames DEF Due, Order
  <2> QED BY <2>1 DEF Quiet, QuietOrders
<1>5. OrdersEnd
  BY <1>3, <1>4 DEF OrdersEnd
<1> QED BY <1>1, <1>2, <1>5 DEF AccountInv

(* A user cancels an order.                                                *)
LEMMA CancelOrderStep ==
    ASSUME AccountInv, NEW o \in OrderIds, CancelOrder(o)
    PROVE  AccountInv' /\ OrdersEnd
<1>1. /\ Unlocked /\ IsLive(books.orders[o]) /\ UNCHANGED <<clock, bars, edition, navs, job>>
      /\ o \in Due => books' = Advance(books, {o})
      /\ o \notin Due => books' = Release(books, {o}, "cancelled")
  BY DEF CancelOrder, Order, IsLive, LiveStates
<1>2. /\ BookInv(books) /\ BookTypes(books) /\ clock \in Nat /\ {o} \in SUBSET OrderIds
      /\ \A r \in {o} : IsLive(books.orders[r]) /\ books.orders[r].state \in LiveStates
  BY <1>1, Clocks DEF AccountInv, BooksInv, BookInv, IsLive
<1>3. PICK S : S = IF o \in Due THEN {} ELSE {o}
  OBVIOUS
<1>4. BookInv(books') /\ Quiet(books, books', clock, S)
  <2>1. CASE o \in Due
    BY <1>1, <1>2, <2>1, AdvanceKeeps, AdvanceIsQuiet
  <2>2. CASE o \notin Due
    BY <1>1, <1>2, <1>3, <2>2, ReleaseKeeps, ReleaseIsQuiet
  <2> QED BY <2>1, <2>2
<1>5. \A r \in OrderIds : ~(r \in S /\ r \in Due)
  BY <1>3
<1>6. JobFine'
  BY <1>1, NoWork DEF AccountInv
<1> QED BY <1>1, <1>4, <1>5, <1>6, QuietStep

(* A pause cancels the orders, or the purchases, that have not opened.     *)
LEMMA CancelBeforeOpenStep ==
    ASSUME AccountInv, NEW buysOnly \in BOOLEAN, CancelBeforeOpen(buysOnly)
    PROVE  AccountInv' /\ OrdersEnd
<1>1. PICK pending : pending = {o \in OrderIds : Order(o).state = "pending"}
  OBVIOUS
<1>2. PICK freed : freed = {o \in pending \ Due : buysOnly => Order(o).side = "buy"}
  OBVIOUS
<1>3. PICK m : m = Advance(books, pending \cap Due)
  OBVIOUS
<1>4. /\ Unlocked /\ books' = Release(m, freed, "cancelled")
      /\ UNCHANGED <<clock, bars, edition, navs, job>>
  BY <1>1, <1>2, <1>3 DEF CancelBeforeOpen
<1>5. BookInv(books) /\ BookTypes(books) /\ clock \in Nat
  BY Clocks DEF AccountInv, BooksInv, BookInv
<1>6. /\ \A o \in pending : o \in OrderIds /\ IsLive(books.orders[o])
      /\ freed \in SUBSET OrderIds /\ pending \cap Due \in SUBSET OrderIds
      /\ freed \subseteq pending /\ freed \cap Due = {}
  BY <1>1, <1>2 DEF Order, IsLive, LiveStates
<1>7. /\ BookInv(m) /\ BookTypes(m) /\ Quiet(books, m, clock, freed)
      /\ \A o \in freed : m.orders[o] = books.orders[o]
  <2>1. \A o \in pending \cap Due : books.orders[o].state \in LiveStates /\ IsLive(books.orders[o])
    BY <1>6 DEF IsLive
  <2>2. BookInv(m)
    BY <1>3, <1>5, <1>6, <2>1, AdvanceKeeps
  <2>3. Quiet(books, m, clock, freed)
    BY <1>3, <1>5, <1>6, <2>1, AdvanceIsQuiet
  <2>4. \A o \in OrderIds \ (pending \cap Due) : m.orders[o] = books.orders[o]
    BY <1>3, <1>5, <1>6, <2>1, AdvanceOrders
  <2> QED BY <1>6, <2>2, <2>3, <2>4 DEF BookInv
<1>8. \A o \in freed : m.orders[o].state \in LiveStates /\ IsLive(m.orders[o])
  BY <1>6, <1>7 DEF IsLive
<1>9. BookInv(books')
  BY <1>4, <1>6, <1>7, <1>8, ReleaseKeeps
<1>10. Quiet(books, books', clock, freed)
  <2>1. Quiet(m, books', clock, freed)
    BY <1>4, <1>5, <1>6, <1>7, <1>8, ReleaseIsQuiet
  <2> QED BY <1>7, <2>1, QuietTwice
<1>11. \A o \in OrderIds : ~(o \in freed /\ o \in Due)
  BY <1>6
<1>12. JobFine'
  BY <1>4, NoWork DEF AccountInv
<1> QED BY <1>4, <1>9, <1>10, <1>11, <1>12, QuietStep

-------------------------------------------------------------------------------
(* The account job: its orders.                                            *)
LEMMA HandledWork ==
    ASSUME AccountInv, NEW o \in OrderIds, Upcoming(o), Handled(o),
           \A r \in OrderIds \ {o} : books'.orders[r] = books.orders[r]
    PROVE  JobFine'
<1>1. JobFine /\ job.name = "execute" /\ job \in Jobs /\ job.todo \subseteq Due
  BY DEF AccountInv, JobFine, Upcoming
<1>2. PICK z \in BOOLEAN : z = (job.clean /\ ~Blocked(o))
  OBVIOUS
<1>3. job' = [job EXCEPT !.todo = job.todo \ {o}, !.clean = z] /\ clock' = clock
  BY <1>2 DEF Handled
<1>4. /\ job.todo \in SUBSET (OrderIds \cup Actions) /\ job.at \in Times
      /\ job' = [name |-> "execute", todo |-> job.todo \ {o}, clean |-> z, at |-> job.at]
  BY <1>1, <1>3 DEF Jobs
<1>5. job.todo \ {o} \subseteq Due'
  <2> SUFFICES ASSUME NEW r \in job.todo \ {o} PROVE r \in Due'
    OBVIOUS
  <2>1. r \in OrderIds \ {o} /\ r \in Due
    BY <1>1 DEF Due, Active
  <2> QED BY <1>3, <2>1 DEF Due, Active, Order
<1> QED BY <1>4, <1>5 DEF JobFine, Jobs

(* What is known of the order that Execute turns to.                       *)
LEMMA UpcomingOrder ==
    ASSUME AccountInv, NEW o \in OrderIds, Upcoming(o)
    PROVE  /\ IsLive(books.orders[o]) /\ books.orders[o].state \in LiveStates
           /\ BookInv(books) /\ BookTypes(books) /\ clock \in Nat /\ {o} \in SUBSET OrderIds
           /\ \A r \in {o} : IsLive(books.orders[r]) /\ books.orders[r].state \in LiveStates
<1>1. o \in Due
  BY DEF AccountInv, JobFine, Upcoming
<1>2. IsLive(books.orders[o])
  BY <1>1, OwnNames DEF Due
<1> QED BY <1>2, Clocks DEF AccountInv, BooksInv, BookInv, IsLive

(* Execute finds no bar for it yet,                                        *)
LEMMA AwaitBarStep ==
    ASSUME AccountInv, NEW o \in OrderIds, AwaitBar(o)
    PROVE  AccountInv' /\ OrdersEnd
<1>1. books' = Advance(books, {o}) /\ UNCHANGED <<clock, bars, edition, navs>> /\ Upcoming(o)
      /\ Handled(o)
  BY DEF AwaitBar, Handled
<1>2. PICK S : S = {}
  OBVIOUS
<1>3. BookInv(books') /\ Quiet(books, books', clock, S)
  BY <1>1, UpcomingOrder, AdvanceKeeps, AdvanceIsQuiet
<1>4. \A r \in OrderIds \ {o} : books'.orders[r] = books.orders[r]
  BY <1>1, UpcomingOrder, AdvanceOrders
<1>5. JobFine'
  BY <1>1, <1>4, HandledWork
<1>6. \A r \in OrderIds : ~(r \in S /\ r \in Due)
  BY <1>2
<1> QED BY <1>1, <1>3, <1>5, <1>6, QuietStep

(* or ends it without a fill,                                              *)
LEMMA EndOrderStep ==
    ASSUME AccountInv, NEW o \in OrderIds, NEW state \in {"expired", "rejected"},
           Upcoming(o), Handled(o), books' = Release(books, {o}, state)
    PROVE  AccountInv' /\ OrdersEnd
<1>1. UNCHANGED <<clock, bars, edition, navs>>
  BY DEF Handled
<1>2. PICK S : S = {}
  OBVIOUS
<1>3. BookInv(books')
  BY UpcomingOrder, ReleaseKeeps
<1>4. /\ Quiet(books, books', clock, S)
      /\ \A r \in OrderIds \ {o} : books'.orders[r] = books.orders[r]
  <2>1. PICK T \in SUBSET OrderIds : T = {o}
    OBVIOUS
  <2>2. state \in {"expired", "rejected", "cancelled"} /\ (state = "cancelled" => T \subseteq S)
    OBVIOUS
  <2>3. BookTypes(books) /\ clock \in Nat /\ \A r \in T : IsLive(books.orders[r])
    BY <2>1, UpcomingOrder
  <2>4. books' = Release(books, T, state)
    BY <2>1
  <2> QED BY <2>1, <2>2, <2>3, <2>4, ReleaseIsQuiet
<1>5. JobFine'
  BY <1>4, HandledWork
<1>6. \A r \in OrderIds : ~(r \in S /\ r \in Due)
  BY <1>2
<1> QED BY <1>1, <1>3, <1>4, <1>5, <1>6, QuietStep

(* or fills it.                                                            *)
LEMMA FillOrderStep ==
    ASSUME AccountInv, NEW o \in OrderIds, FillOrder(o)
    PROVE  AccountInv' /\ OrdersEnd
<1>1. PICK p : p = Price[Order(o).instrument][Order(o).session]
  OBVIOUS
<1>2. PICK q \in Matches(o) \ {0} : CanFill(books, o, p, q) /\ books' = Fill(books, o, p, q)
  BY <1>1 DEF FillOrder
<1>3. Upcoming(o) /\ HasBar(o) /\ Handled(o) /\ UNCHANGED <<clock, bars, edition, navs>>
  BY DEF FillOrder, Handled
<1>4. PICK order \in OrderRows : order = books.orders[o] /\ OrderFine(order)
  BY <1>3, UpcomingOrder, BookFields
<1>5. /\ IsLive(books.orders[o]) /\ BookTypes(books) /\ order.instrument \in Instruments
      /\ order.session \in Sessions
  BY <1>3, <1>4, UpcomingOrder, OrderFields DEF OrderFine
<1>6. p \in Nat
  BY <1>1, <1>4, <1>5, AccountAssumption DEF Order
<1>7. CloseAt(books.orders[o].session) <= clock
  <2>1. order.session \in bars[order.instrument]
    BY <1>3, <1>4, <1>5 DEF HasBar, Order
  <2> QED BY <1>4, <1>5, <2>1 DEF AccountInv, WorldFine
<1>8. /\ q \in Nat \ {0}
      /\ \A r \in PeersIn(books, o) :
            TradedSum(books, PeersIn(books, o)) + q <= books.orders[r].capacity
  BY <1>5, MatchesFit
<1>9. /\ BooksInv(books', navs, clock)
      /\ books'.orders[o].state \in {"filled", "partially_filled_cancelled"}
      /\ \A r \in OrderIds \ {o} : books'.orders[r] = books.orders[r]
  <2>1. BooksInv(books, navs, clock) /\ clock \in Times
    BY Clocks DEF AccountInv
  <2> QED BY <1>2, <1>5, <1>6, <1>7, <1>8, <2>1, FillingKeeps
<1>10. JobFine'
  BY <1>3, <1>9, HandledWork
<1>11. WorldFine' /\ BooksInv(books', navs', clock')
  BY <1>3, <1>9, SameWorld DEF AccountInv
<1>12. OrdersEnd
  <2>1. ~Terminal(o)
    BY <1>5, OwnNames
  <2>2. \A r \in OrderIds \ {o} : Order(r)' = Order(r)
    BY <1>9 DEF Order
  <2>3. Order(o)'.state # "cancelled"
    BY <1>9 DEF Order
  <2>4. \A r \in OrderIds : r \in Due => Order(r).state # "cancelled"
    BY DEF Due, Active
  <2> QED BY <2>1, <2>2, <2>3, <2>4 DEF OrdersEnd
<1> QED BY <1>10, <1>11, <1>12 DEF AccountInv

-------------------------------------------------------------------------------
(* The account job: its corporate actions.                                 *)
ReconcileWork(j) ==
    /\ j \in Jobs /\ j.name = "reconcile"
    /\ j.todo \subseteq {a \in Actions : Published(a) /\ EffectiveAt[a] <= clock}

(* Reconcile goes on to the next action, or ends.                          *)
LEMMA AfterWork ==
    ASSUME AccountInv, NEW j, ReconcileWork(j), job' = After(j),
           UNCHANGED <<clock, edition>>
    PROVE  JobFine'
<1>1. 0 \in Times /\ JobFine
  BY Clocks DEF AccountInv, Times
<1>2. job' = j \/ job' = [j EXCEPT !.at = 0] \/ job' = Idle
  BY DEF After
<1>3. CASE job' = Idle
  BY <1>1, <1>3 DEF JobFine, Jobs, Idle
<1>4. CASE job' = j \/ job' = [j EXCEPT !.at = 0]
  <2>1. job' \in Jobs /\ job'.name = "reconcile" /\ job'.todo = j.todo
    BY <1>1, <1>4 DEF ReconcileWork, Jobs
  <2> QED BY <2>1 DEF JobFine, ReconcileWork, Published
<1> QED BY <1>2, <1>3, <1>4

(* Reconcile locks the account and chooses the actions to work on.         *)
LEMMA BeginReconcileStep ==
    ASSUME AccountInv, BeginReconcile
    PROVE  AccountInv' /\ OrdersEnd
<1>1. PICK t \in {clock - 1, clock} :
         /\ job' = After([job EXCEPT !.name = "reconcile", !.at = t,
                              !.todo = {a \in Actions : Published(a) /\ EffectiveAt[a] <= t}])
         /\ books' = Settle(books, t)
  BY DEF BeginReconcile
<1>2. UNCHANGED <<clock, bars, edition, navs>>
  BY DEF BeginReconcile
<1>3. BookInv(books) /\ BookTypes(books) /\ clock \in Nat /\ job \in Jobs
  BY Clocks DEF AccountInv, BooksInv, BookInv, JobFine
<1>4. t \in Times /\ t \in Int /\ t <= clock
  BY Clocks, <1>1 DEF AccountInv, Times
<1>5. PICK j : j = [job EXCEPT !.name = "reconcile", !.at = t,
                       !.todo = {a \in Actions : Published(a) /\ EffectiveAt[a] <= t}]
  OBVIOUS
<1>6. ReconcileWork(j)
  <2>1. j \in Jobs /\ j.name = "reconcile"
        /\ j.todo = {a \in Actions : Published(a) /\ EffectiveAt[a] <= t}
    BY <1>3, <1>4, <1>5 DEF Jobs
  <2>2. \A a \in Actions : EffectiveAt[a] \in Int
    BY ActionAssumption, BookAssumption DEF CloseAt
  <2>3. \A a \in Actions : EffectiveAt[a] <= t => EffectiveAt[a] <= clock
    BY <1>3, <1>4, <2>2
  <2> QED BY <2>1, <2>3 DEF ReconcileWork
<1>7. JobFine'
  BY <1>1, <1>2, <1>5, <1>6, AfterWork
<1>8. PICK S : S = {}
  OBVIOUS
<1>9. BookInv(books') /\ Quiet(books, books', clock, S)
  BY <1>1, <1>3, SettleKeeps, SettleIsQuiet
<1>10. \A o \in OrderIds : ~(o \in S /\ o \in Due)
  BY <1>8
<1> QED BY <1>2, <1>7, <1>9, <1>10, QuietStep

(* The orders that a split may cancel.                                     *)
Before(a) ==
    {o \in OrderIds : /\ Split(a) /\ Security[a] = books.orders[o].instrument
                      /\ EffectiveAt[a] <= OpenAt(books.orders[o].session)}

(* Cancelling the orders a split would find, as Reconcile does first,      *)
(* keeps the books sound.                                                  *)
LEMMA CancelledKeeps ==
    ASSUME BookInv(books), NEW t \in Nat, NEW a \in Actions, Split(a),
           NEW c, c = Cancelled(books, a)
    PROVE  BookInv(c) /\ Quiet(books, c, t, Before(a)) /\ c.recorded = books.recorded
<1>1. PICK S : S = {o \in OrderIds : /\ books.orders[o].state \in {"pending", "awaiting_bar"}
                                     /\ books.orders[o].instrument = Security[a]
                                     /\ EffectiveAt[a] <= OpenAt(books.orders[o].session)}
  OBVIOUS
<1>2. /\ S \in SUBSET OrderIds /\ S \subseteq Before(a)
      /\ \A o \in S : IsLive(books.orders[o]) /\ books.orders[o].state \in LiveStates
  BY <1>1 DEF Before, IsLive, LiveStates
<1>3. c = Release(books, S, "cancelled")
  BY <1>1 DEF Cancelled
<1>4. BookTypes(books)
  BY DEF BookInv
<1>5. BookInv(c)
  BY <1>2, <1>3, ReleaseKeeps
<1>6. Quiet(books, c, t, Before(a)) /\ c.recorded = books.recorded
  BY <1>2, <1>3, <1>4, ReleaseIsQuiet
<1> QED BY <1>5, <1>6

(* So does reconciling one action, whichever of its parts are due.         *)
LEMMA ReconciledKeeps ==
    ASSUME BookInv(books), NEW t \in Nat, NEW a \in Actions, EffectiveAt[a] <= t,
           edition[a] \in Editions \ {"none"}
    PROVE  BookInv(Reconciled(books, a).books) /\ Quiet(books, Reconciled(books, a).books, t, Before(a))
<1>1. PICK T : T = Before(a)
  OBVIOUS
<1>2. CASE RevisionUnreviewed(books, a)
  <2>1. Reconciled(books, a).books = books
    BY <1>2 DEF Reconciled
  <2> QED BY <2>1, NothingIsQuiet
<1>3. CASE ~RevisionUnreviewed(books, a)
  <2>1. PICK c : c = IF Split(a) /\ ~Recorded(books, a) THEN Cancelled(books, a) ELSE books
    OBVIOUS
  <2>2. BookInv(c) /\ BookTypes(c) /\ Quiet(books, c, t, T)
    <3>1. BookInv(c) /\ Quiet(books, c, t, T)
      <4>1. CASE Split(a) /\ ~Recorded(books, a)
        BY <1>1, <2>1, <4>1, CancelledKeeps
      <4>2. CASE ~(Split(a) /\ ~Recorded(books, a))
        BY <2>1, <4>2, NothingIsQuiet
      <4> QED BY <4>1, <4>2
    <3> QED BY <3>1 DEF BookInv
  <2>3. PICK stuck \in BOOLEAN : stuck = (~Recorded(c, a) /\ CannotApply(c, a))
    OBVIOUS
  <2>4. PICK d : d = IF Recorded(c, a) THEN c ELSE ApplyCorporateAction(c, a, edition[a])
    OBVIOUS
  <2>5. PICK z : z = IF PaymentDue(d, a, job.at) THEN PayDividend(d, a) ELSE d
    OBVIOUS
  <2>6. Reconciled(books, a).books = IF stuck THEN c ELSE z
    BY <1>3, <2>1, <2>3, <2>4, <2>5, Zenon DEF Reconciled
  <2>7. CASE stuck
    BY <1>1, <2>2, <2>6, <2>7
  <2>8. CASE ~stuck
    <3>1. BookInv(d) /\ BookTypes(d) /\ Quiet(books, d, t, T)
      <4>1. CASE Recorded(c, a)
        BY <2>2, <2>4, <4>1
      <4>2. CASE ~Recorded(c, a)
        <5>1. d = ApplyCorporateAction(c, a, edition[a])
          BY <2>4, <4>2
        <5>2. SplitFits(c, a)
          <6>1. ~CannotApply(c, a)
            BY <2>3, <2>8, <4>2
          <6>2. Split(a) => /\ c.positions[Security[a]].reserved = 0
                            /\ ~InventoryChangedSince(c, Security[a], EffectiveAt[a])
            BY <6>1 DEF CannotApply
          <6>3. \A r \in c.ledger : r.at \in Int /\ EffectiveAt[a] \in Int
            <7>1. \A r \in c.ledger : r \in LedgerRows /\ r.at \in Times
              BY <2>2, BookFields, RowFields
            <7> QED BY <7>1, ActionAssumption, BookAssumption DEF Times, CloseAt
          <6> QED BY <6>2, <6>3 DEF SplitFits, InventoryChangedSince, FillKinds
        <5>3. BookInv(d)
          BY <2>2, <4>2, <5>1, <5>2, ApplyKeeps
        <5>4. Quiet(c, d, t, T)
          BY <2>2, <5>1, ApplyIsQuiet
        <5> QED BY <2>2, <5>3, <5>4, QuietTwice DEF BookInv
      <4> QED BY <4>1, <4>2
    <3>2. BookInv(z) /\ Quiet(books, z, t, T)
      <4>1. CASE PaymentDue(d, a, job.at)
        <5>1. z = PayDividend(d, a)
          BY <2>5, <4>1
        <5>2. /\ Kind[a] = "dividend" /\ Recorded(d, a)
              /\ ~\E r \in d.ledger : r.kind = "dividend_payment" /\ r.of = a
          BY <4>1 DEF PaymentDue
        <5>3. BookInv(z)
          BY <3>1, <5>1, <5>2, PayKeeps
        <5>4. Quiet(d, z, t, T)
          BY <3>1, <5>1, <5>2, PayIsQuiet
        <5> QED BY <3>1, <5>3, <5>4, QuietTwice
      <4>2. CASE ~PaymentDue(d, a, job.at)
        BY <2>5, <3>1, <4>2
      <4> QED BY <4>1, <4>2
    <3> QED BY <1>1, <2>6, <2>8, <3>2
  <2> QED BY <2>7, <2>8
<1> QED BY <1>2, <1>3

(* Reconcile works on one action.                                          *)
LEMMA ReconcileActionStep ==
    ASSUME AccountInv, NEW a \in Actions, ReconcileAction(a)
    PROVE  AccountInv' /\ OrdersEnd
<1>1. PICK r : r = Reconciled(books, a)
  OBVIOUS
<1>2. /\ job.name = "reconcile" /\ a \in job.todo /\ books' = r.books
      /\ job' = After([job EXCEPT !.todo = @ \ {a}, !.clean = @ /\ ~r.blocked])
      /\ UNCHANGED <<clock, bars, edition, navs>>
  BY <1>1 DEF ReconcileAction
<1>3. /\ BookInv(books) /\ clock \in Nat /\ job \in Jobs
      /\ job.todo \subseteq {s \in Actions : Published(s) /\ EffectiveAt[s] <= clock}
  BY <1>2, Clocks DEF AccountInv, BooksInv, JobFine
<1>4. edition[a] \in Editions \ {"none"} /\ EffectiveAt[a] <= clock
  BY <1>2, <1>3 DEF AccountInv, WorldFine, Published
<1>5. BookInv(books') /\ Quiet(books, books', clock, Before(a))
  BY <1>1, <1>2, <1>3, <1>4, ReconciledKeeps
<1>6. PICK z \in BOOLEAN : z = (job.clean /\ ~r.blocked)
  OBVIOUS
<1>7. PICK j : j = [job EXCEPT !.todo = job.todo \ {a}, !.clean = z]
  OBVIOUS
<1>8. ReconcileWork(j)
  BY <1>2, <1>3, <1>7 DEF ReconcileWork, Jobs
<1>9. job' = After(j)
  BY <1>2, <1>6, <1>7
<1>10. JobFine'
  BY <1>2, <1>8, <1>9, AfterWork
<1>11. ASSUME NEW o \in OrderIds, o \in Before(a), o \in Due
       PROVE  \E s \in Actions : /\ Split(s) /\ Security[s] = Order(o).instrument
                                /\ EffectiveAt[s] <= OpenAt(Order(o).session)
                                /\ job.name = "reconcile"
  BY <1>2, <1>11 DEF Before, Order
<1> QED BY <1>2, <1>5, <1>10, <1>11, QuietStep

-------------------------------------------------------------------------------
(* A new account has what its initial credit says.                         *)
LEMMA InitAccount ==
    ASSUME Init
    PROVE  AccountInv
<1>1. BookInv(books) /\ BookTypes(books)
  BY NewBooksFine DEF Init, BookInv
<1>2. Last \in Nat /\ Horizon \in Int /\ 2 <= Horizon
  BY BookAssumption DEF CloseAt
<1>3. WorldFine
  <2>1. 0 \in Sessions
    BY <1>2 DEF Sessions
  <2>2. clock \in CloseAt(0) .. Horizon /\ CloseAt(0) <= clock
    BY <1>2 DEF Init, CloseAt
  <2>3. bars \in [Instruments -> SUBSET Sessions] /\ edition \in [Actions -> Editions]
        /\ navs = [k \in Sessions |-> navs[k]]
    BY <2>1 DEF Init, Editions
  <2>4. \A i \in Instruments : \A k \in bars[i] : CloseAt(k) <= clock
    BY <2>2 DEF Init
  <2> QED BY <2>2, <2>3, <2>4 DEF WorldFine
<1>4. JobFine
  BY <1>2 DEF Init, Idle, JobFine, Jobs, Times
<1>5. /\ FillRows(books) = {} /\ Past(books, clock)
      /\ \A o \in OrderIds : books.orders[o] = NoOrder
  BY <1>2 DEF Init, NewBooks, FillRows, FillKinds, Row, Past, CloseAt
<1>6. FillsClosed(books, clock)
  BY <1>5 DEF FillsClosed
<1>7. WithinCapacity(books)
  BY <1>5 DEF WithinCapacity, NoOrder
<1>8. NavsFinal(books, navs, clock)
  BY DEF Init, NavsFinal
<1> QED BY <1>1, <1>3, <1>4, <1>5, <1>6, <1>7, <1>8 DEF AccountInv, BooksInv

(* Each step is one of those.                                              *)
LEMMA NextAccount ==
    ASSUME AccountInv, [Next]_vars
    PROVE  AccountInv' /\ (OrdersEnd \/ UNCHANGED vars)
<1>1. CASE UNCHANGED vars
  <2>1. WorldFine' /\ JobFine' /\ BooksInv(books', navs', clock')
    BY <1>1 DEF vars, AccountInv, WorldFine, JobFine, Due, Active, Order, Published
  <2> QED BY <1>1, <2>1 DEF AccountInv
<1>2. CASE Next
  <2>1. CASE Tick
    BY <2>1, TickStep
  <2>2. CASE \E i \in Instruments, k \in Sessions : BarArrives(i, k)
    BY <2>2, BarArrivesStep
  <2>3. CASE \E a \in Actions, e \in Editions : Publish(a, e)
    BY <2>3, PublishStep
  <2>4. CASE \E o \in OrderIds, side \in {"buy", "sell"}, i \in Instruments, q \in Quantities,
                c \in Capacities : PlaceOrder(o, side, i, q, c)
    BY <2>4, PlaceOrderStep
  <2>5. CASE \E o \in OrderIds : CancelOrder(o)
    BY <2>5, CancelOrderStep
  <2>6. CASE \E buysOnly \in BOOLEAN : CancelBeforeOpen(buysOnly)
    BY <2>6, CancelBeforeOpenStep
  <2>7. CASE BeginExecute
    BY <2>7, BeginExecuteStep
  <2>8. ASSUME NEW o \in OrderIds, AwaitBar(o) PROVE AccountInv' /\ OrdersEnd
    BY <2>8, AwaitBarStep
  <2>9. ASSUME NEW o \in OrderIds, ExpireOrder(o) PROVE AccountInv' /\ OrdersEnd
    BY <2>9, EndOrderStep DEF ExpireOrder
  <2>10. ASSUME NEW o \in OrderIds, RejectOrder(o) PROVE AccountInv' /\ OrdersEnd
    BY <2>10, EndOrderStep DEF RejectOrder
  <2>11. ASSUME NEW o \in OrderIds, FillOrder(o) PROVE AccountInv' /\ OrdersEnd
    BY <2>11, FillOrderStep
  <2>12. CASE BeginReconcile
    BY <2>12, BeginReconcileStep
  <2>13. CASE \E a \in Actions : ReconcileAction(a)
    BY <2>13, ReconcileActionStep
  <2>14. CASE SaveNAV
    BY <2>14, SaveNAVStep
  <2> QED BY <1>2, <2>1, <2>2, <2>3, <2>4, <2>5, <2>6, <2>7, <2>8, <2>9, <2>10, <2>11, <2>12,
             <2>13, <2>14 DEF Next
<1> QED BY <1>1, <1>2

(* AccountInv is an invariant.                                             *)
LEMMA AccountAlways == Spec => []AccountInv
BY InitAccount, NextAccount, PTL DEF Spec

-------------------------------------------------------------------------------
(* Every variable has its type in every reachable state, for every         *)
(* calendar, every set of corporate actions and every price.               *)
THEOREM AccountTypes == Spec => []TypeOK
<1>1. AccountInv => TypeOK
  <2> SUFFICES ASSUME AccountInv PROVE TypeOK
    OBVIOUS
  <2>1. BookTypes(books)
    BY DEF AccountInv, BooksInv, BookInv
  <2>2. /\ books.balances \in Balances /\ books.positions \in Positions
        /\ books.orders \in [OrderIds -> OrderRows] /\ books.recorded \in [Actions -> Editions]
        /\ \A e \in books.ledger : e \in LedgerRows
    BY <2>1, BookFields
  <2>3. ASSUME NEW k \in Sessions, navs[k] # None PROVE navs[k].fills \subseteq OrderIds
    <3>1. navs[k].fills = FilledBy(books, k)
      BY <2>3 DEF AccountInv, BooksInv, NavsFinal, NavFinal
    <3>2. \A e \in FillRows(books) : e.of \in OrderIds
      BY <2>1, FillsAre
    <3> QED BY <3>1, <3>2 DEF FilledBy
  <2>4. clock \in Times
    BY Clocks DEF AccountInv
  <2> QED BY <2>2, <2>3, <2>4 DEF AccountInv, WorldFine, JobFine, TypeOK
<1> QED BY <1>1, AccountAlways, PTL

(* The balances and the holdings are what the ledger adds up to, and each  *)
(* event is booked once.                                                   *)
THEOREM LedgerAddsUp == Spec => []LedgerBalances
<1>1. AccountInv => LedgerBalances
  <2> SUFFICES ASSUME AccountInv PROVE LedgerBalances
    OBVIOUS
  <2>1. BookInv(books) /\ BookTypes(books) /\ Balanced(books)
    BY DEF AccountInv, BooksInv, BookInv
  <2>2. PICK L : L = books.ledger /\ L \in SUBSET LedgerRows /\ IsFiniteSet(L)
    BY <2>1, BookFields
  <2>3. ASSUME NEW f \in DOMAIN books.balances
        PROVE  books.balances[f] = SumFunction([e \in books.ledger |-> e.delta[f]])
    <3>1. f \in Columns
      <4>1. books.balances \in Balances
        BY <2>1, BookFields
      <4> QED BY <4>1 DEF Balances, Columns
    <3>2. PICK g : g = [e \in L |-> e.delta[f]]
      OBVIOUS
    <3>3. DOMAIN g = L /\ Summable(g, L) /\ \A e \in L : DeltaOf(f)[e] = g[e]
      BY <2>2, <3>1, <3>2, RowTerms DEF Summable
    <3>4. SumFunction(g) = ColumnSum(f, L)
      BY <2>2, <3>3, SumWritten DEF ColumnSum
    <3> QED BY <2>1, <2>2, <3>1, <3>2, <3>4 DEF Balanced
  <2>4. ASSUME NEW i \in Instruments
        PROVE  books.positions[i].quantity =
                   SumFunction([e \in {r \in books.ledger : r.instrument = i} |-> e.quantity])
    <3>1. PICK T : T = {r \in L : r.instrument = i}
      OBVIOUS
    <3>2. PICK g : g = [e \in T |-> e.quantity]
      OBVIOUS
    <3>3. /\ T \in SUBSET L /\ DOMAIN g = T /\ Summable(g, T)
          /\ \A e \in T : QuantityIn(i)[e] = g[e]
          /\ \A e \in L \ T : QuantityIn(i)[e] = 0
      <4>1. \A e \in L : e.quantity \in Int /\ QuantityIn(i)[e] = QuantityOf(e, i)
        BY <2>2, RowTerms, RowFields
      <4> QED BY <3>1, <3>2, <4>1 DEF Summable, QuantityOf
    <3>4. SumFunction(g) = QuantitySum(i, L)
      BY <2>2, <3>3, SumWritten DEF QuantitySum
    <3> QED BY <2>1, <2>2, <3>1, <3>2, <3>4 DEF Balanced
  <2> QED BY <2>1, <2>3, <2>4 DEF LedgerBalances, BookTypes, KeysApart
<1> QED BY <1>1, AccountAlways, PTL

(* What is reserved is what live orders have reserved and the account has, *)
(* what is owed is what no settlement and no payment has paid out, and a   *)
(* position sold out has no cost left.                                     *)
THEOREM ReservationsAreBacked == Spec => []ReservationsBacked
<1>1. AccountInv => ReservationsBacked
  <2> SUFFICES ASSUME AccountInv PROVE ReservationsBacked
    OBVIOUS
  <2>1. BookInv(books) /\ BookTypes(books) /\ Backed(books)
    BY DEF AccountInv, BooksInv, BookInv
  <2>2. /\ books.ledger \in SUBSET LedgerRows /\ IsFiniteSet(books.ledger)
        /\ books.orders \in [OrderIds -> OrderRows] /\ IsFiniteSet(OrderIds)
    BY <2>1, BookFields, BookAssumption
  <2>3. \A o \in OrderIds : /\ ~IsLive(books.orders[o]) => /\ books.orders[o].cash = 0
                                                           /\ books.orders[o].shares = 0
                            /\ books.orders[o].cash \in Nat /\ books.orders[o].shares \in Nat
    BY <2>1, BookFields, OrderFields DEF OrderFine, IsLive
  <2>4. books.balances.reserved = SumFunction([o \in Active |-> Order(o).cash])
    <3>1. PICK T : T = Active /\ T \in SUBSET OrderIds /\ \A o \in OrderIds \ T : ~IsLive(books.orders[o])
      BY OwnNames
    <3>2. PICK g : g = [o \in T |-> Order(o).cash]
      OBVIOUS
    <3>3. /\ DOMAIN g = T /\ Summable(g, T) /\ \A o \in T : CashOf(books.orders)[o] = g[o]
          /\ \A o \in OrderIds \ T : CashOf(books.orders)[o] = 0
      BY <2>3, <3>1, <3>2 DEF Summable, CashOf, Order
    <3>4. SumFunction(g) = CashSum(books.orders)
      BY <2>2, <3>1, <3>3, SumWritten DEF CashSum
    <3> QED BY <2>1, <3>1, <3>2, <3>4 DEF Backed
  <2>5. \A o \in OrderIds : Terminal(o) => Order(o).cash = 0 /\ Order(o).shares = 0
    BY <2>3, OwnNames
  <2>6. ASSUME NEW i \in Instruments
        PROVE  books.positions[i].reserved =
                   SumFunction([o \in {r \in Active : Order(r).instrument = i} |-> Order(o).shares])
    <3>1. PICK T : T = {r \in Active : Order(r).instrument = i}
      OBVIOUS
    <3>2. /\ T \in SUBSET OrderIds /\ \A o \in T : books.orders[o].instrument = i
          /\ \A o \in OrderIds \ T : ~IsLive(books.orders[o]) \/ books.orders[o].instrument # i
      BY <3>1, OwnNames
    <3>3. PICK g : g = [o \in T |-> Order(o).shares]
      OBVIOUS
    <3>4. /\ DOMAIN g = T /\ Summable(g, T) /\ \A o \in T : SharesIn(books.orders, i)[o] = g[o]
          /\ \A o \in OrderIds \ T : SharesIn(books.orders, i)[o] = 0
      BY <2>3, <3>2, <3>3 DEF Summable, SharesIn, SharesOf, Order
    <3>5. SumFunction(g) = SharesSum(books.orders, i)
      BY <2>2, <3>2, <3>4, SumWritten DEF SharesSum
    <3> QED BY <2>1, <3>1, <3>3, <3>5 DEF Backed
  <2>7. \A i \in Instruments : /\ books.positions[i].reserved <= books.positions[i].quantity
                               /\ books.positions[i].quantity = 0 => books.positions[i].cost = 0
    BY <2>1, ReservedIsHeld DEF Backed
  <2>8. ASSUME NEW U \in SUBSET books.ledger, NEW f \in {"unsettled", "dividends"}
        PROVE  SumFunction([e \in U |-> e.delta[f]]) = ColumnSum(f, U)
    <3>1. PICK g : g = [e \in U |-> e.delta[f]]
      OBVIOUS
    <3>2. U \in SUBSET LedgerRows /\ IsFiniteSet(U) /\ f \in Columns
      BY <2>2, <2>8, FS_Subset DEF Columns
    <3>3. DOMAIN g = U /\ Summable(g, U) /\ \A e \in U : DeltaOf(f)[e] = g[e]
      BY <3>1, <3>2, RowTerms DEF Summable
    <3> QED BY <3>1, <3>2, <3>3, SumWritten DEF ColumnSum
  <2>9. books.balances.unsettled = SumFunction([e \in Unsettled(books) |-> e.delta.unsettled])
    <3>1. PICK U : U = Unsettled(books) /\ U \in SUBSET books.ledger
      BY DEF Unsettled
    <3>2. SumFunction([e \in U |-> e.delta["unsettled"]]) = ColumnSum("unsettled", U)
      BY <2>8, <3>1
    <3>3. [e \in U |-> e.delta["unsettled"]] = [e \in U |-> e.delta.unsettled]
      OBVIOUS
    <3> QED BY <2>1, <3>1, <3>2, <3>3 DEF Backed
  <2>10. books.balances.dividends = SumFunction([e \in Unpaid(books) |-> e.delta.dividends])
    <3>1. PICK U : U = Owed(books) /\ U = Unpaid(books) /\ U \in SUBSET books.ledger
      BY DEF Owed, Unpaid
    <3>2. SumFunction([e \in U |-> e.delta["dividends"]]) = ColumnSum("dividends", U)
      BY <2>8, <3>1
    <3>3. [e \in U |-> e.delta["dividends"]] = [e \in U |-> e.delta.dividends]
      OBVIOUS
    <3> QED BY <2>1, <3>1, <3>2, <3>3 DEF Backed
  <2> QED BY <2>4, <2>5, <2>6, <2>7, <2>9, <2>10 DEF ReservationsBacked
<1> QED BY <1>1, AccountAlways, PTL

(* The fills of one instrument in one session stay within the capacity of  *)
(* each of the session's orders.                                           *)
THEOREM CapacityIsShared == Spec => []CapacityShared
<1>1. AccountInv => CapacityShared
  <2> SUFFICES ASSUME AccountInv, NEW o \in OrderIds, Order(o).state # "none"
               PROVE  SumFunction([e \in FillsOf(Peers(o)) |-> Shares(e)]) <= Order(o).capacity
    BY DEF CapacityShared
  <2>1. BookTypes(books) /\ WithinCapacity(books)
    BY DEF AccountInv, BooksInv, BookInv
  <2>2. PICK P : P = Peers(o)
    OBVIOUS
  <2>3. SumFunction([e \in FillsOf(P) |-> Shares(e)]) = TradedSum(books, P)
    BY <2>1, TradedOf
  <2>4. TradedSum(books, P) <= Order(o).capacity
    BY <2>1, <2>2, OwnNames DEF WithinCapacity
  <2> QED BY <2>2, <2>3, <2>4
<1> QED BY <1>1, AccountAlways, PTL

(* A saved NAV counts the fills of its session and the earlier ones, all   *)
(* of them: none is recorded after it.                                     *)
THEOREM NavsAreComplete == Spec => []NavComplete
<1>1. AccountInv => NavComplete
  <2> SUFFICES ASSUME AccountInv, NEW k \in Sessions, navs[k] # None
               PROVE  navs[k].fills = {o \in Filled : Order(o).session <= k}
    BY DEF NavComplete
  <2>1. BookTypes(books) /\ navs[k].fills = FilledBy(books, k)
    BY DEF AccountInv, BooksInv, BookInv, NavsFinal, NavFinal
  <2>2. FillsOf(OrderIds) = FillRows(books)
    BY <2>1, FillsAre, OwnNames DEF FillsIn
  <2>3. {o \in Filled : Order(o).session <= k} = FilledBy(books, k)
    BY <2>2 DEF Filled, FilledBy, Order
  <2> QED BY <2>1, <2>3
<1> QED BY <1>1, AccountAlways, PTL

(* An order that has ended never changes again, and one whose session has  *)
(* opened is cancelled only by a split that precedes its open.             *)
THEOREM OrdersEndJustOnce == Spec => OrdersEndOnce
<1>1. AccountInv /\ [Next]_vars =>
         [\A o \in OrderIds :
             /\ Order(o).state # "none" /\ Terminal(o) => Order(o)' = Order(o)
             /\ o \in Due /\ Order(o)'.state = "cancelled" =>
                   \E a \in Actions : /\ Split(a) /\ Security[a] = Order(o).instrument
                                     /\ EffectiveAt[a] <= OpenAt(Order(o).session)
                                     /\ job.name = "reconcile"]_vars
  BY NextAccount DEF OrdersEnd
<1> QED BY <1>1, AccountAlways, PTL DEF Spec, OrdersEndOnce
-------------------------------------------------------------------------------
(***************************************************************************)
(* The books as a replay of their events.                                  *)
(*                                                                         *)
(* HoldingsReplay compares a position with the fills and splits of its     *)
(* instrument replayed in their effective order.  That this order does not *)
(* matter is shown by sums over the ledger: a split's row tells what the   *)
(* split made of the shares of all earlier rows, and stays right because   *)
(* no row is added before it any more.                                     *)
(***************************************************************************)

(* Nothing in the code keeps two splits of an instrument at one time       *)
(* apart, and what they come to together would depend on which is first.   *)
SplitsApart ==
    \A a, s \in Actions :
        Split(a) /\ Split(s) /\ Security[a] = Security[s] /\ EffectiveAt[a] = EffectiveAt[s] => a = s

(* The shares of i, the fills until t and the splits of S until u counted. *)
Counts(e, S, i, t, u) ==
    /\ e.instrument = i
    /\ \/ e.kind \in FillKinds /\ e.at <= t
       \/ e.kind = "split" /\ e.of \in S /\ e.at <= u
HeldTerm(e, S, i, t, u) == IF Counts(e, S, i, t, u) THEN e.quantity ELSE 0
HeldOf(S, i, t, u) == [e \in LedgerRows |-> HeldTerm(e, S, i, t, u)]
HeldSum(L, S, i, t, u) == SumFunctionOnSet(HeldOf(S, i, t, u), L)

(* A split gained what it made of the shares before it.                    *)
SplitRight(L, e) ==
    /\ Split(e.of)
    /\ LET held == HeldSum(L, Actions, e.instrument, e.at - 1, e.at - 1)
       IN e.quantity = AfterSplit(e.of, held) - held

(* A dividend accrued on the shares as its time begins, with the splits    *)
(* known when it was recorded.                                             *)
AccrualRight(L, splits, e) ==
    e.delta.dividends =
        Amount[e.of] * HeldSum(L, splits[e.of], Security[e.of], EffectiveAt[e.of] - 1, EffectiveAt[e.of])

AppliedSplits(b) == {s \in Actions : Split(s) /\ Recorded(b, s)}

(* The splits known when a was recorded are recorded ones, with each all   *)
(* those of its instrument before it.                                      *)
KnownSplits(b, a) ==
    /\ b.splits[a] \subseteq AppliedSplits(b)
    /\ \A s \in b.splits[a], r \in AppliedSplits(b) :
          Security[r] = Security[s] /\ EffectiveAt[r] < EffectiveAt[s] => r \in b.splits[a]

(* An order that can still be filled opens after what has been recorded.   *)
OpensAfter(b, order) ==
    IsLive(order) =>
        \A a \in Actions : Recorded(b, a) /\ Security[a] = order.instrument =>
            EffectiveAt[a] <= OpenAt(order.session)

(* What the replay rests on, of the books at time t: what has been         *)
(* recorded is of the past, its rows are right, and no order left can be   *)
(* filled before it.                                                       *)
OrdersOpen(b) == \A o \in OrderIds : OpensAfter(b, b.orders[o])
Replays(b, t) ==
    /\ \A a \in Actions : Recorded(b, a) => EffectiveAt[a] <= t
    /\ \A a \in AppliedSplits(b) : \E e \in b.ledger : e.kind = "split" /\ e.of = a
    /\ \A e \in b.ledger : e.kind = "split" => SplitRight(b.ledger, e)
    /\ \A e \in b.ledger : e.kind = "dividend_accrual" => AccrualRight(b.ledger, b.splits, e)
    /\ \A a \in Actions : KnownSplits(b, a)
    /\ OrdersOpen(b)

(* What a row counts for is an integer, and so are the sums of that.       *)
LEMMA HeldTerms ==
    ASSUME NEW L \in SUBSET LedgerRows, IsFiniteSet(L), NEW S, NEW i, NEW t, NEW u
    PROVE  /\ \A e \in L : /\ HeldOf(S, i, t, u)[e] = HeldTerm(e, S, i, t, u)
                           /\ HeldTerm(e, S, i, t, u) \in Int
           /\ Summable(HeldOf(S, i, t, u), L)
           /\ HeldSum(L, S, i, t, u) \in Int
<1>1. \A e \in L : /\ HeldOf(S, i, t, u)[e] = HeldTerm(e, S, i, t, u)
                   /\ HeldTerm(e, S, i, t, u) \in Int
  BY RowFields DEF HeldOf, HeldTerm
<1>2. Summable(HeldOf(S, i, t, u), L)
  BY <1>1 DEF Summable
<1> QED BY <1>1, <1>2, SumType DEF HeldSum

(* Rows that do not count change no sum.                                   *)
LEMMA HeldStays ==
    ASSUME NEW L \in SUBSET LedgerRows, IsFiniteSet(L), NEW M \in SUBSET LedgerRows, IsFiniteSet(M),
           L \subseteq M, NEW S, NEW i, NEW t, NEW u,
           \A e \in M \ L : ~Counts(e, S, i, t, u)
    PROVE  HeldSum(M, S, i, t, u) = HeldSum(L, S, i, t, u)
<1>1. \A e \in M \ L : HeldOf(S, i, t, u)[e] = 0
  BY HeldTerms DEF HeldTerm
<1>2. Summable(HeldOf(S, i, t, u), L)
  BY HeldTerms
<1>3. PICK g : g = HeldOf(S, i, t, u)
  OBVIOUS
<1> QED BY <1>1, <1>2, <1>3, SumFilter DEF HeldSum

(* Nor does what counts the same rows.                                     *)
LEMMA HeldSame ==
    ASSUME NEW L \in SUBSET LedgerRows, IsFiniteSet(L), NEW S, NEW i, NEW t, NEW u,
           NEW T, NEW v, NEW w,
           \A e \in L : HeldTerm(e, S, i, t, u) = HeldTerm(e, T, i, v, w)
    PROVE  HeldSum(L, S, i, t, u) = HeldSum(L, T, i, v, w)
<1>1. \A e \in L : HeldOf(S, i, t, u)[e] = HeldOf(T, i, v, w)[e]
  BY HeldTerms
<1> QED BY <1>1, SumSame DEF HeldSum

(* The rows of recorded actions.                                           *)
LEMMA ActionRows ==
    ASSUME NEW b, BookTypes(b)
    PROVE  /\ \A e \in b.ledger : e.kind = "split" =>
                 /\ e.of \in Actions /\ e.instrument = Security[e.of] /\ Recorded(b, e.of)
                 /\ e.at = EffectiveAt[e.of] /\ e.at \in Int
           /\ \A e \in b.ledger : e.kind = "dividend_accrual" =>
                 /\ e.of \in Actions /\ e.instrument = Security[e.of] /\ Recorded(b, e.of)
           /\ \A e \in b.ledger : e.kind \notin FillKinds \cup {"split"} => e.quantity = 0
           /\ \A e \in b.ledger : e.at \in Nat
<1>1. \A e \in b.ledger : e \in LedgerRows /\ RowFine(b, e)
  BY BookFields
<1>2. \A e \in b.ledger : e.at \in Nat
  BY <1>1, RowFields, BookAssumption DEF Times, CloseAt
<1> QED BY <1>1, <1>2 DEF RowFine, ActionKinds, FillKinds

(* The effective times are naturals after the first close.                 *)
LEMMA ActionTimes ==
    \A a \in Actions : EffectiveAt[a] \in Nat /\ 2 <= EffectiveAt[a] /\ EffectiveAt[a] <= Horizon
BY ActionAssumption, BookAssumption DEF CloseAt

(* A row that is no split and no accrual, and a fill only after what has   *)
(* been recorded.                                                          *)
Late(b, e) ==
    /\ e.kind \notin {"split", "dividend_accrual"}
    /\ e.kind \in FillKinds =>
          \A a \in Actions : Recorded(b, a) /\ Security[a] = e.instrument => EffectiveAt[a] <= e.at
LateRows(b, N) == \A e \in N : Late(b, e)

(* New rows that are no split and no accrual, and no fill before a         *)
(* recorded action, leave the replay right.                                *)
LEMMA RowsReplay ==
    ASSUME NEW b, BookTypes(b), NEW t, Replays(b, t), NEW c, BookTypes(c), NEW N,
           c.ledger = b.ledger \cup N, c.recorded = b.recorded, c.splits = b.splits,
           LateRows(b, N), OrdersOpen(c)
    PROVE  Replays(c, t)
<1>1. \A a \in Actions : Recorded(c, a) <=> Recorded(b, a)
  BY DEF Recorded
<1>2. AppliedSplits(c) = AppliedSplits(b)
  BY <1>1 DEF AppliedSplits
<1>3. PICK L : L = b.ledger /\ L \in SUBSET LedgerRows /\ IsFiniteSet(L)
  BY BookFields
<1>4. PICK M : M = c.ledger /\ M \in SUBSET LedgerRows /\ IsFiniteSet(M)
  BY BookFields
<1>5. L \subseteq M /\ \A e \in M \ L : Late(b, e)
  BY <1>3, <1>4 DEF LateRows
<1>6. ASSUME NEW e \in M, e.kind = "split" PROVE SplitRight(M, e)
  <2>1. e \in L /\ SplitRight(L, e)
    BY <1>3, <1>4, <1>5, <1>6 DEF Replays, Late
  <2>2. /\ e.of \in Actions /\ e.instrument = Security[e.of] /\ Recorded(b, e.of)
        /\ e.at = EffectiveAt[e.of] /\ e.at \in Int
    BY <1>3, <1>6, <2>1, ActionRows
  <2>3. \A r \in M \ L : ~Counts(r, Actions, e.instrument, e.at - 1, e.at - 1)
    <3> SUFFICES ASSUME NEW r \in M \ L, Counts(r, Actions, e.instrument, e.at - 1, e.at - 1) PROVE FALSE
      OBVIOUS
    <3>1. r.kind \in FillKinds /\ r.instrument = e.instrument /\ r.at <= e.at - 1
      BY <1>5 DEF Counts, Late
    <3>2. r.at \in Int /\ e.at <= r.at
      BY <1>4, <1>5, <2>2, <3>1, ActionRows DEF Late
    <3> QED BY <2>2, <3>1, <3>2
  <2>4. HeldSum(M, Actions, e.instrument, e.at - 1, e.at - 1)
          = HeldSum(L, Actions, e.instrument, e.at - 1, e.at - 1)
    BY <1>3, <1>4, <1>5, <2>3, HeldStays
  <2> QED BY <2>1, <2>4 DEF SplitRight
<1>7. ASSUME NEW e \in M, e.kind = "dividend_accrual" PROVE AccrualRight(M, c.splits, e)
  <2>1. e \in L /\ AccrualRight(L, b.splits, e)
    BY <1>3, <1>4, <1>5, <1>7 DEF Replays, Late
  <2>2. e.of \in Actions /\ e.instrument = Security[e.of] /\ Recorded(b, e.of)
    BY <1>3, <1>7, <2>1, ActionRows
  <2>3. PICK S, i, at : S = b.splits[e.of] /\ i = Security[e.of] /\ at = EffectiveAt[e.of]
    OBVIOUS
  <2>4. \A r \in M \ L : ~Counts(r, S, i, at - 1, at)
    <3> SUFFICES ASSUME NEW r \in M \ L, Counts(r, S, i, at - 1, at) PROVE FALSE
      OBVIOUS
    <3>1. r.kind \in FillKinds /\ r.instrument = i /\ r.at <= at - 1
      BY <1>5 DEF Counts, Late
    <3>2. r.at \in Int /\ at <= r.at /\ at \in Int
      BY <1>4, <1>5, <2>2, <2>3, <3>1, ActionRows, ActionTimes DEF Late
    <3> QED BY <3>1, <3>2
  <2>5. HeldSum(M, S, i, at - 1, at) = HeldSum(L, S, i, at - 1, at)
    BY <1>3, <1>4, <1>5, <2>4, HeldStays
  <2> QED BY <2>1, <2>3, <2>5 DEF AccrualRight
<1>8. \A a \in Actions : KnownSplits(c, a)
  BY <1>2 DEF Replays, KnownSplits
<1>9. /\ \A a \in Actions : Recorded(c, a) => EffectiveAt[a] <= t
      /\ \A a \in AppliedSplits(c) : \E e \in c.ledger : e.kind = "split" /\ e.of = a
  BY <1>1, <1>2 DEF Replays
<1> QED BY <1>4, <1>6, <1>7, <1>8, <1>9 DEF Replays

(* Orders that stay what they were, or are closed, open no earlier.        *)
LEMMA OrdersOpenAfter ==
    ASSUME NEW b, NEW c, NEW t, Replays(b, t), c.recorded = b.recorded, NEW S, QuietOrders(b, c, S)
    PROVE  OrdersOpen(c)
<1> SUFFICES ASSUME NEW o \in OrderIds, IsLive(c.orders[o]),
                    NEW a \in Actions, Recorded(c, a), Security[a] = c.orders[o].instrument
             PROVE  EffectiveAt[a] <= OpenAt(c.orders[o].session)
  BY DEF OrdersOpen, OpensAfter
<1>1. Recorded(b, a) /\ OpensAfter(b, b.orders[o])
  BY DEF Replays, OrdersOpen, Recorded
<1>2. /\ IsLive(b.orders[o]) /\ c.orders[o].instrument = b.orders[o].instrument
      /\ c.orders[o].session = b.orders[o].session
  BY DEF QuietOrders, QuietOrder, SameTarget
<1> QED BY <1>1, <1>2 DEF OpensAfter

(* Ending orders without a fill,                                           *)
LEMMA ReleaseReplays ==
    ASSUME NEW b, BookInv(b), NEW t \in Nat, Replays(b, t), NEW S \in SUBSET OrderIds,
           \A o \in S : b.orders[o].state \in LiveStates,
           NEW state \in {"expired", "rejected", "cancelled"},
           NEW c, c = Release(b, S, state)
    PROVE  Replays(c, t)
<1>1. BookTypes(b) /\ BookTypes(c)
  BY ReleaseKeeps DEF BookInv
<1>2. PICK N, freed, shares : Released(b, S, state, c, N, freed, shares)
  BY <1>1, ReleaseFields
<1>3. \A e \in N : e.kind = "release"
  BY <1>1, <1>2, ReleaseRows DEF Released
<1>4. Quiet(b, c, t, S)
  <2>1. \A o \in S : IsLive(b.orders[o])
    BY DEF IsLive
  <2> QED BY <1>1, <2>1, ReleaseIsQuiet
<1>5. b \in Books
  BY <1>1 DEF BookTypes
<1>6. c.ledger = b.ledger \cup N /\ c.recorded = b.recorded /\ c.splits = b.splits
  BY <1>2, <1>5 DEF Released, Books
<1>7. OrdersOpen(c)
  BY <1>4, <1>6, OrdersOpenAfter DEF Quiet
<1>8. LateRows(b, N)
  BY <1>3 DEF LateRows, Late, FillKinds
<1> QED BY <1>1, <1>6, <1>7, <1>8, RowsReplay

(* marking those that wait,                                                *)
LEMMA AdvanceReplays ==
    ASSUME NEW b, BookInv(b), NEW t, Replays(b, t), NEW S \in SUBSET OrderIds,
           \A o \in S : b.orders[o].state \in LiveStates,
           NEW c, c = Advance(b, S)
    PROVE  Replays(c, t)
<1>1. BookTypes(b) /\ BookTypes(c)
  BY AdvanceKeeps DEF BookInv
<1>2. c.ledger = b.ledger /\ c.recorded = b.recorded /\ c.splits = b.splits
  BY <1>1, AdvanceOrders
<1>3. Quiet(b, c, t, {})
  <2>1. \A o \in S : IsLive(b.orders[o])
    BY DEF IsLive
  <2> QED BY <1>1, <2>1, AdvanceIsQuiet
<1>4. OrdersOpen(c)
  BY <1>2, <1>3, OrdersOpenAfter DEF Quiet
<1>5. c.ledger = b.ledger \cup {}
  BY <1>2
<1>6. LateRows(b, {})
  BY DEF LateRows
<1> QED BY <1>1, <1>2, <1>4, <1>5, <1>6, RowsReplay

(* settling sales,                                                         *)
LEMMA SettleReplays ==
    ASSUME NEW b, BookInv(b), NEW t \in Nat, Replays(b, t), NEW through, NEW c, c = Settle(b, through)
    PROVE  Replays(c, t)
<1>1. BookTypes(b) /\ BookTypes(c)
  BY SettleKeeps DEF BookInv
<1>2. PICK D, N : Settling(b, c, D, N)
  BY <1>1, SettleFields
<1>3. \A e \in N : e.kind = "settlement"
  BY <1>1, <1>2, SettleRows DEF Settling
<1>4. Quiet(b, c, t, {})
  BY <1>1, SettleIsQuiet
<1>5. c.ledger = b.ledger \cup N /\ c.recorded = b.recorded /\ c.splits = b.splits
  BY <1>2 DEF Settling
<1>6. OrdersOpen(c)
  BY <1>4, <1>5, OrdersOpenAfter DEF Quiet
<1>7. LateRows(b, N)
  BY <1>3 DEF LateRows, Late, FillKinds
<1> QED BY <1>1, <1>5, <1>6, <1>7, RowsReplay

(* paying a dividend,                                                      *)
LEMMA PayReplays ==
    ASSUME NEW b, BookInv(b), NEW t \in Nat, Replays(b, t),
           NEW a \in Actions, Kind[a] = "dividend", Recorded(b, a),
           ~\E r \in b.ledger : r.kind = "dividend_payment" /\ r.of = a,
           NEW c, c = PayDividend(b, a)
    PROVE  Replays(c, t)
<1>1. BookTypes(b) /\ BookTypes(c)
  BY PayKeeps DEF BookInv
<1>2. PICK e, r : Paying(b, c, a, e, r)
  BY <1>1, PayFields
<1>3. r.kind = "dividend_payment"
  BY <1>2 DEF Paying, Row
<1>4. Quiet(b, c, t, {})
  BY <1>1, PayIsQuiet
<1>5. c.ledger = b.ledger \cup {r} /\ c.recorded = b.recorded /\ c.splits = b.splits
  BY <1>2 DEF Paying
<1>6. OrdersOpen(c)
  BY <1>4, <1>5, OrdersOpenAfter DEF Quiet
<1>7. LateRows(b, {r})
  BY <1>3 DEF LateRows, Late, FillKinds
<1> QED BY <1>1, <1>5, <1>6, <1>7, RowsReplay

(* placing an order for a session that opens later,                        *)
LEMMA ReserveReplays ==
    ASSUME NEW b, BookTypes(b), NEW t \in Int, Replays(b, t), NEW o \in OrderIds, NEW order,
           t < OpenAt(order.session), order.session \in Nat,
           NEW c, BookTypes(c), c = Reserve(b, o, order)
    PROVE  Replays(c, t)
<1>1. PICK r : r = Row("reserve", o, Delta(-order.cash, order.cash, 0, 0), order.instrument, 0, 0)
  OBVIOUS
<1>2. b \in Books
  BY DEF BookTypes
<1>3. /\ c.ledger = b.ledger \cup {r} /\ c.recorded = b.recorded /\ c.splits = b.splits
      /\ c.orders = [b.orders EXCEPT ![o] = order]
  BY <1>1, <1>2 DEF Reserve, Books
<1>4. LateRows(b, {r})
  BY <1>1 DEF Row, LateRows, Late, FillKinds
<1>5. ASSUME NEW n \in OrderIds PROVE OpensAfter(c, c.orders[n])
  <2>1. CASE n = o
    <3>1. c.orders[n] = order
      BY <1>3, <2>1, BookFields
    <3>2. \A a \in Actions : Recorded(c, a) => EffectiveAt[a] <= t /\ EffectiveAt[a] \in Int
      BY <1>3, ActionTimes DEF Replays, Recorded
    <3>3. OpenAt(order.session) \in Int
      BY DEF OpenAt
    <3>4. \A a \in Actions : Recorded(c, a) => EffectiveAt[a] <= OpenAt(order.session)
      BY <3>2, <3>3
    <3> QED BY <3>1, <3>4 DEF OpensAfter
  <2>2. CASE n # o
    <3>1. c.orders[n] = b.orders[n] /\ OpensAfter(b, b.orders[n])
      BY <1>3, <2>2, BookFields DEF Replays, OrdersOpen
    <3> QED BY <1>3, <3>1 DEF OpensAfter, Recorded
  <2> QED BY <2>1, <2>2
<1>6. OrdersOpen(c)
  BY <1>5 DEF OrdersOpen
<1> QED BY <1>3, <1>4, <1>6, RowsReplay

(* and filling one: it opens after all that was recorded.                  *)
LEMMA FillReplays ==
    ASSUME NEW b, BookTypes(b), NEW t, Replays(b, t), NEW o \in OrderIds, IsLive(b.orders[o]),
           NEW p, NEW q, NEW c, BookTypes(c), c = Fill(b, o, p, q)
    PROVE  Replays(c, t)
<1>1. PICK r, x, z, signed : Filling(b, o, p, q, c, r, x, z, signed)
  BY FillFields
<1>2. PICK order \in OrderRows : order = b.orders[o]
  BY BookFields
<1>3. /\ c.ledger = b.ledger \cup {r} /\ c.recorded = b.recorded /\ c.splits = b.splits
      /\ r.kind \in FillKinds /\ r.instrument = order.instrument /\ r.at = OpenAt(order.session)
  BY <1>1, <1>2 DEF Filling, Row, FillKinds
<1>4. Late(b, r)
  <2>1. OpensAfter(b, order)
    BY <1>2 DEF Replays, OrdersOpen
  <2> QED BY <1>2, <1>3, <2>1 DEF Late, OpensAfter, FillKinds
<1>5. PICK state \in {"partially_filled_cancelled", "filled"} :
         c.orders = [b.orders EXCEPT ![o] = Closed(order, state)]
  BY <1>1, <1>2 DEF Filling
<1>6. ASSUME NEW n \in OrderIds PROVE OpensAfter(c, c.orders[n])
  <2>1. CASE n = o
    <3>1. c.orders[n] = Closed(order, state)
      BY <1>5, <2>1, BookFields
    <3> QED BY <1>2, <3>1 DEF OpensAfter, IsLive, LiveStates, Closed, OrderRows
  <2>2. CASE n # o
    <3>1. c.orders[n] = b.orders[n] /\ OpensAfter(b, b.orders[n])
      BY <1>5, <2>2, BookFields DEF Replays, OrdersOpen
    <3> QED BY <1>3, <3>1 DEF OpensAfter, Recorded
  <2> QED BY <2>1, <2>2
<1>7. LateRows(b, {r})
  BY <1>4 DEF LateRows
<1>8. OrdersOpen(c)
  BY <1>6 DEF OrdersOpen
<1> QED BY <1>3, <1>7, <1>8, RowsReplay

(* Every order that can still be filled opens after a.                     *)
NothingBefore(b, a) ==
    \A o \in OrderIds : IsLive(b.orders[o]) /\ b.orders[o].instrument = Security[a] =>
        EffectiveAt[a] <= OpenAt(b.orders[o].session)

(* What a split finds is what was held before it: nothing else happened at *)
(* its time or later.                                                      *)
LEMMA SplitFinds ==
    ASSUME SplitsApart, NEW b, BookInv(b), NEW t, Replays(b, t), NEW a \in Actions,
           Split(a), ~Recorded(b, a), SplitFits(b, a)
    PROVE  HeldSum(b.ledger, Actions, Security[a], EffectiveAt[a] - 1, EffectiveAt[a] - 1)
             = b.positions[Security[a]].quantity
<1>1. PICK i, u : i = Security[a] /\ u = EffectiveAt[a] /\ i \in Instruments /\ u \in Nat
  BY ActionTimes, ActionAssumption
<1>2. PICK L : L = b.ledger
  OBVIOUS
<1>3. BookTypes(b) /\ L \in SUBSET LedgerRows /\ IsFiniteSet(L)
  BY <1>2, BookFields DEF BookInv
<1>4. ASSUME NEW e \in L PROVE HeldOf(Actions, i, u - 1, u - 1)[e] = QuantityIn(i)[e]
  <2>1. e \in LedgerRows /\ e.at \in Nat
    BY <1>2, <1>3, ActionRows
  <2>2. /\ HeldOf(Actions, i, u - 1, u - 1)[e] = HeldTerm(e, Actions, i, u - 1, u - 1)
        /\ QuantityIn(i)[e] = QuantityOf(e, i)
    BY <1>3, <2>1, HeldTerms, RowTerms
  <2>3. CASE e.instrument # i
    BY <2>2, <2>3 DEF HeldTerm, Counts, QuantityOf
  <2>4. CASE e.instrument = i /\ e.kind \in FillKinds
    <3>1. e.at < u
      BY <1>1, <1>2, <2>4 DEF SplitFits
    <3>2. Counts(e, Actions, i, u - 1, u - 1)
      BY <1>1, <2>1, <2>4, <3>1 DEF Counts
    <3> QED BY <2>2, <2>4, <3>2 DEF HeldTerm, QuantityOf
  <2>5. CASE e.instrument = i /\ e.kind = "split"
    <3>1. /\ e.of \in Actions /\ Security[e.of] = i /\ Recorded(b, e.of)
          /\ EffectiveAt[e.of] = e.at /\ e.at <= u
      BY <1>1, <1>2, <1>3, <2>5, ActionRows DEF SplitFits
    <3>2. Split(e.of)
      BY <1>2, <2>5 DEF Replays, SplitRight
    <3>3. e.at # u
      BY <1>1, <3>1, <3>2 DEF SplitsApart
    <3>4. Counts(e, Actions, i, u - 1, u - 1)
      BY <1>1, <2>1, <2>5, <3>1, <3>3 DEF Counts
    <3> QED BY <2>2, <2>5, <3>4 DEF HeldTerm, QuantityOf
  <2>6. CASE e.kind \notin FillKinds \cup {"split"}
    <3>1. e.quantity = 0
      BY <1>2, <1>3, <2>6, ActionRows
    <3> QED BY <2>2, <3>1 DEF HeldTerm, QuantityOf
  <2> QED BY <2>3, <2>4, <2>5, <2>6
<1>5. HeldSum(L, Actions, i, u - 1, u - 1) = QuantitySum(i, L)
  BY <1>3, <1>4, SumSame DEF HeldSum, QuantitySum
<1> QED BY <1>1, <1>2, <1>5 DEF BookInv, Balanced

(* What a dividend finds eligible is what was held as its time began.      *)
LEMMA DividendFinds ==
    ASSUME NEW b, BookInv(b), NEW t, Replays(b, t), NEW a \in Actions
    PROVE  HeldSum(b.ledger, AppliedSplits(b), Security[a], EffectiveAt[a] - 1, EffectiveAt[a])
             = Eligible(b, a)
<1>1. PICK i, u : i = Security[a] /\ u = EffectiveAt[a] /\ i \in Instruments /\ u \in Nat
  BY ActionTimes, ActionAssumption
<1>2. PICK L, S : L = b.ledger /\ S = AppliedSplits(b)
  OBVIOUS
<1>3. BookTypes(b) /\ L \in SUBSET LedgerRows /\ IsFiniteSet(L)
  BY <1>2, BookFields DEF BookInv
<1>4. ASSUME NEW e \in L PROVE HeldOf(S, i, u - 1, u)[e] = QuantityBefore(i, u)[e]
  <2>1. e \in LedgerRows /\ e.at \in Nat
    BY <1>2, <1>3, ActionRows
  <2>2. /\ HeldOf(S, i, u - 1, u)[e] = HeldTerm(e, S, i, u - 1, u)
        /\ QuantityBefore(i, u)[e] = OpeningOf(e, i, u)
    BY <1>3, <2>1, HeldTerms, RowTerms
  <2>3. CASE e.kind \in FillKinds
    <3>1. Counts(e, S, i, u - 1, u) <=> ComesBefore(e, i, u)
      BY <1>1, <2>1, <2>3 DEF Counts, ComesBefore, FillKinds
    <3> QED BY <2>2, <3>1 DEF HeldTerm, OpeningOf
  <2>4. CASE e.kind = "split"
    <3>1. e.of \in S
      BY <1>2, <1>3, <2>4, ActionRows DEF Replays, SplitRight, AppliedSplits
    <3>2. Counts(e, S, i, u - 1, u) <=> ComesBefore(e, i, u)
      BY <1>1, <2>1, <2>4, <3>1 DEF Counts, ComesBefore, FillKinds
    <3> QED BY <2>2, <3>2 DEF HeldTerm, OpeningOf
  <2>5. CASE e.kind \notin FillKinds \cup {"split"}
    <3>1. e.quantity = 0
      BY <1>2, <1>3, <2>5, ActionRows
    <3> QED BY <2>2, <3>1 DEF HeldTerm, OpeningOf
  <2> QED BY <2>3, <2>4, <2>5
<1>5. HeldSum(L, S, i, u - 1, u) = OpeningSum(i, u, L)
  BY <1>3, <1>4, SumSame DEF HeldSum, OpeningSum
<1> QED BY <1>1, <1>2, <1>5, EligibleIs

(* Applying a corporate action before which no order waits.                *)
LEMMA ApplyReplays ==
    ASSUME SplitsApart, NEW b, BookInv(b), NEW t \in Nat, Replays(b, t), NEW a \in Actions,
           EffectiveAt[a] <= t, ~Recorded(b, a), SplitFits(b, a), NothingBefore(b, a),
           NEW e \in Editions \ {"none"}, NEW c, c = ApplyCorporateAction(b, a, e)
    PROVE  Replays(c, t)
<1>1. PICK r, x, w, gained, cost : Applying(b, c, a, e, r, x, w, gained, cost)
  <2>1. BookTypes(b)
    BY DEF BookInv
  <2>2. PICK r, x, w, gained, cost :
           Applying(b, ApplyCorporateAction(b, a, e), a, e, r, x, w, gained, cost)
    BY <2>1, ApplyFields
  <2> QED BY <2>2
<1>2. BookTypes(b) /\ BookTypes(c)
  BY ApplyKeeps DEF BookInv
<1>3. PICK i, u : i = Security[a] /\ u = EffectiveAt[a] /\ i \in Instruments /\ u \in Nat
  BY ActionTimes, ActionAssumption
<1>4. /\ r.kind = (IF Split(a) THEN "split" ELSE "dividend_accrual") /\ r.of = a
      /\ r.instrument = i /\ r.at = u /\ r.quantity = gained /\ r.delta.dividends = w
  BY <1>1, <1>3 DEF Applying, Row, Delta
<1>5. /\ c.ledger = b.ledger \cup {r} /\ c.orders = b.orders
      /\ c.recorded = [b.recorded EXCEPT ![a] = e]
      /\ c.splits = [b.splits EXCEPT ![a] = AppliedSplits(b)]
  BY <1>1 DEF Applying, AppliedSplits
<1>6. \A s \in Actions : Recorded(c, s) <=> Recorded(b, s) \/ s = a
  BY <1>2, <1>5, BookFields DEF Recorded
<1>7. c.splits[a] = AppliedSplits(b) /\ \A s \in Actions \ {a} : c.splits[s] = b.splits[s]
  BY <1>2, <1>5, BookFields
<1>8. \A s \in AppliedSplits(c) : s \in AppliedSplits(b) \/ (s = a /\ Split(a))
  BY <1>6 DEF AppliedSplits
<1>9. PICK L, M : /\ L = b.ledger /\ L \in SUBSET LedgerRows /\ IsFiniteSet(L)
                  /\ M = c.ledger /\ M \in SUBSET LedgerRows /\ IsFiniteSet(M)
  BY <1>2, BookFields
<1>10. L \subseteq M /\ M = L \cup {r} /\ r \in M
  BY <1>5, <1>9
<1>11. \A s \in L : s.kind \in {"split", "dividend_accrual"} => s.of # a
  BY <1>2, <1>9, ActionRows
<1>12. \A s \in AppliedSplits(b) : Split(a) /\ Security[s] = i => EffectiveAt[s] <= u
  <2> SUFFICES ASSUME NEW s \in AppliedSplits(b), Split(a), Security[s] = i PROVE EffectiveAt[s] <= u
    OBVIOUS
  <2>1. PICK q \in b.ledger : q.kind = "split" /\ q.of = s
    BY DEF Replays
  <2>2. q.instrument = i /\ q.at = EffectiveAt[s]
    BY <1>2, <2>1, ActionRows
  <2> QED BY <1>3, <2>1, <2>2 DEF SplitFits
<1>13. \A s \in Actions : Recorded(c, s) => EffectiveAt[s] <= t
  BY <1>6 DEF Replays
<1>14. \A s \in AppliedSplits(c) : \E q \in c.ledger : q.kind = "split" /\ q.of = s
  BY <1>4, <1>5, <1>8 DEF Replays
<1>15. ASSUME NEW s \in M, s.kind = "split" PROVE SplitRight(M, s)
  <2>1. CASE s \in L
    <3>1. SplitRight(L, s) /\ s.at \in Nat
      BY <1>2, <1>9, <1>15, <2>1, ActionRows DEF Replays
    <3>2. ~Counts(r, Actions, s.instrument, s.at - 1, s.at - 1)
      <4> SUFFICES ASSUME Counts(r, Actions, s.instrument, s.at - 1, s.at - 1) PROVE FALSE
        OBVIOUS
      <4>1. Split(a) /\ s.instrument = i /\ u <= s.at - 1
        BY <1>4 DEF Counts, FillKinds
      <4>2. s.at <= u
        BY <1>3, <1>9, <1>15, <2>1, <4>1 DEF SplitFits
      <4> QED BY <1>3, <3>1, <4>1, <4>2
    <3>3. HeldSum(M, Actions, s.instrument, s.at - 1, s.at - 1)
            = HeldSum(L, Actions, s.instrument, s.at - 1, s.at - 1)
      <4>1. \A q \in M \ L : ~Counts(q, Actions, s.instrument, s.at - 1, s.at - 1)
        BY <1>10, <3>2
      <4> QED BY <1>9, <1>10, <4>1, HeldStays
    <3> QED BY <3>1, <3>3 DEF SplitRight
  <2>2. CASE s = r
    <3>1. Split(a)
      BY <1>4, <1>15, <2>2
    <3>2. ~Counts(r, Actions, i, u - 1, u - 1)
      BY <1>3, <1>4 DEF Counts, FillKinds
    <3>3. HeldSum(M, Actions, i, u - 1, u - 1) = HeldSum(L, Actions, i, u - 1, u - 1)
      <4>1. \A q \in M \ L : ~Counts(q, Actions, i, u - 1, u - 1)
        BY <1>10, <3>2
      <4> QED BY <1>9, <1>10, <4>1, HeldStays
    <3>4. HeldSum(L, Actions, i, u - 1, u - 1) = b.positions[i].quantity
      BY <1>3, <1>9, <3>1, SplitFinds
    <3>5. gained = AfterSplit(a, b.positions[i].quantity) - b.positions[i].quantity
      BY <1>1, <1>3, <3>1 DEF Applying
    <3> QED BY <1>4, <2>2, <3>1, <3>3, <3>4, <3>5 DEF SplitRight
  <2> QED BY <1>10, <2>1, <2>2
<1>16. ASSUME NEW s \in M, s.kind = "dividend_accrual" PROVE AccrualRight(M, c.splits, s)
  <2>1. CASE s \in L
    <3>1. s.of \in Actions \ {a} /\ AccrualRight(L, b.splits, s)
      BY <1>2, <1>9, <1>11, <1>16, <2>1, ActionRows DEF Replays
    <3>2. PICK S, j, v : S = b.splits[s.of] /\ j = Security[s.of] /\ v = EffectiveAt[s.of]
      OBVIOUS
    <3>3. a \notin S
      BY <3>1, <3>2 DEF Replays, KnownSplits, AppliedSplits
    <3>4. \A q \in M \ L : ~Counts(q, S, j, v - 1, v)
      BY <1>4, <1>10, <3>3 DEF Counts, FillKinds
    <3>5. HeldSum(M, S, j, v - 1, v) = HeldSum(L, S, j, v - 1, v)
      BY <1>9, <1>10, <3>4, HeldStays
    <3>6. c.splits[s.of] = S
      BY <1>7, <3>1, <3>2
    <3> QED BY <3>1, <3>2, <3>5, <3>6 DEF AccrualRight
  <2>2. CASE s = r
    <3>1. ~Split(a)
      BY <1>4, <1>16, <2>2
    <3>2. PICK S : S = AppliedSplits(b)
      OBVIOUS
    <3>3. \A q \in M \ L : ~Counts(q, S, i, u - 1, u)
      BY <1>4, <1>10, <3>1 DEF Counts, FillKinds
    <3>4. HeldSum(M, S, i, u - 1, u) = HeldSum(L, S, i, u - 1, u)
      BY <1>9, <1>10, <3>3, HeldStays
    <3>5. HeldSum(L, S, i, u - 1, u) = Eligible(b, a)
      BY <1>3, <1>9, <3>2, DividendFinds
    <3>6. w = Amount[a] * Eligible(b, a)
      BY <1>1, <3>1 DEF Applying
    <3> QED BY <1>3, <1>4, <1>7, <2>2, <3>2, <3>4, <3>5, <3>6 DEF AccrualRight
  <2> QED BY <1>10, <2>1, <2>2
<1>17. ASSUME NEW s \in Actions PROVE KnownSplits(c, s)
  <2>1. AppliedSplits(b) \subseteq AppliedSplits(c) /\ KnownSplits(b, s)
    BY <1>6 DEF AppliedSplits, Replays
  <2>2. c.splits[s] \subseteq AppliedSplits(b)
    BY <1>7, <2>1 DEF KnownSplits
  <2>3. ASSUME NEW p \in c.splits[s], NEW q \in AppliedSplits(c),
               Security[q] = Security[p], EffectiveAt[q] < EffectiveAt[p]
        PROVE  q \in c.splits[s]
    <3>1. q \in AppliedSplits(b)
      <4> SUFFICES ASSUME q = a, Split(a) PROVE FALSE
        BY <1>8
      <4>1. p \in Actions /\ EffectiveAt[p] <= u
        BY <1>3, <1>12, <2>2, <2>3 DEF AppliedSplits
      <4> QED BY <1>3, <2>3, <4>1, ActionTimes
    <3> QED BY <1>7, <2>1, <2>3, <3>1 DEF KnownSplits
  <2> QED BY <2>1, <2>2, <2>3 DEF KnownSplits
<1>18. OrdersOpen(c)
  <2> SUFFICES ASSUME NEW o \in OrderIds, IsLive(b.orders[o]), NEW s \in Actions, Recorded(c, s),
                      Security[s] = b.orders[o].instrument
               PROVE  EffectiveAt[s] <= OpenAt(b.orders[o].session)
    BY <1>5 DEF OrdersOpen, OpensAfter
  <2>1. CASE s = a
    BY <2>1 DEF NothingBefore
  <2>2. CASE Recorded(b, s)
    BY <2>2 DEF Replays, OrdersOpen, OpensAfter
  <2> QED BY <1>6, <2>1, <2>2
<1> QED BY <1>9, <1>13, <1>14, <1>15, <1>16, <1>17, <1>18 DEF Replays

(* Time passes.                                                            *)
LEMMA LaterReplays ==
    ASSUME NEW b, NEW t \in Int, Replays(b, t), NEW u \in Int, t <= u
    PROVE  Replays(b, u)
<1>1. \A a \in Actions : Recorded(b, a) => EffectiveAt[a] <= u
  BY ActionTimes DEF Replays
<1> QED BY <1>1 DEF Replays

(* A split that cancels what opens after it.                               *)
LEMMA CancelledReplays ==
    ASSUME BookInv(books), NEW t \in Nat, Replays(books, t), NEW a \in Actions,
           NEW c, c = Cancelled(books, a)
    PROVE  Replays(c, t)
<1>1. PICK S : S = {o \in OrderIds : /\ books.orders[o].state \in {"pending", "awaiting_bar"}
                                     /\ books.orders[o].instrument = Security[a]
                                     /\ EffectiveAt[a] <= OpenAt(books.orders[o].session)}
  OBVIOUS
<1>2. S \in SUBSET OrderIds /\ \A o \in S : books.orders[o].state \in LiveStates
  BY <1>1 DEF LiveStates
<1>3. c = Release(books, S, "cancelled")
  BY <1>1 DEF Cancelled
<1> QED BY <1>2, <1>3, ReleaseReplays

(* Reconciling one action leaves the replay right, whichever of its parts  *)
(* are due.                                                                *)
LEMMA ReconciledReplays ==
    ASSUME SplitsApart, BookInv(books), NEW t \in Nat, Replays(books, t), NEW a \in Actions,
           EffectiveAt[a] <= t, edition[a] \in Editions \ {"none"}
    PROVE  Replays(Reconciled(books, a).books, t)
<1>1. CASE RevisionUnreviewed(books, a)
  <2>1. Reconciled(books, a).books = books
    BY <1>1 DEF Reconciled
  <2> QED BY <2>1
<1>2. CASE ~RevisionUnreviewed(books, a)
  <2>1. PICK c : c = IF Split(a) /\ ~Recorded(books, a) THEN Cancelled(books, a) ELSE books
    OBVIOUS
  <2>2. BookInv(c) /\ BookTypes(c) /\ Replays(c, t)
    <3>1. CASE Split(a) /\ ~Recorded(books, a)
      BY <2>1, <3>1, CancelledKeeps, CancelledReplays DEF BookInv
    <3>2. CASE ~(Split(a) /\ ~Recorded(books, a))
      BY <2>1, <3>2 DEF BookInv
    <3> QED BY <3>1, <3>2
  <2>3. PICK stuck \in BOOLEAN : stuck = (~Recorded(c, a) /\ CannotApply(c, a))
    OBVIOUS
  <2>4. PICK d : d = IF Recorded(c, a) THEN c ELSE ApplyCorporateAction(c, a, edition[a])
    OBVIOUS
  <2>5. PICK z : z = IF PaymentDue(d, a, job.at) THEN PayDividend(d, a) ELSE d
    OBVIOUS
  <2>6. Reconciled(books, a).books = IF stuck THEN c ELSE z
    BY <1>2, <2>1, <2>3, <2>4, <2>5, Zenon DEF Reconciled
  <2>7. CASE stuck
    BY <2>2, <2>6, <2>7
  <2>8. CASE ~stuck
    <3>1. BookInv(d) /\ Replays(d, t)
      <4>1. CASE Recorded(c, a)
        BY <2>2, <2>4, <4>1
      <4>2. CASE ~Recorded(c, a)
        <5>1. d = ApplyCorporateAction(c, a, edition[a])
          BY <2>4, <4>2
        <5>2. ~CannotApply(c, a)
          BY <2>3, <2>8, <4>2
        <5>3. SplitFits(c, a)
          <6>1. Split(a) => /\ c.positions[Security[a]].reserved = 0
                            /\ ~InventoryChangedSince(c, Security[a], EffectiveAt[a])
            BY <5>2 DEF CannotApply
          <6>2. EffectiveAt[a] \in Nat /\ \A r \in c.ledger : r.at \in Nat
            BY <2>2, ActionTimes, ActionRows
          <6> QED BY <6>1, <6>2 DEF SplitFits, InventoryChangedSince, FillKinds
        <5>4. NothingBefore(c, a)
          <6>1. ~PriorOpeningUnresolved(c, a)
            BY <5>2 DEF CannotApply
          <6>2. EffectiveAt[a] \in Nat /\ \A o \in OrderIds : OpenAt(c.orders[o].session) \in Nat
            BY <2>2, BookFields, OrderFields, ActionTimes, BookAssumption DEF OpenAt, Sessions
          <6> QED BY <6>1, <6>2 DEF NothingBefore, PriorOpeningUnresolved, IsLive, LiveStates
        <5>5. BookInv(d)
          BY <2>2, <4>2, <5>1, <5>3, ApplyKeeps
        <5>6. Replays(d, t)
          BY <2>2, <4>2, <5>1, <5>3, <5>4, ApplyReplays
        <5> QED BY <5>5, <5>6
      <4> QED BY <4>1, <4>2
    <3>2. Replays(z, t)
      <4>1. CASE PaymentDue(d, a, job.at)
        <5>1. z = PayDividend(d, a)
          BY <2>5, <4>1
        <5>2. /\ Kind[a] = "dividend" /\ Recorded(d, a)
              /\ ~\E r \in d.ledger : r.kind = "dividend_payment" /\ r.of = a
          BY <4>1 DEF PaymentDue
        <5> QED BY <3>1, <5>1, <5>2, PayReplays
      <4>2. CASE ~PaymentDue(d, a, job.at)
        BY <2>5, <3>1, <4>2
      <4> QED BY <4>1, <4>2
    <3> QED BY <2>6, <2>8, <3>2
  <2> QED BY <2>7, <2>8
<1> QED BY <1>1, <1>2

(* A new account has recorded nothing.                                     *)
LEMMA InitReplays ==
    ASSUME Init
    PROVE  Replays(books, clock)
<1>1. /\ \A a \in Actions : ~Recorded(books, a) /\ books.splits[a] = {}
      /\ \A e \in books.ledger : e.kind = "initial_credit"
      /\ \A o \in OrderIds : ~IsLive(books.orders[o])
  BY DEF Init, NewBooks, Row, NoOrder, Recorded, IsLive, LiveStates
<1>2. AppliedSplits(books) = {}
  BY <1>1 DEF AppliedSplits
<1>3. \A a \in Actions : KnownSplits(books, a)
  BY <1>1 DEF KnownSplits
<1>4. OrdersOpen(books)
  BY <1>1 DEF OrdersOpen, OpensAfter
<1> QED BY <1>1, <1>2, <1>3, <1>4 DEF Replays

(* Each step of the account leaves the replay right.                       *)
LEMMA NextReplays ==
    ASSUME SplitsApart, AccountInv, AccountInv', Replays(books, clock), [Next]_vars
    PROVE  Replays(books', clock')
<1>1. /\ BookInv(books) /\ BookTypes(books) /\ BookTypes(books') /\ clock \in Nat /\ clock \in Int
  BY Clocks DEF AccountInv, BooksInv, BookInv
<1>2. CASE books' = books /\ clock' = clock
  BY <1>2
<1>3. CASE Tick
  <2>1. books' = books /\ clock' \in Int /\ clock <= clock'
    BY <1>1, <1>3 DEF Tick
  <2> QED BY <1>1, <2>1, LaterReplays
<1>4. ASSUME NEW o \in OrderIds, NEW side \in {"buy", "sell"}, NEW i \in Instruments,
             NEW q \in Quantities, NEW c \in Capacities, PlaceOrder(o, side, i, q, c)
      PROVE  Replays(books', clock')
  <2>1. PICK k : k = CHOOSE n \in 0 .. Last + 1 :
                        OpenAt(n) > clock /\ \A m \in 0 .. n - 1 : OpenAt(m) <= clock
    OBVIOUS
  <2>2. k \in 0 .. Last + 1 /\ OpenAt(k) > clock
    BY <2>1, NextSession DEF AccountInv
  <2>3. k \in Nat /\ clock < OpenAt(k)
    BY <1>1, <2>2 DEF OpenAt
  <2>4. PICK order : /\ order.session = k
                     /\ books' = Reserve(books, o, order) /\ clock' = clock
    <3>1. PICK order : order = [state |-> "pending", side |-> side, instrument |-> i, quantity |-> q,
                                capacity |-> c, session |-> k,
                                cash |-> IF side = "buy" THEN PurchaseCost(Price[i][Latest], q) ELSE 0,
                                shares |-> IF side = "sell" THEN q ELSE 0]
      OBVIOUS
    <3>2. books' = Reserve(books, o, order) /\ clock' = clock
      BY <1>4, <2>1, <3>1, Zenon DEF PlaceOrder
    <3>3. order.session = k
      BY <3>1
    <3> QED BY <3>2, <3>3
  <2> QED BY <1>1, <2>3, <2>4, ReserveReplays
<1>5. ASSUME NEW o \in OrderIds, CancelOrder(o) PROVE Replays(books', clock')
  <2>1. /\ books' = Advance(books, {o}) \/ books' = Release(books, {o}, "cancelled")
        /\ clock' = clock /\ {o} \in SUBSET OrderIds
        /\ \A r \in {o} : books.orders[r].state \in LiveStates
    BY <1>5 DEF CancelOrder, Order, LiveStates
  <2> QED BY <1>1, <2>1, AdvanceReplays, ReleaseReplays
<1>6. ASSUME NEW buysOnly \in BOOLEAN, CancelBeforeOpen(buysOnly) PROVE Replays(books', clock')
  <2>1. PICK pending : pending = {o \in OrderIds : Order(o).state = "pending"}
    OBVIOUS
  <2>2. PICK freed : freed = {o \in pending \ Due : buysOnly => Order(o).side = "buy"}
    OBVIOUS
  <2>3. PICK opened : opened = pending \cap Due
    OBVIOUS
  <2>4. PICK m : m = Advance(books, opened)
    OBVIOUS
  <2>5. books' = Release(m, freed, "cancelled") /\ clock' = clock
    BY <1>6, <2>1, <2>2, <2>3, <2>4 DEF CancelBeforeOpen
  <2>6. /\ opened \in SUBSET OrderIds /\ freed \in SUBSET OrderIds /\ freed \cap opened = {}
        /\ \A o \in opened \cup freed : books.orders[o].state \in LiveStates
    BY <2>1, <2>2, <2>3 DEF Order, LiveStates
  <2>7. BookInv(m) /\ Replays(m, clock)
    BY <1>1, <2>4, <2>6, AdvanceKeeps, AdvanceReplays
  <2>8. \A o \in OrderIds \ opened : m.orders[o] = books.orders[o]
    BY <1>1, <2>4, <2>6, AdvanceOrders
  <2>9. \A o \in freed : m.orders[o].state \in LiveStates
    BY <2>6, <2>8
  <2> QED BY <1>1, <2>5, <2>6, <2>7, <2>9, ReleaseReplays
<1>7. ASSUME NEW o \in OrderIds, AwaitBar(o) PROVE Replays(books', clock')
  <2>1. books' = Advance(books, {o}) /\ clock' = clock /\ Upcoming(o)
    BY <1>7 DEF AwaitBar, Handled
  <2>2. {o} \in SUBSET OrderIds /\ \A r \in {o} : books.orders[r].state \in LiveStates
    BY <2>1, UpcomingOrder
  <2> QED BY <1>1, <2>1, <2>2, AdvanceReplays
<1>8. ASSUME NEW o \in OrderIds, ExpireOrder(o) \/ RejectOrder(o) PROVE Replays(books', clock')
  <2>1. PICK state \in {"expired", "rejected", "cancelled"} : books' = Release(books, {o}, state)
    BY <1>8 DEF ExpireOrder, RejectOrder
  <2>2. clock' = clock /\ Upcoming(o)
    BY <1>8 DEF ExpireOrder, RejectOrder, Handled
  <2>3. {o} \in SUBSET OrderIds /\ \A r \in {o} : books.orders[r].state \in LiveStates
    BY <2>2, UpcomingOrder
  <2> QED BY <1>1, <2>1, <2>2, <2>3, ReleaseReplays
<1>9. ASSUME NEW o \in OrderIds, FillOrder(o) PROVE Replays(books', clock')
  <2>1. PICK p, q : books' = Fill(books, o, p, q)
    BY <1>9 DEF FillOrder
  <2>2. clock' = clock /\ Upcoming(o)
    BY <1>9 DEF FillOrder, Handled
  <2>3. IsLive(books.orders[o])
    BY <2>2, UpcomingOrder
  <2> QED BY <1>1, <2>1, <2>2, <2>3, FillReplays
<1>10. CASE BeginReconcile
  <2>1. clock' = clock /\ \E u : books' = Settle(books, u)
    BY <1>10 DEF BeginReconcile
  <2> QED BY <1>1, <2>1, SettleReplays
<1>11. ASSUME NEW a \in Actions, ReconcileAction(a) PROVE Replays(books', clock')
  <2>1. /\ job.name = "reconcile" /\ a \in job.todo /\ books' = Reconciled(books, a).books
        /\ clock' = clock
    BY <1>11 DEF ReconcileAction
  <2>2. edition[a] \in Editions \ {"none"} /\ EffectiveAt[a] <= clock
    BY <2>1 DEF AccountInv, JobFine, WorldFine, Published
  <2> QED BY <1>1, <2>1, <2>2, ReconciledReplays
<1>12. CASE \/ \E i \in Instruments, k \in Sessions : BarArrives(i, k)
            \/ \E a \in Actions, e \in Editions : Publish(a, e)
            \/ BeginExecute \/ SaveNAV \/ UNCHANGED vars
  <2>1. books' = books /\ clock' = clock
    BY <1>12 DEF BarArrives, Publish, BeginExecute, SaveNAV, vars
  <2> QED BY <1>2, <2>1
<1> QED BY <1>3, <1>4, <1>5, <1>6, <1>7, <1>8, <1>9, <1>10, <1>11, <1>12 DEF Next

(* So the replay is right at all times.                                    *)
LEMMA ReplaysAlways ==
    ASSUME SplitsApart
    PROVE  Spec => []Replays(books, clock)
<1>1. Init => Replays(books, clock)
  BY InitReplays
<1>2. AccountInv /\ AccountInv' /\ Replays(books, clock) /\ [Next]_vars => Replays(books, clock)'
  BY NextReplays
<1> QED BY <1>1, <1>2, AccountAlways, PTL DEF Spec

-------------------------------------------------------------------------------
(* The replay as its parts: the shares after the splits of time u, and     *)
(* what the fills of that time bring.                                      *)
SplitsAt(i, S, u) == {a \in S : Security[a] = i /\ EffectiveAt[a] = u}
Reopened(i, S, u, q) ==
    IF SplitsAt(i, S, u) = {} THEN q ELSE AfterSplit(CHOOSE a \in SplitsAt(i, S, u) : TRUE, q)
TradesAt(trades, i, u) == {e \in trades : e.instrument = i /\ e.at = u}
BoughtAt(trades, i, u) == SumFunction([e \in TradesAt(trades, i, u) |-> e.quantity])
ReplayStep(h, trades, i, S, u) ==
    Reopened(i, S, u, IF u = 0 THEN 0 ELSE h[u - 1]) + BoughtAt(trades, i, u)

(* Replayed is the function these steps define.                            *)
LEMMA ReplayUnfolds ==
    ASSUME NEW trades, NEW i, NEW S, NEW t
    PROVE  Replayed(trades, i, S, t)
             = (CHOOSE h : h = [u \in Times |-> ReplayStep(h, trades, i, S, u)])[t]
BY DEF Replayed, ReplayStep, Reopened, SplitsAt, BoughtAt, TradesAt

(* And the only one: what follows the steps is what Replayed returns.      *)
LEMMA ReplayUnique ==
    ASSUME NEW trades, NEW i, NEW S, NEW w, w = [u \in Times |-> w[u]],
           \A u \in Times : w[u] = ReplayStep(w, trades, i, S, u),
           NEW t \in Times
    PROVE  Replayed(trades, i, S, t) = w[t]
<1>1. PICK h : h = CHOOSE g : g = [u \in Times |-> ReplayStep(g, trades, i, S, u)]
  OBVIOUS
<1>2. w = [u \in Times |-> ReplayStep(w, trades, i, S, u)]
  OBVIOUS
<1>3. h = [u \in Times |-> ReplayStep(h, trades, i, S, u)]
  BY <1>1, <1>2, Zenon
<1>4. \A u \in Times : h[u] = ReplayStep(h, trades, i, S, u)
  BY <1>3
<1>5. ASSUME h[t] # w[t] PROVE FALSE
  <2>1. PICK B : B = {u \in Times : h[u] # w[u]}
    OBVIOUS
  <2>2. B \in SUBSET Nat /\ B # {}
    BY <1>5, <2>1 DEF Times
  <2>3. PICK m \in B : \A u \in B : m <= u
    BY <2>2, MinIs
  <2>4. m \in Times /\ m \in Nat /\ h[m] # w[m]
    BY <2>1, <2>3 DEF Times
  <2>5. (IF m = 0 THEN 0 ELSE h[m - 1]) = (IF m = 0 THEN 0 ELSE w[m - 1])
    <3> SUFFICES ASSUME m # 0 PROVE h[m - 1] = w[m - 1]
      OBVIOUS
    <3>1. m - 1 \in Times /\ m - 1 \notin B
      BY <2>3, <2>4, BookAssumption DEF Times, CloseAt
    <3> QED BY <2>1, <3>1
  <2>6. ReplayStep(h, trades, i, S, m) = ReplayStep(w, trades, i, S, m)
    BY <2>5 DEF ReplayStep
  <2> QED BY <1>4, <2>4, <2>6
<1> QED BY <1>1, <1>5, ReplayUnfolds

(* Recorded splits, and with each all those of its instrument before it.   *)
Complete(b, S) ==
    /\ S \subseteq AppliedSplits(b)
    /\ \A s \in S, r \in AppliedSplits(b) :
          Security[r] = Security[s] /\ EffectiveAt[r] < EffectiveAt[s] => r \in S

(* Of the shares held at u, some are bought at u.                          *)
LEMMA HeldAfterFills ==
    ASSUME NEW b, BookTypes(b), NEW S, NEW i, NEW u \in Nat
    PROVE  /\ BoughtAt(FillRows(b), i, u) \in Int
           /\ HeldSum(b.ledger, S, i, u, u)
                = HeldSum(b.ledger, S, i, u - 1, u) + BoughtAt(FillRows(b), i, u)
<1>1. PICK L, T : L = b.ledger /\ T = TradesAt(FillRows(b), i, u)
  OBVIOUS
<1>2. L \in SUBSET LedgerRows /\ IsFiniteSet(L) /\ T \in SUBSET L /\ IsFiniteSet(T)
  <2>1. T \in SUBSET L
    BY <1>1 DEF TradesAt, FillRows
  <2> QED BY <1>1, <2>1, BookFields, FS_Subset
<1>3. \A e \in L : e.at \in Nat /\ (e \in T <=> e.kind \in FillKinds /\ e.instrument = i /\ e.at = u)
  BY <1>1, ActionRows DEF TradesAt, FillRows
<1>4. PICK f, g : f = HeldOf(S, i, u, u) /\ g = HeldOf(S, i, u - 1, u)
  OBVIOUS
<1>5. Summable(f, L) /\ Summable(g, L)
  BY <1>2, <1>4, HeldTerms
<1>6. \A e \in T : f[e] = e.quantity /\ g[e] = 0
  <2> SUFFICES ASSUME NEW e \in T PROVE f[e] = e.quantity /\ g[e] = 0
    OBVIOUS
  <2>1. Counts(e, S, i, u, u) /\ ~Counts(e, S, i, u - 1, u)
    BY <1>2, <1>3 DEF Counts, FillKinds
  <2> QED BY <1>2, <1>4, <2>1, HeldTerms DEF HeldTerm
<1>7. \A e \in L \ T : f[e] = g[e]
  <2> SUFFICES ASSUME NEW e \in L \ T PROVE f[e] = g[e]
    OBVIOUS
  <2>1. Counts(e, S, i, u, u) <=> Counts(e, S, i, u - 1, u)
    BY <1>3 DEF Counts
  <2> QED BY <1>2, <1>4, <2>1, HeldTerms DEF HeldTerm
<1>8. /\ SumFunctionOnSet(f, L) = SumFunctionOnSet(f, T) + SumFunctionOnSet(f, L \ T)
      /\ SumFunctionOnSet(f, T) \in Int /\ SumFunctionOnSet(f, L \ T) \in Int
  BY <1>2, <1>5, SumSplit
<1>9. SumFunctionOnSet(g, L) = SumFunctionOnSet(f, L \ T)
  <2>1. PICK R : R = L \ T
    OBVIOUS
  <2>2. R \in SUBSET L /\ Summable(f, R) /\ L \ R = T
    BY <1>2, <1>5, <2>1 DEF Summable
  <2>3. /\ \A e \in R : g[e] = f[e]
        /\ \A e \in L \ R : g[e] = 0
    BY <1>6, <1>7, <2>1, <2>2
  <2>4. SumFunctionOnSet(g, L) = SumFunctionOnSet(f, R)
    BY <1>2, <2>2, <2>3, SumFilter
  <2> QED BY <2>1, <2>4
<1>10. BoughtAt(FillRows(b), i, u) = SumFunctionOnSet(f, T)
  <2>1. PICK q : q = [e \in T |-> e.quantity]
    OBVIOUS
  <2>2. \A e \in T : q[e] = f[e]
    BY <1>6, <2>1
  <2>3. SumFunctionOnSet(q, T) = SumFunctionOnSet(f, T)
    BY <1>2, <2>2, SumSame
  <2> QED BY <1>1, <2>1, <2>3 DEF BoughtAt, SumFunction
<1> QED BY <1>1, <1>4, <1>8, <1>9, <1>10 DEF HeldSum

(* What is held after the splits of u is what those made of what was held  *)
(* before.                                                                 *)
LEMMA HeldAfterSplits ==
    ASSUME SplitsApart, NEW b, BookTypes(b), NEW t, Replays(b, t), NEW S, Complete(b, S),
           NEW i, NEW u \in Nat
    PROVE  HeldSum(b.ledger, S, i, u - 1, u)
             = Reopened(i, S, u, HeldSum(b.ledger, S, i, u - 1, u - 1))
<1>1. PICK L : L = b.ledger /\ L \in SUBSET LedgerRows /\ IsFiniteSet(L)
  BY BookFields
<1>2. \A e \in L : /\ e.at \in Nat
                   /\ e.kind = "split" => /\ e.of \in AppliedSplits(b) /\ e.instrument = Security[e.of]
                                          /\ e.at = EffectiveAt[e.of]
  BY <1>1, ActionRows DEF Replays, SplitRight, AppliedSplits
<1>3. CASE SplitsAt(i, S, u) = {}
  <2>1. ASSUME NEW e \in L PROVE HeldTerm(e, S, i, u - 1, u) = HeldTerm(e, S, i, u - 1, u - 1)
    <3>1. Counts(e, S, i, u - 1, u) <=> Counts(e, S, i, u - 1, u - 1)
      <4>1. ~(e.kind = "split" /\ e.of \in S /\ e.instrument = i /\ e.at = u)
        BY <1>2, <1>3 DEF SplitsAt
      <4> QED BY <1>2, <4>1 DEF Counts
    <3> QED BY <3>1 DEF HeldTerm
  <2> QED BY <1>1, <1>3, <2>1, HeldSame DEF Reopened
<1>4. CASE SplitsAt(i, S, u) # {}
  <2>1. PICK a : a = CHOOSE s \in SplitsAt(i, S, u) : TRUE
    OBVIOUS
  <2>2. /\ a \in S /\ a \in AppliedSplits(b) /\ a \in Actions /\ Split(a)
        /\ Security[a] = i /\ EffectiveAt[a] = u
    BY <1>4, <2>1 DEF SplitsAt, Complete, AppliedSplits
  <2>3. PICK e \in L : e.kind = "split" /\ e.of = a
    BY <1>1, <2>2 DEF Replays
  <2>4. e.instrument = i /\ e.at = u /\ SplitRight(L, e) /\ e \in LedgerRows /\ e.quantity \in Int
    BY <1>1, <1>2, <2>2, <2>3, RowFields DEF Replays
  <2>5. HeldSum(L, Actions, i, u - 1, u - 1) = HeldSum(L, S, i, u - 1, u - 1)
    <3>1. ASSUME NEW r \in L
          PROVE  HeldTerm(r, Actions, i, u - 1, u - 1) = HeldTerm(r, S, i, u - 1, u - 1)
      <4>1. r.kind = "split" /\ r.instrument = i /\ r.at <= u - 1 => r.of \in S /\ r.of \in Actions
        BY <1>2, <2>2 DEF Complete, AppliedSplits
      <4>2. r.kind = "split" => r.of \in Actions
        BY <1>2 DEF AppliedSplits
      <4>3. Counts(r, Actions, i, u - 1, u - 1) <=> Counts(r, S, i, u - 1, u - 1)
        BY <4>1, <4>2 DEF Counts
      <4> QED BY <4>3 DEF HeldTerm
    <3> QED BY <1>1, <3>1, HeldSame
  <2>6. PICK f, g : f = HeldOf(S, i, u - 1, u - 1) /\ g = HeldOf(S, i, u - 1, u)
    OBVIOUS
  <2>7. Summable(f, L) /\ f[e] = 0 /\ g[e] = e.quantity
    <3>1. ~Counts(e, S, i, u - 1, u - 1) /\ Counts(e, S, i, u - 1, u)
      BY <2>2, <2>3, <2>4 DEF Counts, FillKinds
    <3> QED BY <1>1, <2>6, <3>1, HeldTerms DEF HeldTerm
  <2>8. ASSUME NEW r \in L \ {e} PROVE g[r] = f[r]
    <3>1. ~(r.kind = "split" /\ r.of \in S /\ r.instrument = i /\ r.at = u)
      <4> SUFFICES ASSUME r.kind = "split", r.of \in S, r.instrument = i, r.at = u PROVE FALSE
        OBVIOUS
      <4>1. r.of \in Actions /\ Split(r.of) /\ Security[r.of] = i /\ EffectiveAt[r.of] = u
        BY <1>2 DEF AppliedSplits
      <4>2. r.of = a
        BY <2>2, <4>1 DEF SplitsApart
      <4> QED BY <1>1, <2>3, <4>2 DEF BookTypes, KeysApart
    <3>2. Counts(r, S, i, u - 1, u) <=> Counts(r, S, i, u - 1, u - 1)
      BY <1>2, <3>1 DEF Counts
    <3> QED BY <1>1, <2>6, <3>2, HeldTerms DEF HeldTerm
  <2>9. SumFunctionOnSet(g, L) = SumFunctionOnSet(f, L) - f[e] + g[e]
    BY <1>1, <2>4, <2>7, <2>8, SumChange
  <2>10. SumFunctionOnSet(f, L) \in Int
    BY <1>1, <2>7, SumType
  <2>11. PICK q : q = SumFunctionOnSet(f, L) /\ q \in Int
    BY <2>10
  <2>12. e.quantity = AfterSplit(a, q) - q
    BY <2>3, <2>4, <2>5, <2>6, <2>11 DEF SplitRight, HeldSum
  <2>13. AfterSplit(a, q) \in Int
    BY <2>2, <2>11, ActionAssumption DEF AfterSplit
  <2>14. SumFunctionOnSet(g, L) = AfterSplit(a, q)
    BY <2>4, <2>7, <2>9, <2>11, <2>12, <2>13
  <2> QED BY <1>1, <1>4, <2>1, <2>6, <2>11, <2>14 DEF Reopened, HeldSum
<1> QED BY <1>3, <1>4

(* Nothing is held before time 0.                                          *)
LEMMA HeldFromNothing ==
    ASSUME NEW b, BookTypes(b), NEW S, NEW i
    PROVE  HeldSum(b.ledger, S, i, -1, -1) = 0
<1>1. PICK L, v : L = b.ledger /\ L \in SUBSET LedgerRows /\ IsFiniteSet(L) /\ v = -1
  BY BookFields
<1>2. \A e \in L : HeldOf(S, i, v, v)[e] = 0
  <2> SUFFICES ASSUME NEW e \in L PROVE HeldOf(S, i, v, v)[e] = 0
    OBVIOUS
  <2>1. e.at \in Nat
    BY <1>1, ActionRows
  <2>2. ~Counts(e, S, i, v, v)
    BY <1>1, <2>1 DEF Counts
  <2> QED BY <1>1, <2>2, HeldTerms DEF HeldTerm
<1>3. SumFunctionOnSet(HeldOf(S, i, v, v), L) = 0
  <2>1. PICK f : f = HeldOf(S, i, v, v)
    OBVIOUS
  <2> QED BY <1>1, <1>2, <2>1, SumZero
<1> QED BY <1>1, <1>3 DEF HeldSum

(* So the replay of the fills and splits in their order is a sum over the  *)
(* ledger, whatever the order of its rows.                                 *)
LEMMA ReplayIs ==
    ASSUME SplitsApart, NEW b, BookTypes(b), NEW t, Replays(b, t), NEW S, Complete(b, S), NEW i,
           NEW v \in Times
    PROVE  Replayed(FillRows(b), i, S, v) = HeldSum(b.ledger, S, i, v, v)
<1>1. PICK w : w = [u \in Times |-> HeldSum(b.ledger, S, i, u, u)]
  OBVIOUS
<1>2. ASSUME NEW u \in Times PROVE w[u] = ReplayStep(w, FillRows(b), i, S, u)
  <2>1. u \in Nat
    BY DEF Times
  <2>2. PICK before : before = HeldSum(b.ledger, S, i, u - 1, u - 1)
    OBVIOUS
  <2>3. HeldSum(b.ledger, S, i, u, u) = Reopened(i, S, u, before) + BoughtAt(FillRows(b), i, u)
    <3>1. HeldSum(b.ledger, S, i, u, u) = HeldSum(b.ledger, S, i, u - 1, u) + BoughtAt(FillRows(b), i, u)
      BY <2>1, HeldAfterFills
    <3>2. HeldSum(b.ledger, S, i, u - 1, u) = Reopened(i, S, u, before)
      BY <2>1, <2>2, HeldAfterSplits
    <3> QED BY <3>1, <3>2
  <2>4. (IF u = 0 THEN 0 ELSE w[u - 1]) = before
    <3>1. CASE u = 0
      <4>1. u - 1 = -1
        BY <3>1
      <4> QED BY <2>2, <3>1, <4>1, HeldFromNothing
    <3>2. CASE u # 0
      <4>1. u - 1 \in Times
        BY <2>1, <3>2, BookAssumption DEF Times, CloseAt
      <4> QED BY <1>1, <2>2, <3>2, <4>1
    <3> QED BY <3>1, <3>2
  <2> QED BY <1>1, <2>3, <2>4 DEF ReplayStep
<1>3. w = [u \in Times |-> w[u]]
  BY <1>1
<1> QED BY <1>1, <1>2, <1>3, ReplayUnique

(* However late fills and splits are recorded, a position is what their    *)
(* replay at their effective times makes it, and a dividend accrues on the *)
(* shares so held as its time begins (reconciliation.go refuses a split    *)
(* that fills or splits have overtaken, matching.go an order that waits    *)
(* for one).  Two splits of an instrument at one time would have to be     *)
(* applied in the order they were found, and are left out.                 *)
THEOREM HoldingsAreReplayed ==
    ASSUME SplitsApart
    PROVE  Spec => []HoldingsReplay
<1>1. AccountInv /\ Replays(books, clock) => HoldingsReplay
  <2> SUFFICES ASSUME AccountInv, Replays(books, clock) PROVE HoldingsReplay
    OBVIOUS
  <2>1. /\ BookInv(books) /\ BookTypes(books) /\ Past(books, clock)
        /\ clock \in Nat /\ Horizon \in Nat /\ clock <= Horizon
    BY Clocks DEF AccountInv, BooksInv, BookInv, WorldFine
  <2>2. FillsOf(OrderIds) = FillRows(books)
    BY <2>1, FillsAre DEF FillsOf, FillRows, FillKinds
  <2>3. Applied = AppliedSplits(books) /\ Complete(books, Applied)
    BY DEF Applied, AppliedSplits, Complete
  <2>4. PICK L : L = books.ledger /\ L \in SUBSET LedgerRows /\ IsFiniteSet(L)
    BY <2>1, BookFields
  <2>5. ASSUME NEW i \in Instruments
        PROVE  books.positions[i].quantity = Holdings(i, Applied, Horizon)
    <3>1. PICK S : S = Applied
      OBVIOUS
    <3>2. ASSUME NEW e \in L PROVE HeldOf(S, i, Horizon, Horizon)[e] = QuantityIn(i)[e]
      <4>1. /\ HeldOf(S, i, Horizon, Horizon)[e] = HeldTerm(e, S, i, Horizon, Horizon)
            /\ QuantityIn(i)[e] = QuantityOf(e, i)
        BY <2>4, HeldTerms, RowTerms
      <4>2. e.at \in Nat /\ e.at <= Horizon
        BY <2>1, <2>4, ActionRows DEF Past
      <4>3. e.kind = "split" => e.of \in S
        BY <2>1, <2>3, <2>4, <3>1, ActionRows DEF Replays, SplitRight, AppliedSplits
      <4>4. e.kind \notin FillKinds \cup {"split"} => e.quantity = 0
        BY <2>1, <2>4, ActionRows
      <4>5. CASE e.kind \in FillKinds \cup {"split"}
        <5>1. Counts(e, S, i, Horizon, Horizon) <=> e.instrument = i
          BY <4>2, <4>3, <4>5 DEF Counts
        <5> QED BY <4>1, <5>1 DEF HeldTerm, QuantityOf
      <4>6. CASE e.kind \notin FillKinds \cup {"split"}
        BY <4>1, <4>4, <4>6 DEF HeldTerm, QuantityOf
      <4> QED BY <4>5, <4>6
    <3>3. HeldSum(L, S, i, Horizon, Horizon) = QuantitySum(i, L)
      BY <2>4, <3>2, SumSame DEF HeldSum, QuantitySum
    <3>4. Horizon \in Times
      BY <2>1 DEF Times
    <3>5. Replayed(FillRows(books), i, S, Horizon) = HeldSum(L, S, i, Horizon, Horizon)
      BY <2>1, <2>3, <2>4, <3>1, <3>4, ReplayIs
    <3>6. books.positions[i].quantity = QuantitySum(i, L)
      BY <2>1, <2>4 DEF BookInv, Balanced
    <3> QED BY <2>2, <3>1, <3>3, <3>5, <3>6 DEF Holdings
  <2>6. ASSUME NEW e \in books.ledger, e.kind = "dividend_accrual"
        PROVE  e.delta.dividends = Amount[e.of] * EntitledTo(e)
    <3>1. e.of \in Actions /\ e.instrument = Security[e.of]
      BY <2>1, <2>6, ActionRows
    <3>2. PICK i, u, S : i = e.instrument /\ u = EffectiveAt[e.of] /\ S = books.splits[e.of]
      OBVIOUS
    <3>3. u \in Nat /\ u - 1 \in Times
      BY <2>1, <3>1, <3>2, ActionTimes DEF Times
    <3>4. Complete(books, S)
      BY <3>1, <3>2 DEF Replays, KnownSplits, Complete
    <3>5. PICK held : held = HeldSum(L, S, i, u - 1, u - 1)
      OBVIOUS
    <3>6. Holdings(i, S, u - 1) = held
      BY <2>1, <2>2, <2>4, <3>3, <3>4, <3>5, ReplayIs DEF Holdings
    <3>7. HeldSum(L, S, i, u - 1, u) = Reopened(i, S, u, held)
      BY <2>1, <2>4, <3>3, <3>4, <3>5, HeldAfterSplits
    <3>8. EntitledTo(e) = Reopened(i, S, u, held)
      BY <3>2, <3>6 DEF EntitledTo, Reopened, SplitsAt
    <3>9. e.delta.dividends = Amount[e.of] * HeldSum(L, S, i, u - 1, u)
      BY <2>4, <2>6, <3>1, <3>2 DEF Replays, AccrualRight
    <3> QED BY <3>7, <3>8, <3>9
  <2> QED BY <2>5, <2>6 DEF HoldingsReplay
<1> QED BY <1>1, AccountAlways, ReplaysAlways, PTL
===============================================================================
