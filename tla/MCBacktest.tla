----------------------------- MODULE MCBacktest -------------------------------
(* Three stocks, two of one industry, and SPY over three sessions; a       *)
(* dividend and a 3-for-2 split of the first stock.                        *)
EXTENDS Backtest, TLC

CONSTANTS x, y, z, spy, div, split

MCInstruments == {x, y, z, spy}
MCIndustry == [i \in MCInstruments |-> IF i \in {x, y} THEN "software" ELSE "banks"]
MCByID == <<x, y, z, spy>>
MCPolicy == [single |-> 40, industry |-> 60, stock |-> 80, pause |-> 20, stop |-> 10, turnover |-> 60]
MCOrderIds == (1 .. 3) \X MCInstruments \X {Passes[n] : n \in DOMAIN Passes}
MCActions == {div, split}
MCKind == (div :> "dividend") @@ (split :> "split")
MCSecurity == [a \in MCActions |-> x]
MCEffectiveAt == (div :> OpenAt(2)) @@ (split :> OpenAt(3))
MCPayAt == [a \in MCActions |-> CloseAt(3)]
MCRatio == [a \in MCActions |-> <<3, 2>>]
MCActionOrder == <<div, split>>
MCAmount == (div :> 30) @@ (split :> 600)
MCCapacity == (x :> 4) @@ (y :> 3) @@ (z :> 9) @@ (spy :> 9)

Bar(open, close) == [open |-> open, close |-> close, opens |-> TRUE, late |-> FALSE]
Late(bar) == [bar EXCEPT !.late = TRUE]
Unopened(bar) == [bar EXCEPT !.opens = FALSE]
Signal(i, score) == [instrument |-> i, score |-> score, risk |-> "low"]
Day(bx, by, bz, bspy, signals) ==
    [bars |-> (x :> bx) @@ (y :> by) @@ (z :> bz) @@ (spy :> bspy), signals |-> signals]

Flat == Bar(1000, 1000)
All == <<Signal(x, "entry"), Signal(y, "entry"), Signal(z, "entry")>>
Others == <<Signal(y, "entry"), Signal(z, "entry"), Signal(x, "hold")>>
Leave == <<Signal(z, "entry"), Signal(y, "hold"), Signal(x, "exit")>>

(* The days: nothing moves; some open or close far from the day before,    *)
(* once so that one holding breaks two limits; a bar comes late, has no    *)
(* opening trade, or is missing.                                           *)
Calm == Day(Flat, Flat, Flat, Flat, All)
Days ==
    0 :> {Calm, Day(Flat, Flat, Flat, Flat, Others)}
    @@ 1 :> {Calm,
             Day(Bar(1100, 1000), Flat, Flat, Flat, Leave),
             Day(Bar(1100, 900), Flat, Flat, Flat, Leave),
             Day(Flat, Bar(1000, 1600), Flat, Flat, Others),
             Day(Bar(1000, 1450), Bar(1000, 2200), Flat, Flat, All),
             Day(Late(Flat), Flat, Flat, Flat, All),
             Day(Unopened(Flat), Flat, Flat, Unopened(Flat), Others)}
    @@ 2 :> {Day(Flat, Flat, Bar(1000, 1500), Flat, All),
             Day(Bar(1200, 880), Bar(1000, 860), Bar(1000, 1500), Flat, <<>>),
             Day(Late(Bar(1100, 1200)), Bar(1300, 1300), Bar(1000, 1500), Flat, Leave),
             Day(Bar(1600, 700), Bar(600, 700), Flat, Bar(700, 700), All),
             Day(None, Flat, Flat, None, All)}
    @@ 3 :> {Calm,
             Day(Bar(1100, 1050), Bar(600, 900), Flat, Bar(1200, 1200), All),
             Day(Late(Flat), Flat, Flat, Flat, All)}
MCPasts == {d \in [0 .. 3 -> UNION {Days[k] : k \in 0 .. 3}] : \A k \in 0 .. 3 : d[k] \in Days[k]}

===============================================================================
