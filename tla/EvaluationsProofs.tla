--------------------------- MODULE EvaluationsProofs ---------------------------
(***************************************************************************)
(* Theorems about Evaluations, for any configurations, sessions, workers   *)
(* and limits: the automation keeps the promises of TradingDesk, whatever  *)
(* comes between what a job reads and what it decides.                     *)
(***************************************************************************)
EXTENDS Evaluations, TLAPS

-------------------------------------------------------------------------------
(* The inductive invariant.                                                *)

Inputs == [version : Nat, config : Configs \cup {NoConfig}, at : Nat]
WorkerStates == [step : Steps, session : Sessions, input : Inputs,
                 run : SUBSET (Sessions \X Strategies \X Purposes)]

Ready(session) == Desk!ReadyAt(session) <= clock

(* A run waits only with a job, a job that can be fetched has an attempt   *)
(* left, only an automatic run issues orders and only after its session,   *)
(* and what it froze is what its readiness was computed for.               *)
RunFine(r) ==
    /\ r \in Runs
    /\ r.state = "queued" => r.job \in {"available", "running", "lost"}
    /\ r.issued => r.state \in {"completed", "blocked"} /\ r.purpose = "automatic"
    /\ r.job = "available" => r.attempt < MaxAttempts
    /\ r.purpose = "automatic" => Ready(r.session)
    /\ r.fresh

RunsFine ==
    /\ \A r \in runs : RunFine(r)
    /\ \A r, v \in runs : Key(r) = Key(v) => r = v

(* A worker that evaluates is at one run, and one that is about to         *)
(* complete its job leaves a run that no longer waits.                     *)
AtRun(w) ==
    IF workers[w].step \in {"decide", "complete"}
    THEN \E r \in runs : /\ workers[w].run = {Key(r)}
                         /\ workers[w].step = "complete" => r.state # "queued"
    ELSE workers[w].run = {}

InForce(t) == Desk!InForceAt(t)

(* What an account job has read is from its past, and as long as the       *)
(* account's version is the one it read, so are the settings.              *)
InputFine(w) ==
    /\ workers[w].step \in {"ready", "save"} => Ready(workers[w].session)
    /\ workers[w].step = "save" /\ workers[w].input # NoInput =>
          /\ workers[w].input.at <= clock
          /\ workers[w].input.version <= account.version
          /\ workers[w].input.version = account.version =>
                workers[w].input.config = InForce(workers[w].input.at)

WorkersFine ==
    /\ workers \in [Workers -> WorkerStates]
    /\ \A w \in Workers : AtRun(w) /\ InputFine(w)

(* An order that stands is the market's, or is authorised.                 *)
OrdersStand == \A o \in live : Desk!Effective(o) \/ Desk!Authorised(o)

RestTyped ==
    /\ clock \in 0 .. Horizon /\ requests \in 0 .. MaxRequests
    /\ account \in Accounts
    /\ live \subseteq Desk!Orders

DeskInv == RestTyped /\ RunsFine /\ WorkersFine /\ OrdersStand

Issued == {r.session : r \in {v \in runs : v.issued}}

-------------------------------------------------------------------------------
(* The calendar.                                                           *)

(* Sessions and instants are naturals.                                     *)
LEMMA Bounds ==
    Last \in Nat /\ Horizon \in Nat /\ Sessions \subseteq Nat /\ Horizon = 3 * (Last + 1)
  BY EvaluationsAssumption DEF Horizon, OpenAt, Desk!OpenAt, Sessions

(* Before the horizon there is a next open.                                *)
LEMMA OpensLater == ASSUME clock \in 0 .. Horizon
                    PROVE  NextOpen \in Nat
<1> DEFINE Opens == {OpenAt(s) : s \in 0 .. Last + 2}
           s0 == (clock \div 3) + 1
<1>1. s0 \in 0 .. Last + 2 /\ OpenAt(s0) > clock
  BY Bounds, SMT DEF OpenAt, Desk!OpenAt
<1>2. ASSUME NEW s \in 0 .. Last + 2, OpenAt(s) > clock
      PROVE  OpenAt(s0) <= OpenAt(s)
  BY <1>2, Bounds, SMT DEF OpenAt, Desk!OpenAt
<1>3. \E t \in Opens : t > clock /\ \A s \in 0 .. Last + 2 : OpenAt(s) > clock => t <= OpenAt(s)
  BY <1>1, <1>2
<1>4. NextOpen \in Opens
  BY <1>3 DEF NextOpen
<1> QED BY <1>4, Bounds, SMT DEF OpenAt, Desk!OpenAt

(* Of the sessions that have closed one is the latest.                     *)
LEMMA OneIsLatest == ASSUME clock \in 0 .. Horizon, Closed # {}
                     PROVE  LatestCompleted \in Closed
<1> DEFINE m == IF (clock - 1) \div 3 <= Last THEN (clock - 1) \div 3 ELSE Last
<1>1. m \in Closed
  BY Bounds, SMT DEF Closed, Sessions, Desk!CloseAt, Desk!OpenAt
<1>2. \A d \in Closed : d <= m
  BY Bounds, SMT DEF Closed, Sessions, Desk!CloseAt, Desk!OpenAt
<1> QED BY <1>1, <1>2 DEF LatestCompleted

-------------------------------------------------------------------------------
(* Lemmas about the parts of a step.                                       *)

(* Adopting due settings raises the version or changes nothing.            *)
LEMMA Promotion ==
    ASSUME RestTyped, NEW t \in Nat
    PROVE  /\ PromotedAt(t) \in Accounts
           /\ PromotedAt(t).enabled = account.enabled
           /\ PromotedAt(t).config = InForce(t)
           /\ PromotedAt(t) = account \/ PromotedAt(t).version > account.version
<1>1. account \in Accounts
  BY DEF RestTyped
<1>2. CASE DueAt(t)
  <2>1. account.pending.config \in Configs /\ Desk!NoPending \in Desk!Pendings
    BY <1>1, <1>2 DEF Accounts, Desk!Pendings, DueAt
  <2> DEFINE promoted == [account EXCEPT !.config = account.pending.config,
                                         !.pending = Desk!NoPending, !.version = @ + 1]
  <2>2. PromotedAt(t) = promoted
    BY <1>2 DEF PromotedAt
  <2>3. /\ promoted \in Accounts /\ promoted.enabled = account.enabled
        /\ promoted.config = account.pending.config /\ promoted.version > account.version
    <3>1. /\ promoted.enabled = account.enabled
          /\ promoted.config = account.pending.config
          /\ promoted.pending = Desk!NoPending
          /\ promoted.version = account.version + 1
      BY <1>1 DEF Accounts
    <3>2. account.version + 1 \in Nat /\ account.version + 1 > account.version
      BY <1>1 DEF Accounts
    <3>3. promoted \in Accounts
      BY <1>1, <2>1, <3>2, Zenon DEF Accounts
    <3> QED BY <3>1, <3>2, <3>3
  <2>4. InForce(t) = account.pending.config
    BY <1>2 DEF DueAt, InForce, Desk!InForceAt
  <2> HIDE DEF promoted
  <2> QED BY <2>2, <2>3, <2>4
<1>3. CASE ~DueAt(t)
  BY <1>1, <1>3 DEF PromotedAt, DueAt, InForce, Desk!InForceAt
<1> QED BY <1>2, <1>3

(* To the desk it is its own adoption, or nothing.                         *)
LEMMA PromotionIsAdoption ==
    ASSUME RestTyped, OrdersStand, NEW t \in Nat, t <= clock,
           account' = PromotedAt(t), UNCHANGED <<clock, live>>, Issued' = Issued
    PROVE  OrdersStand' /\ [Desk!Next]_(Desk!vars)
<1>1. account \in Accounts /\ clock \in Nat
  BY Bounds DEF RestTyped
<1>2. CASE DueAt(t)
  <2>1. account.pending.config \in Configs /\ account.pending.at \in Nat
    BY <1>1, <1>2 DEF Accounts, Desk!Pendings, DueAt
  <2>2. /\ account'.config = account.pending.config
        /\ account'.pending = Desk!NoPending
        /\ account'.enabled = account.enabled
    BY <1>1, <1>2 DEF PromotedAt, Accounts
  <2>3. Desk!Due
    BY <1>1, <1>2, <2>1 DEF DueAt, Desk!Due
  <2>4. Desk!Adopt
    BY <2>2, <2>3 DEF Desk!Adopt, Issued
  <2>5. OrdersStand'
    <3> SUFFICES ASSUME NEW o \in live
                 PROVE  Desk!Effective(o)' \/ Desk!Authorised(o)'
      BY DEF OrdersStand
    <3>0. Desk!TargetAt(o.session) \in Nat /\ Desk!TargetAt(o.session)' = Desk!TargetAt(o.session)
      <4>1. o.session \in Nat
        BY Bounds DEF RestTyped, Desk!Orders
      <4> QED BY <4>1 DEF Desk!TargetAt, Desk!OpenAt
    <3>1. CASE Desk!Effective(o)
      BY <3>0, <3>1 DEF Desk!Effective
    <3>2. CASE ~Desk!Effective(o) /\ Desk!Authorised(o)
      BY <1>1, <1>2, <2>1, <2>2, <2>3, <3>0, <3>2
         DEF Desk!Authorised, Desk!InForceAt, Desk!Effective, Desk!Due
    <3> QED BY <3>1, <3>2 DEF OrdersStand
  <2> QED BY <2>4, <2>5 DEF Desk!Next
<1>3. CASE ~DueAt(t)
  <2>1. account' = account
    BY <1>3 DEF PromotedAt
  <2> QED BY <2>1 DEF OrdersStand, Desk!vars, Issued, Desk!Effective, Desk!Authorised,
                      Desk!InForceAt, Desk!TargetAt, Desk!OpenAt
<1> QED BY <1>2, <1>3

(* A step that leaves settings, orders and batches alone is no step.       *)
LEMMA Stutter ==
    ASSUME OrdersStand, UNCHANGED <<clock, account, live>>, Issued' = Issued
    PROVE  OrdersStand' /\ [Desk!Next]_(Desk!vars)
BY DEF OrdersStand, Desk!vars, Issued, Desk!Effective, Desk!Authorised,
       Desk!InForceAt, Desk!TargetAt, Desk!OpenAt

(* What a worker has read survives the steps of others: each change of the *)
(* account raises its version.                                             *)
LEMMA InputKept ==
    ASSUME RestTyped, RestTyped', WorkersFine, NEW w \in Workers,
           workers'[w] = workers[w], clock <= clock',
           account' = account \/ account'.version > account.version
    PROVE  InputFine(w)'
<1>1. /\ workers[w] \in WorkerStates /\ InputFine(w)
      /\ clock \in Nat /\ clock' \in Nat /\ account.version \in Nat /\ account'.version \in Nat
  BY Bounds DEF WorkersFine, RestTyped, Accounts
<1>2. workers[w].step \in {"ready", "save"} => Ready(workers[w].session)'
  <2>1. workers[w].session \in Nat
    BY <1>1, Bounds DEF WorkerStates
  <2> QED BY <1>1, <2>1 DEF InputFine, Ready, Desk!ReadyAt, Desk!OpenAt
<1>3. workers[w].input.at \in Nat /\ workers[w].input.version \in Nat
  BY <1>1 DEF WorkerStates, Inputs
<1>4. account' = account => InForce(workers[w].input.at)' = InForce(workers[w].input.at)
  BY DEF InForce, Desk!InForceAt
<1> QED BY <1>1, <1>2, <1>3, <1>4 DEF InputFine, NoInput

(* A run replaced by a later state of itself.                              *)
LEMMA RunReplaced ==
    ASSUME RunsFine, NEW r \in runs, NEW q, RunFine(q)', Key(q) = Key(r),
           runs' = (runs \ {r}) \cup {q}, clock' = clock
    PROVE  /\ RunsFine'
           /\ q.issued = r.issued => Issued' = Issued
           /\ q.issued => Issued' = Issued \cup {r.session}
           /\ \A w \in Workers : /\ AtRun(w) /\ workers'[w] = workers[w]
                                 /\ r.state # "queued" => q.state # "queued"
                                 => AtRun(w)'
<1>1. \A v \in runs : RunFine(v) => RunFine(v)'
  BY DEF RunFine, Ready, Desk!ReadyAt, Desk!OpenAt, Runs
<1>2. q.session = r.session
  BY DEF Key
<1>3. RunsFine'
  BY <1>1 DEF RunsFine, Key
<1>4. q.issued = r.issued => Issued' = Issued
  BY <1>2 DEF Issued
<1>5. q.issued => Issued' = Issued \cup {r.session}
  BY <1>2 DEF Issued
<1>6. ASSUME NEW w \in Workers, AtRun(w), workers'[w] = workers[w],
             r.state # "queued" => q.state # "queued"
      PROVE  AtRun(w)'
  <2>1. CASE workers[w].step \in {"decide", "complete"}
    <3>1. PICK v \in runs : /\ workers[w].run = {Key(v)}
                            /\ workers[w].step = "complete" => v.state # "queued"
      BY <1>6, <2>1 DEF AtRun
    <3>2. CASE v = r
      BY <1>6, <2>1, <3>1, <3>2 DEF AtRun, Key
    <3>3. CASE v # r
      BY <1>6, <2>1, <3>1, <3>3 DEF AtRun, Key
    <3> QED BY <3>2, <3>3
  <2>2. CASE workers[w].step \notin {"decide", "complete"}
    BY <1>6, <2>2 DEF AtRun
  <2> QED BY <2>1, <2>2
<1> QED BY <1>3, <1>4, <1>5, <1>6

(* The run of a worker that evaluates.                                     *)
LEMMA RunHeld ==
    ASSUME RunsFine, WorkersFine, NEW w \in Workers,
           workers[w].step \in {"decide", "complete"}
    PROVE  /\ RunOf(w) \in runs /\ RunFine(RunOf(w))
           /\ workers[w].run = {Key(RunOf(w))}
           /\ workers[w].step = "complete" => RunOf(w).state # "queued"
<1>1. PICK r \in runs : /\ workers[w].run = {Key(r)}
                        /\ workers[w].step = "complete" => r.state # "queued"
  BY DEF WorkersFine, AtRun
<1>2. \E v \in runs : Key(v) \in workers[w].run
  BY <1>1
<1>3. RunOf(w) \in runs /\ Key(RunOf(w)) \in workers[w].run
  BY <1>2 DEF RunOf
<1>4. RunOf(w) = r
  BY <1>1, <1>3 DEF RunsFine
<1> QED BY <1>1, <1>3, <1>4 DEF RunsFine

-------------------------------------------------------------------------------
(* Init and each action, with what it is to the desk.                      *)

Sound == DeskInv' /\ [Desk!Next]_(Desk!vars)

(* At the start nothing is queued and no order stands.                     *)
LEMMA InitSound == Init => DeskInv /\ Desk!Init
<1> SUFFICES ASSUME Init PROVE DeskInv /\ Desk!Init
  OBVIOUS
<1>1. PICK c \in Configs :
         account \in [version : {1}, enabled : BOOLEAN, config : {c}, pending : {Desk!NoPending}]
  BY DEF Init
<1>2. account \in Accounts
  <2>1. {1} \subseteq Nat /\ {c} \subseteq Configs /\ {Desk!NoPending} \subseteq Desk!Pendings
    BY DEF Desk!Pendings
  <2> QED BY <1>1, <2>1, Zenon DEF Accounts
<1>3. RestTyped
  BY <1>2, Bounds, EvaluationsAssumption DEF Init, RestTyped
<1>4. RunsFine /\ OrdersStand
  BY DEF Init, RunsFine, OrdersStand
<1>5. WorkersFine
  <2>1. NoInput \in Inputs /\ 0 \in Sessions
    BY Bounds DEF NoInput, Inputs, Sessions
  <2>2. Idle \in WorkerStates
    BY <2>1 DEF Idle, WorkerStates, Steps
  <2> QED BY <2>2 DEF Init, WorkersFine, AtRun, InputFine, Idle
<1>6. Desk!Init
  <2>1. account.enabled \in BOOLEAN /\ account.config \in Configs /\ account.pending = Desk!NoPending
    BY <1>1
  <2> QED BY <2>1 DEF Init, Desk!Init
<1> QED BY <1>3, <1>4, <1>5, <1>6 DEF DeskInv

(* Time makes orders the market's and sessions ready.                      *)
LEMMA TickSound == DeskInv /\ Tick => Sound
<1> SUFFICES ASSUME DeskInv, Tick PROVE Sound
  OBVIOUS
<1>1. clock \in Nat /\ clock' = clock + 1
  BY Bounds DEF DeskInv, RestTyped, Tick
<1>2. RestTyped'
  BY Bounds DEF DeskInv, RestTyped, Tick
<1>3. RunsFine'
  <2>1. ASSUME NEW r \in runs PROVE RunFine(r)'
    <3>1. RunFine(r) /\ r.session \in Nat
      BY Bounds DEF DeskInv, RunsFine, RunFine, Runs
    <3> QED BY <1>1, <3>1 DEF RunFine, Ready, Desk!ReadyAt, Desk!OpenAt
  <2> QED BY <2>1 DEF DeskInv, RunsFine, Tick
<1>4. WorkersFine'
  <2>1. ASSUME NEW w \in Workers PROVE AtRun(w)' /\ InputFine(w)'
    <3>1. InputFine(w)'
      BY <1>1, <1>2, InputKept DEF DeskInv, Tick
    <3> QED BY <3>1 DEF DeskInv, WorkersFine, AtRun, Tick
  <2> QED BY <2>1 DEF DeskInv, WorkersFine, Tick
<1>5. OrdersStand'
  <2> SUFFICES ASSUME NEW o \in live
               PROVE  Desk!Effective(o)' \/ Desk!Authorised(o)'
    BY DEF OrdersStand, Tick
  <2>1. o.session \in Nat
    BY Bounds DEF DeskInv, RestTyped, Desk!Orders
  <2>2. Desk!Effective(o) => Desk!Effective(o)'
    BY <1>1, <2>1 DEF Desk!Effective, Desk!TargetAt, Desk!OpenAt
  <2>3. Desk!Authorised(o) => Desk!Authorised(o)'
    BY DEF Desk!Authorised, Desk!InForceAt, Desk!TargetAt, Desk!OpenAt, Tick
  <2> QED BY <2>2, <2>3 DEF DeskInv, OrdersStand
<1>6. Desk!Advance
  BY DEF Tick, Desk!Advance
<1> QED BY <1>2, <1>3, <1>4, <1>5, <1>6 DEF Sound, DeskInv, Desk!Next

(* The end of an order.                                                    *)
LEMMA ResolveSound == ASSUME NEW o \in live, DeskInv, Resolve(o) PROVE Sound
<1>1. /\ live' = live \ {o} /\ UNCHANGED <<clock, requests, runs, workers>>
      /\ account' = [account EXCEPT !.version = @ + 1]
  BY DEF Resolve
<1>2. account \in Accounts /\ account.version \in Nat /\ account.version + 1 \in Nat
  BY DEF DeskInv, RestTyped, Accounts
<1>3. /\ account'.version = account.version + 1 /\ account'.config = account.config
      /\ account'.enabled = account.enabled /\ account'.pending = account.pending
  BY <1>1, <1>2 DEF Accounts
<1>4. account' \in Accounts
  BY <1>1, <1>2, Zenon DEF Accounts
<1>5. RestTyped'
  BY <1>1, <1>4 DEF DeskInv, RestTyped
<1>6. RunsFine'
  BY <1>1 DEF DeskInv, RunsFine, RunFine, Ready, Desk!ReadyAt, Desk!OpenAt
<1>7. WorkersFine'
  <2>1. ASSUME NEW w \in Workers PROVE AtRun(w)' /\ InputFine(w)'
    <3>1. clock <= clock' /\ account'.version > account.version
      BY <1>1, <1>2, <1>3, Bounds DEF DeskInv, RestTyped
    <3>2. InputFine(w)'
      BY <1>1, <1>5, <3>1, InputKept DEF DeskInv
    <3> QED BY <1>1, <3>2 DEF DeskInv, WorkersFine, AtRun
  <2> QED BY <1>1, <2>1 DEF DeskInv, WorkersFine
<1>8. OrdersStand'
  BY <1>1, <1>3 DEF DeskInv, OrdersStand, Desk!Effective, Desk!Authorised, Desk!InForceAt,
                    Desk!TargetAt, Desk!OpenAt
<1>9. Desk!Resolve(o)
  BY <1>1, <1>3 DEF Resolve, Desk!Resolve
<1> QED BY <1>5, <1>6, <1>7, <1>8, <1>9 DEF Sound, DeskInv, Desk!Next

(* The user's settings: what they take from an order of the desk they      *)
(* withdraw.                                                               *)
LEMMA ConfigureSound ==
    ASSUME NEW on \in BOOLEAN, NEW c \in Configs, DeskInv, Configure(on, c) PROVE Sound
<1> DEFINE coming == IF c # account.config THEN [config |-> c, at |-> NextOpen]
                     ELSE account.pending
<1>1. /\ requests < MaxRequests /\ requests' = requests + 1
      /\ live' = IF ~on \/ c # account.config THEN StillStanding(on) ELSE live
      /\ account' = [account EXCEPT !.enabled = on, !.version = @ + 1, !.pending = coming]
      /\ UNCHANGED <<clock, runs, workers>>
  BY DEF Configure
<1>2. account \in Accounts /\ account.version \in Nat /\ account.version + 1 \in Nat
  BY DEF DeskInv, RestTyped, Accounts
<1>3. coming \in Desk!Pendings
  <2>1. NextOpen \in Nat
    BY OpensLater DEF DeskInv, RestTyped
  <2>2. [config |-> c, at |-> NextOpen] \in Desk!Pendings
    BY <2>1 DEF Desk!Pendings
  <2>3. account.pending \in Desk!Pendings
    BY <1>2 DEF Accounts
  <2> QED BY <2>2, <2>3
<1> HIDE DEF coming
<1>4. /\ account'.version = account.version + 1 /\ account'.config = account.config
      /\ account'.enabled = on /\ account'.pending = coming
  BY <1>1, <1>2 DEF Accounts
<1>5. account' \in Accounts
  BY <1>1, <1>2, <1>3, Zenon DEF Accounts
<1>6. live' \subseteq live
  BY <1>1 DEF StillStanding
<1>7. RestTyped'
  BY <1>1, <1>5, <1>6, EvaluationsAssumption DEF DeskInv, RestTyped
<1>8. RunsFine'
  BY <1>1 DEF DeskInv, RunsFine, RunFine, Ready, Desk!ReadyAt, Desk!OpenAt
<1>9. WorkersFine'
  <2>1. ASSUME NEW w \in Workers PROVE AtRun(w)' /\ InputFine(w)'
    <3>1. clock <= clock' /\ account'.version > account.version
      BY <1>1, <1>2, <1>4, Bounds DEF DeskInv, RestTyped
    <3>2. InputFine(w)'
      BY <1>1, <1>7, <3>1, InputKept DEF DeskInv
    <3> QED BY <1>1, <3>2 DEF DeskInv, WorkersFine, AtRun
  <2> QED BY <1>1, <2>1 DEF DeskInv, WorkersFine
<1>10. ASSUME NEW o \in live' PROVE Desk!Effective(o) \/ Desk!Authorised(o)'
  <2>1. CASE Desk!Effective(o)
    BY <2>1
  <2>2. CASE ~Desk!Effective(o) /\ (~on \/ c # account.config)
    <3>1. on /\ o.side = "sell"
      BY <1>1, <1>10, <2>2 DEF StillStanding
    <3> QED BY <1>4, <3>1 DEF Desk!Authorised
  <2>3. CASE ~Desk!Effective(o) /\ on /\ c = account.config
    <3>1. Desk!Authorised(o) /\ coming = account.pending
      BY <1>6, <1>10, <2>3 DEF DeskInv, OrdersStand, coming
    <3> QED BY <1>4, <2>3, <3>1 DEF Desk!Authorised, Desk!InForceAt, Desk!TargetAt, Desk!OpenAt
  <2> QED BY <2>1, <2>2, <2>3
<1>11. OrdersStand'
  BY <1>1, <1>10 DEF OrdersStand, Desk!Effective, Desk!TargetAt, Desk!OpenAt
<1>12. Desk!Change
  <2>1. \A o \in live : Desk!Effective(o) => o \in live'
    BY <1>1 DEF StillStanding
  <2> QED BY <1>1, <1>3, <1>4, <1>6, <1>10, <2>1 DEF Desk!Change
<1> QED BY <1>7, <1>8, <1>9, <1>11, <1>12 DEF Sound, DeskInv, Desk!Next

(* A run that has just been queued is in order.                            *)
LEMMA NewRunFine ==
    ASSUME NEW session \in Sessions, NEW config \in Configs, NEW purpose \in Purposes,
           purpose = "automatic" => Ready(session)
    PROVE  LET new == NewRun(session, config, purpose, TRUE)
           IN  RunFine(new) /\ ~new.issued /\ Key(new) = <<session, StrategyOf(config), purpose>>
<1> DEFINE new == NewRun(session, config, purpose, TRUE)
<1>1. new = [session |-> session, strategy |-> StrategyOf(config), purpose |-> purpose,
             config |-> config, state |-> "queued", issued |-> FALSE, fresh |-> TRUE,
             job |-> "available", attempt |-> 0]
  BY DEF NewRun
<1>2. StrategyOf(config) \in Strategies /\ 0 \in 0 .. MaxAttempts /\ 0 < MaxAttempts
  BY EvaluationsAssumption DEF Strategies
<1>3. "queued" \in {"queued", "completed", "blocked", "failed"}
      /\ "available" \in {"available", "running", "completed", "discarded", "lost"}
  OBVIOUS
<1> HIDE DEF new
<1>4. new \in Runs
  <2>1. FALSE \in BOOLEAN /\ TRUE \in BOOLEAN
    OBVIOUS
  <2> QED BY <1>1, <1>2, <1>3, <2>1, Zenon DEF Runs
<1>5. RunFine(new) /\ ~new.issued
  BY <1>1, <1>2, <1>4 DEF RunFine
<1>6. Key(new) = <<session, StrategyOf(config), purpose>>
  BY <1>1 DEF Key
<1> QED BY <1>5, <1>6 DEF new

(* Queueing a run: the settings it adopts are in force, and it is the only *)
(* run of its session, strategy and purpose.                               *)
LEMMA Enqueued ==
    ASSUME DeskInv, NEW session \in Sessions, NEW purpose \in Purposes, NEW at \in Nat, at <= clock,
           NEW readyFor, Enqueue(session, purpose, at, readyFor), InForce(at) \in readyFor,
           purpose = "automatic" => Ready(session), UNCHANGED <<clock, live>>
    PROVE  /\ account' \in Accounts
           /\ account' = account \/ account'.version > account.version
           /\ RunsFine' /\ runs \subseteq runs'
           /\ OrdersStand' /\ [Desk!Next]_(Desk!vars)
<1>1. PICK config \in Configs : config = PromotedAt(at).config /\ config = InForce(at)
  BY Promotion DEF DeskInv, Accounts
<1> DEFINE new == NewRun(session, config, purpose, TRUE)
<1>2. /\ account' = PromotedAt(at)
      /\ runs' = IF Claimed(session, config, purpose) THEN runs ELSE runs \cup {new}
  <2>1. (config \in readyFor) = TRUE
    BY <1>1
  <2> QED BY <1>1, <2>1 DEF Enqueue
<1>3. /\ PromotedAt(at) \in Accounts
      /\ PromotedAt(at) = account \/ PromotedAt(at).version > account.version
  BY Promotion DEF DeskInv
<1>4. RunFine(new) /\ ~new.issued /\ Key(new) = <<session, StrategyOf(config), purpose>>
  BY NewRunFine
<1> HIDE DEF new
<1>5. RunsFine'
  <2>1. \A r : RunFine(r) => RunFine(r)'
    BY DEF RunFine, Ready, Desk!ReadyAt, Desk!OpenAt, Runs
  <2>2. \A r \in runs : ~Claimed(session, config, purpose) => Key(r) # Key(new)
    BY <1>4 DEF Claimed
  <2>3. \A r \in runs' : RunFine(r)'
    BY <1>2, <1>4, <2>1 DEF DeskInv, RunsFine
  <2>4. \A r, v \in runs' : Key(r) = Key(v) => r = v
    BY <1>2, <2>2 DEF DeskInv, RunsFine
  <2> QED BY <2>3, <2>4 DEF RunsFine, Key
<1>6. Issued' = Issued /\ runs \subseteq runs'
  BY <1>2, <1>4 DEF Issued
<1>7. OrdersStand' /\ [Desk!Next]_(Desk!vars)
  BY <1>2, <1>6, PromotionIsAdoption DEF DeskInv
<1> QED BY <1>2, <1>3, <1>5, <1>6, <1>7

(* The other workers stay at their runs when runs are only added.          *)
LEMMA RunsAdded ==
    ASSUME DeskInv, runs \subseteq runs'
    PROVE  \A v \in Workers : workers'[v] = workers[v] => AtRun(v)'
BY DEF DeskInv, WorkersFine, AtRun

(* The workers stay sound when one of them changes, and the others have    *)
(* their runs and the account is only raised.                              *)
LEMMA WorkersKept ==
    ASSUME DeskInv, RestTyped', NEW w \in Workers, NEW state \in WorkerStates,
           workers' = [workers EXCEPT ![w] = state],
           \A v \in Workers : workers'[v] = workers[v] => AtRun(v)', UNCHANGED clock,
           account' = account \/ account'.version > account.version,
           AtRun(w)', InputFine(w)'
    PROVE  WorkersFine'
<1>1. workers' \in [Workers -> WorkerStates]
  BY DEF DeskInv, WorkersFine
<1>2. ASSUME NEW v \in Workers, v # w
      PROVE  AtRun(v)' /\ InputFine(v)'
  <2>1. workers'[v] = workers[v]
    BY <1>2 DEF DeskInv, WorkersFine
  <2>2. clock <= clock'
    BY Bounds DEF DeskInv, RestTyped
  <2>3. InputFine(v)'
    BY <2>1, <2>2, InputKept DEF DeskInv
  <2>4. AtRun(v)'
    BY <2>1
  <2> QED BY <2>3, <2>4
<1> QED BY <1>1, <1>2 DEF WorkersFine

(* A free worker's state is one.                                           *)
LEMMA IdleTyped == Idle \in WorkerStates
<1>1. NoInput \in Inputs /\ 0 \in Sessions
  BY Bounds DEF NoInput, Inputs, Sessions
<1> QED BY <1>1 DEF Idle, WorkerStates, Steps

(* A free worker is at no run and has read nothing.                        *)
LEMMA FreeSound ==
    ASSUME DeskInv, NEW w \in Workers, Free(w)
    PROVE  AtRun(w)' /\ InputFine(w)' /\ workers' = [workers EXCEPT ![w] = Idle]
<1>1. workers'[w] = Idle
  BY DEF DeskInv, WorkersFine, Free
<1> QED BY <1>1 DEF Free, AtRun, InputFine, Idle

(* A research run of the latest session.                                   *)
LEMMA StartResearchSound == DeskInv /\ StartResearch => Sound
<1> SUFFICES ASSUME DeskInv, StartResearch PROVE Sound
  OBVIOUS
<1>1. clock \in Nat /\ clock' = clock /\ UNCHANGED <<live, workers>>
      /\ requests < MaxRequests /\ requests' = requests + 1
      /\ Enqueue(LatestCompleted, "research", clock, Configs)
  BY Bounds DEF DeskInv, RestTyped, StartResearch
<1>2. LatestCompleted \in Sessions
  BY OneIsLatest DEF StartResearch, DeskInv, RestTyped, Closed
<1>3. InForce(clock) \in Configs
  BY <1>1, Promotion DEF DeskInv, Accounts
<1>4. /\ account' \in Accounts
      /\ account' = account \/ account'.version > account.version
      /\ RunsFine' /\ runs \subseteq runs'
      /\ OrdersStand' /\ [Desk!Next]_(Desk!vars)
  BY <1>1, <1>2, <1>3, Enqueued DEF Purposes
<1>5. RestTyped'
  BY <1>1, <1>4, EvaluationsAssumption DEF DeskInv, RestTyped
<1>6. WorkersFine'
  <2>1. ASSUME NEW w \in Workers PROVE AtRun(w)' /\ InputFine(w)'
    <3>1. InputFine(w)'
      BY <1>1, <1>4, <1>5, InputKept DEF DeskInv
    <3> QED BY <1>1, <1>4, <3>1 DEF DeskInv, WorkersFine, AtRun
  <2> QED BY <1>1, <2>1 DEF DeskInv, WorkersFine
<1> QED BY <1>4, <1>5, <1>6 DEF Sound, DeskInv

(* The account job adopts what is due and goes on to the latest session.   *)
LEMMA MaintainSound == ASSUME NEW w \in Workers, DeskInv, Maintain(w) PROVE Sound
<1>1. clock \in Nat /\ clock' = clock /\ UNCHANGED <<requests, live, runs>>
      /\ account' = PromotedAt(clock) /\ workers[w].step = "idle"
  BY Bounds DEF DeskInv, RestTyped, Maintain
<1>2. /\ account' \in Accounts
      /\ account' = account \/ account'.version > account.version
  BY <1>1, Promotion DEF DeskInv
<1>3. OrdersStand' /\ [Desk!Next]_(Desk!vars)
  BY <1>1, PromotionIsAdoption DEF DeskInv, Issued
<1>4. RestTyped'
  BY <1>1, <1>2 DEF DeskInv, RestTyped
<1>5. RunsFine'
  BY <1>1 DEF DeskInv, RunsFine, RunFine, Ready, Desk!ReadyAt, Desk!OpenAt
<1>6. WorkersFine'
  <2>1. CASE account.enabled
    <3> DEFINE state == [Idle EXCEPT !.step = "ready", !.session = LatestCompleted]
    <3>1. workers' = [workers EXCEPT ![w] = state] /\ workers'[w] = state
      BY <2>1 DEF Maintain, DeskInv, WorkersFine
    <3>2. LatestCompleted \in Sessions /\ Ready(LatestCompleted)
      BY OneIsLatest DEF Maintain, DeskInv, RestTyped, Closed, Ready
    <3>3. state \in WorkerStates /\ state.step = "ready" /\ state.session = LatestCompleted
          /\ state.run = {}
      BY <3>2, IdleTyped DEF Idle, WorkerStates, Steps
    <3> HIDE DEF state
    <3>4. AtRun(w)' /\ InputFine(w)'
      BY <1>1, <3>1, <3>2, <3>3 DEF AtRun, InputFine, Ready, Desk!ReadyAt, Desk!OpenAt
    <3>5. PICK d \in WorkerStates : d = state
      BY <3>3
    <3> QED BY <1>1, <1>2, <1>4, <3>1, <3>4, <3>5, RunsAdded, WorkersKept
  <2>2. CASE ~account.enabled
    <3>1. workers' = workers
      BY <2>2 DEF Maintain
    <3>2. ASSUME NEW v \in Workers PROVE AtRun(v)' /\ InputFine(v)'
      <4>1. InputFine(v)'
        BY <1>1, <1>2, <1>4, <3>1, InputKept DEF DeskInv
      <4> QED BY <1>1, <3>1, <4>1 DEF DeskInv, WorkersFine, AtRun
    <3> QED BY <3>1, <3>2 DEF DeskInv, WorkersFine
  <2> QED BY <2>1, <2>2
<1> QED BY <1>3, <1>4, <1>5, <1>6 DEF Sound, DeskInv

(* The account job reads the account without its lock.                     *)
LEMMA ReadInputSound == ASSUME NEW w \in Workers, DeskInv, ReadInput(w) PROVE Sound
<1>1. UNCHANGED <<clock, requests, account, live, runs>> /\ workers[w].step = "ready"
      /\ clock \in Nat
  BY Bounds DEF ReadInput, DeskInv, RestTyped
<1>2. PICK config \in Configs : config = PromotedAt(clock).config /\ config = InForce(clock)
  BY <1>1, Promotion DEF DeskInv, Accounts
<1>3. PICK input \in Inputs :
         /\ workers' = [workers EXCEPT ![w].step = "save", ![w].input = input]
         /\ input = NoInput \/ input = [version |-> account.version, config |-> config, at |-> clock]
  <2>1. account.version \in Nat
    BY DEF DeskInv, RestTyped, Accounts
  <2>2. NoInput \in Inputs
        /\ [version |-> account.version, config |-> config, at |-> clock] \in Inputs
    BY <1>1, <1>2, <2>1 DEF NoInput, Inputs
  <2> QED BY <1>2, <2>2 DEF ReadInput
<1>4. workers[w] \in WorkerStates /\ AtRun(w) /\ InputFine(w)
  BY DEF DeskInv, WorkersFine
<1> DEFINE state == [workers[w] EXCEPT !.step = "save", !.input = input]
<1>5. PICK d \in WorkerStates : d = state
  BY <1>3, <1>4 DEF WorkerStates, Steps
<1>6. /\ d.step = "save" /\ d.input = input
      /\ d.session = workers[w].session /\ d.run = workers[w].run
      /\ workers' = [workers EXCEPT ![w] = d] /\ workers'[w] = d
  BY <1>3, <1>4, <1>5 DEF WorkerStates, DeskInv, WorkersFine
<1> HIDE DEF state
<1>7. RestTyped'
  BY <1>1 DEF DeskInv, RestTyped
<1>8. AtRun(w)'
  BY <1>1, <1>4, <1>6 DEF AtRun
<1>9. InputFine(w)'
  <2>1. Ready(d.session)'
    BY <1>1, <1>4, <1>6 DEF InputFine, Ready, Desk!ReadyAt, Desk!OpenAt
  <2>2. input # NoInput => /\ input.at = clock /\ input.version = account.version
                           /\ input.config = InForce(clock)
    BY <1>2, <1>3
  <2>3. account.version \in Nat /\ InForce(clock)' = InForce(clock)
    BY <1>1 DEF DeskInv, RestTyped, Accounts, InForce, Desk!InForceAt
  <2> QED BY <1>1, <1>6, <2>1, <2>2, <2>3 DEF InputFine
<1>10. WorkersFine'
  BY <1>1, <1>6, <1>7, <1>8, <1>9, RunsAdded, WorkersKept
<1>11. RunsFine'
  BY <1>1 DEF DeskInv, RunsFine, RunFine, Ready, Desk!ReadyAt, Desk!OpenAt
<1>12. OrdersStand' /\ [Desk!Next]_(Desk!vars)
  BY <1>1, Stutter DEF DeskInv, Issued
<1> QED BY <1>7, <1>10, <1>11, <1>12 DEF Sound, DeskInv

(* Queue's transaction: what was read is used only at its version.         *)
LEMMA SaveRunSound == ASSUME NEW w \in Workers, DeskInv, SaveRun(w) PROVE Sound
<1> DEFINE input == workers[w].input
<1>1. /\ UNCHANGED <<clock, requests, live>> /\ workers[w].step = "save" /\ Free(w)
      /\ clock \in Nat
  BY Bounds DEF SaveRun, DeskInv, RestTyped
<1>2. workers[w] \in WorkerStates /\ InputFine(w) /\ input \in Inputs
      /\ workers[w].session \in Sessions /\ Ready(workers[w].session)
  BY <1>1 DEF DeskInv, WorkersFine, WorkerStates, InputFine
<1>3. InForce(clock) \in Configs
  BY <1>1, Promotion DEF DeskInv, Accounts
<1>4. /\ account' \in Accounts
      /\ account' = account \/ account'.version > account.version
      /\ RunsFine' /\ runs \subseteq runs'
      /\ OrdersStand' /\ [Desk!Next]_(Desk!vars)
  <2>1. CASE input # NoInput /\ input.version # account.version
    <3>1. UNCHANGED <<account, runs>>
      BY <2>1 DEF SaveRun
    <3>2. RunsFine'
      BY <1>1, <3>1 DEF DeskInv, RunsFine, RunFine, Ready, Desk!ReadyAt, Desk!OpenAt
    <3>3. OrdersStand' /\ [Desk!Next]_(Desk!vars)
      BY <1>1, <3>1, Stutter DEF DeskInv, Issued
    <3> QED BY <3>1, <3>2, <3>3 DEF DeskInv, RestTyped
  <2>2. CASE input # NoInput /\ input.version = account.version
    <3>1. Enqueue(workers[w].session, "automatic", input.at, {input.config})
      BY <2>2 DEF SaveRun
    <3>2. input.at \in Nat /\ input.at <= clock /\ InForce(input.at) \in {input.config}
      BY <1>1, <1>2, <2>2 DEF InputFine, Inputs
    <3> QED BY <1>1, <1>2, <3>1, <3>2, Enqueued DEF Purposes
  <2>3. CASE input = NoInput
    <3>1. Enqueue(workers[w].session, "automatic", clock, Configs)
      BY <2>3 DEF SaveRun
    <3> QED BY <1>1, <1>2, <1>3, <3>1, Enqueued DEF Purposes
  <2> QED BY <2>1, <2>2, <2>3
<1>5. RestTyped'
  BY <1>1, <1>4 DEF DeskInv, RestTyped
<1>6. WorkersFine'
  BY <1>1, <1>4, <1>5, FreeSound, IdleTyped, RunsAdded, WorkersKept
<1> QED BY <1>4, <1>5, <1>6 DEF Sound, DeskInv

(* A process dies.                                                         *)
LEMMA CrashSound == ASSUME NEW w \in Workers, DeskInv, Crash(w) PROVE Sound
<1>1. UNCHANGED <<clock, requests, account, live, runs>> /\ Free(w)
  BY DEF Crash
<1>2. RestTyped'
  BY <1>1 DEF DeskInv, RestTyped
<1>3. WorkersFine'
  BY <1>1, <1>2, FreeSound, IdleTyped, RunsAdded, WorkersKept
<1>4. RunsFine'
  BY <1>1 DEF DeskInv, RunsFine, RunFine, Ready, Desk!ReadyAt, Desk!OpenAt
<1>5. OrdersStand' /\ [Desk!Next]_(Desk!vars)
  BY <1>1, Stutter DEF DeskInv, Issued
<1> QED BY <1>2, <1>3, <1>4, <1>5 DEF Sound, DeskInv

-------------------------------------------------------------------------------
(* The evaluation's actions replace the run they are about.                *)

(* A job taken up, ended or given back leaves its run in order.            *)
LEMMA JobChanged ==
    ASSUME NEW r, RunFine(r), NEW q,
           NEW job \in {"available", "running", "completed", "discarded", "lost"},
           NEW attempt \in 0 .. MaxAttempts,
           q = [r EXCEPT !.job = job, !.attempt = attempt],
           r.state = "queued" => job \in {"available", "running", "lost"},
           job = "available" => attempt < MaxAttempts
    PROVE  RunFine(q) /\ Key(q) = Key(r) /\ q.state = r.state /\ q.issued = r.issued
<1>1. r \in Runs
  BY DEF RunFine
<1>2. q \in Runs
  BY <1>1, Zenon DEF Runs
<1>3. /\ q.job = job /\ q.attempt = attempt /\ q.state = r.state /\ q.issued = r.issued
      /\ q.session = r.session /\ q.strategy = r.strategy /\ q.purpose = r.purpose
      /\ q.fresh = r.fresh
  BY <1>1 DEF Runs
<1>4. RunFine(q)
  BY <1>2, <1>3 DEF RunFine
<1>5. Key(q) = Key(r)
  BY <1>3 DEF Key
<1> QED BY <1>3, <1>4, <1>5

(* The same with the attempts as they are.                                 *)
LEMMA JobSet ==
    ASSUME NEW r, RunFine(r), NEW q,
           NEW job \in {"available", "running", "completed", "discarded", "lost"},
           q = [r EXCEPT !.job = job],
           r.state = "queued" => job \in {"available", "running", "lost"},
           job = "available" => r.attempt < MaxAttempts
    PROVE  RunFine(q) /\ Key(q) = Key(r) /\ q.state = r.state /\ q.issued = r.issued
<1>1. r \in Runs /\ r.attempt \in 0 .. MaxAttempts
  BY DEF RunFine, Runs
<1>2. q = [r EXCEPT !.job = job, !.attempt = r.attempt]
  BY <1>1 DEF Runs
<1> QED BY <1>1, <1>2, JobChanged

(* A run that has been decided does not wait.                              *)
LEMMA RunEnded ==
    ASSUME NEW r, RunFine(r), NEW q,
           NEW state \in {"completed", "blocked"}, NEW issued \in BOOLEAN,
           q = [r EXCEPT !.state = state, !.issued = issued],
           issued => r.purpose = "automatic"
    PROVE  RunFine(q) /\ Key(q) = Key(r) /\ q.state = state /\ q.issued = issued
<1>1. r \in Runs
  BY DEF RunFine
<1>2. q \in Runs
  <2>1. state \in {"queued", "completed", "blocked", "failed"}
    OBVIOUS
  <2> QED BY <1>1, <2>1, Zenon DEF Runs
<1>3. /\ q.job = r.job /\ q.attempt = r.attempt /\ q.state = state /\ q.issued = issued
      /\ q.session = r.session /\ q.strategy = r.strategy /\ q.purpose = r.purpose
      /\ q.fresh = r.fresh
  BY <1>1 DEF Runs
<1>4. RunFine(q)
  BY <1>2, <1>3 DEF RunFine
<1>5. Key(q) = Key(r)
  BY <1>3 DEF Key
<1> QED BY <1>3, <1>4, <1>5

(* Nor does a run that failed with the last attempt of its job.            *)
LEMMA RunFailed ==
    ASSUME NEW r, RunFine(r), NEW q,
           q = [r EXCEPT !.state = IF @ = "queued" THEN "failed" ELSE @, !.job = "discarded"]
    PROVE  RunFine(q) /\ Key(q) = Key(r) /\ q.state # "queued" /\ q.issued = r.issued
<1> DEFINE state == IF r.state = "queued" THEN "failed" ELSE r.state
<1>1. r \in Runs
  BY DEF RunFine
<1>2. state \in {"queued", "completed", "blocked", "failed"} /\ state # "queued"
  BY <1>1 DEF Runs
<1>3. r.issued => state = r.state
  BY DEF RunFine
<1>4. q = [r EXCEPT !.state = state, !.job = "discarded"]
  OBVIOUS
<1> HIDE DEF state
<1>5. q \in Runs
  <2>1. "discarded" \in {"available", "running", "completed", "discarded", "lost"}
    OBVIOUS
  <2> QED BY <1>1, <1>2, <1>4, <2>1, Zenon DEF Runs
<1>6. /\ q.job = "discarded" /\ q.attempt = r.attempt /\ q.state = state /\ q.issued = r.issued
      /\ q.session = r.session /\ q.strategy = r.strategy /\ q.purpose = r.purpose
      /\ q.fresh = r.fresh
  BY <1>1, <1>4 DEF Runs
<1>7. RunFine(q)
  BY <1>2, <1>3, <1>5, <1>6 DEF RunFine
<1>8. Key(q) = Key(r)
  BY <1>6 DEF Key
<1> QED BY <1>2, <1>6, <1>7, <1>8

(* A step that replaces a run, and neither the account nor an order.       *)
LEMMA ReplacedSound ==
    ASSUME DeskInv, NEW r \in runs, NEW q, RunFine(q), Key(q) = Key(r), q.issued = r.issued,
           r.state # "queued" => q.state # "queued",
           runs' = (runs \ {r}) \cup {q}, UNCHANGED <<clock, requests, account, live>>
    PROVE  /\ RestTyped' /\ RunsFine' /\ OrdersStand' /\ [Desk!Next]_(Desk!vars)
           /\ \A v \in Workers : workers'[v] = workers[v] => AtRun(v)'
<1>1. RunFine(q)'
  BY DEF RunFine, Ready, Desk!ReadyAt, Desk!OpenAt, Runs
<1>2. RunsFine' /\ Issued' = Issued /\ \A v \in Workers : workers'[v] = workers[v] => AtRun(v)'
  BY <1>1, RunReplaced DEF DeskInv, WorkersFine
<1>3. OrdersStand' /\ [Desk!Next]_(Desk!vars)
  BY <1>2, Stutter DEF DeskInv
<1> QED BY <1>2, <1>3 DEF DeskInv, RestTyped

(* A worker takes a run up; it decides only one that waits.                *)
LEMMA FetchSound ==
    ASSUME NEW w \in Workers, NEW r \in runs, DeskInv, Fetch(w, r) PROVE Sound
<1>1. UNCHANGED <<clock, requests, account, live>> /\ r.job = "available"
  BY DEF Fetch
<1>2. RunFine(r) /\ r.attempt \in 0 .. MaxAttempts /\ r.attempt < MaxAttempts
      /\ r.attempt + 1 \in 0 .. MaxAttempts /\ MaxAttempts \in Nat
  BY <1>1, EvaluationsAssumption DEF DeskInv, RunsFine, RunFine, Runs
<1> DEFINE state == [Idle EXCEPT !.step = IF r.state = "queued" THEN "decide" ELSE "complete",
                                 !.run = {Key(r)}]
<1>3. PICK q : q = [r EXCEPT !.job = "running", !.attempt = r.attempt + 1]
  OBVIOUS
<1>4. RunFine(q) /\ Key(q) = Key(r) /\ q.state = r.state /\ q.issued = r.issued
  BY <1>3, <1>2, JobChanged
<1>5. runs' = (runs \ {r}) \cup {q} /\ workers' = [workers EXCEPT ![w] = state]
  BY <1>3 DEF Fetch
<1>6. /\ RestTyped' /\ RunsFine' /\ OrdersStand' /\ [Desk!Next]_(Desk!vars)
      /\ \A v \in Workers : workers'[v] = workers[v] => AtRun(v)'
  BY <1>1, <1>4, <1>5, ReplacedSound
<1>7. PICK d \in WorkerStates : d = state
  <2>1. Key(r) \in Sessions \X Strategies \X Purposes
    BY <1>2 DEF RunFine, Runs, Key
  <2> QED BY <2>1, IdleTyped DEF Idle, WorkerStates, Steps
<1>8. /\ d.step = IF r.state = "queued" THEN "decide" ELSE "complete"
      /\ d.run = {Key(r)} /\ workers' = [workers EXCEPT ![w] = d] /\ workers'[w] = d
  BY <1>5, <1>7 DEF Idle, DeskInv, WorkersFine
<1>9. AtRun(w)' /\ InputFine(w)'
  BY <1>4, <1>5, <1>8 DEF AtRun, InputFine, Key
<1>10. WorkersFine'
  BY <1>1, <1>6, <1>8, <1>9, WorkersKept
<1> QED BY <1>6, <1>10 DEF Sound, DeskInv

(* The job ends; its run does not wait any more.                           *)
LEMMA CompleteSound == ASSUME NEW w \in Workers, DeskInv, Complete(w) PROVE Sound
<1>1. UNCHANGED <<clock, requests, account, live>> /\ Free(w) /\ workers[w].step = "complete"
  BY DEF Complete
<1>2. PICK r \in runs : r = RunOf(w) /\ RunFine(r) /\ r.state # "queued"
  BY <1>1, RunHeld DEF DeskInv
<1>3. PICK q : q = [r EXCEPT !.job = "completed"]
  OBVIOUS
<1>4. RunFine(q) /\ Key(q) = Key(r) /\ q.state = r.state /\ q.issued = r.issued
  BY <1>2, <1>3, JobSet
<1>5. runs' = (runs \ {r}) \cup {q}
  BY <1>2, <1>3 DEF Complete, Became
<1>6. /\ RestTyped' /\ RunsFine' /\ OrdersStand' /\ [Desk!Next]_(Desk!vars)
      /\ \A v \in Workers : workers'[v] = workers[v] => AtRun(v)'
  BY <1>1, <1>4, <1>5, ReplacedSound
<1>7. WorkersFine'
  BY <1>1, <1>6, FreeSound, IdleTyped, WorkersKept
<1> QED BY <1>6, <1>7 DEF Sound, DeskInv

(* River takes a dead worker's job back.                                   *)
LEMMA RescueSound == ASSUME NEW r \in runs, DeskInv, Rescue(r) PROVE Sound
<1>1. UNCHANGED <<clock, requests, account, live, workers>>
  BY DEF Rescue
<1>2. RunFine(r) /\ r \in Runs
  BY DEF DeskInv, RunsFine, RunFine
<1> DEFINE job == IF r.attempt < MaxAttempts THEN "available" ELSE "lost"
<1>3. PICK q : q = [r EXCEPT !.job = job]
  OBVIOUS
<1>4. RunFine(q) /\ Key(q) = Key(r) /\ q.state = r.state /\ q.issued = r.issued
  BY <1>2, <1>3, JobSet
<1>5. runs' = (runs \ {r}) \cup {q}
  BY <1>3 DEF Rescue
<1>6. /\ RestTyped' /\ RunsFine' /\ OrdersStand' /\ [Desk!Next]_(Desk!vars)
      /\ \A v \in Workers : workers'[v] = workers[v] => AtRun(v)'
  BY <1>1, <1>4, <1>5, ReplacedSound
<1>7. WorkersFine'
  <2>1. ASSUME NEW w \in Workers PROVE AtRun(w)' /\ InputFine(w)'
    <3>1. clock <= clock'
      BY <1>1, Bounds DEF DeskInv, RestTyped
    <3>2. InputFine(w)'
      BY <1>1, <1>6, <3>1, InputKept DEF DeskInv
    <3> QED BY <1>1, <1>6, <3>2
  <2> QED BY <1>1, <2>1 DEF DeskInv, WorkersFine
<1> QED BY <1>6, <1>7 DEF Sound, DeskInv

(* An error gives the job back, or leaves the run without one.             *)
LEMMA FailSound == ASSUME NEW w \in Workers, DeskInv, Fail(w) PROVE Sound
<1>1. UNCHANGED <<clock, requests, account, live>> /\ Free(w)
  BY DEF Fail
<1>2. /\ RestTyped' /\ RunsFine' /\ OrdersStand' /\ [Desk!Next]_(Desk!vars)
      /\ \A v \in Workers : workers'[v] = workers[v] => AtRun(v)'
  <2>1. CASE workers[w].step # "decide"
    <3>1. UNCHANGED runs
      BY <2>1 DEF Fail
    <3>2. RunsFine' /\ RestTyped'
      BY <1>1, <3>1 DEF DeskInv, RestTyped, RunsFine, RunFine, Ready, Desk!ReadyAt, Desk!OpenAt
    <3>3. OrdersStand' /\ [Desk!Next]_(Desk!vars)
      BY <1>1, <3>1, Stutter DEF DeskInv, Issued
    <3> QED BY <3>1, <3>2, <3>3, RunsAdded
  <2>2. CASE workers[w].step = "decide"
    <3>1. PICK r \in runs : r = RunOf(w) /\ RunFine(r) /\ r \in Runs
      BY <2>2, RunHeld DEF DeskInv, RunFine
    <3>2. ASSUME NEW job \in {"available", "lost"}, job = "available" => r.attempt < MaxAttempts,
                 Became(w, [RunOf(w) EXCEPT !.job = job])
          PROVE  \E q : /\ runs' = (runs \ {r}) \cup {q} /\ RunFine(q) /\ Key(q) = Key(r)
                        /\ q.issued = r.issued /\ (r.state # "queued" => q.state # "queued")
      <4>1. PICK q : q = [r EXCEPT !.job = job]
        OBVIOUS
      <4>2. RunFine(q) /\ Key(q) = Key(r) /\ q.state = r.state /\ q.issued = r.issued
        BY <3>1, <3>2, <4>1, JobSet
      <4> QED BY <3>1, <3>2, <4>1, <4>2 DEF Became
    <3>3. ASSUME Became(w, [RunOf(w) EXCEPT !.state = IF @ = "queued" THEN "failed" ELSE @,
                                            !.job = "discarded"])
          PROVE  \E q : /\ runs' = (runs \ {r}) \cup {q} /\ RunFine(q) /\ Key(q) = Key(r)
                        /\ q.issued = r.issued /\ (r.state # "queued" => q.state # "queued")
      <4>1. PICK q : q = [r EXCEPT !.state = IF @ = "queued" THEN "failed" ELSE @,
                                   !.job = "discarded"]
        OBVIOUS
      <4>2. RunFine(q) /\ Key(q) = Key(r) /\ q.state # "queued" /\ q.issued = r.issued
        BY <3>1, <4>1, RunFailed
      <4> QED BY <3>1, <3>3, <4>1, <4>2 DEF Became
    <3>4. PICK q : /\ runs' = (runs \ {r}) \cup {q} /\ RunFine(q) /\ Key(q) = Key(r)
                   /\ q.issued = r.issued /\ (r.state # "queued" => q.state # "queued")
      BY <2>2, <3>1, <3>2, <3>3 DEF Fail
    <3> QED BY <1>1, <3>4, ReplacedSound
  <2> QED BY <2>1, <2>2
<1>3. WorkersFine'
  BY <1>1, <1>2, FreeSound, IdleTyped, WorkersKept
<1> QED BY <1>2, <1>3 DEF Sound, DeskInv

-------------------------------------------------------------------------------
(* The transaction that decides.                                           *)

Trades(r) == r.purpose = "automatic" /\ ~Missed(r) /\ ~Blocked(r)
Ends(r, state, issued) == runs' = (runs \ {r}) \cup {[r EXCEPT !.state = state, !.issued = issued]}

(* It ends without an order.                                               *)
DecidesNothing(r) ==
    /\ \E state \in {"completed", "blocked"} : Ends(r, state, FALSE)
    /\ UNCHANGED <<account, live>>

(* The drawdown limit pauses the account.                                  *)
DecidesPause(r) ==
    /\ Ends(r, "blocked", FALSE)
    /\ live' = StillStanding(FALSE)
    /\ account' = [account EXCEPT !.enabled = FALSE, !.version = @ + 1]

(* It issues the batch of its session.                                     *)
DecidesBatch(r) ==
    /\ Trades(r) /\ live = {}
    /\ \E sides \in SUBSET Desk!Sides :
          live' = [session : {r.session}, side : sides, config : {r.config}]
    /\ account' = [account EXCEPT !.version = @ + 1]
    /\ \E state \in {"completed", "blocked"} : Ends(r, state, TRUE)

(* Decide does one of these.                                               *)
LEMMA DecideCases ==
    ASSUME NEW w \in Workers, NEW ranked \in BOOLEAN, NEW r, r = RunOf(w), Decide(w, ranked)
    PROVE  /\ workers[w].step = "decide" /\ Goto(w, "complete") /\ UNCHANGED <<clock, requests>>
           /\ \/ r.state # "queued" /\ UNCHANGED <<account, live, runs>>
              \/ r.state = "queued" /\ (DecidesNothing(r) \/ DecidesPause(r) \/ DecidesBatch(r))
<1>1. workers[w].step = "decide" /\ Goto(w, "complete") /\ UNCHANGED <<clock, requests>>
  BY DEF Decide
<1>2. CASE r.state # "queued"
  BY <1>1, <1>2 DEF Decide
<1>3. CASE r.state = "queued" /\ ~Trades(r)
  <2>1. PICK state \in {"completed", "blocked"} :
           Ends(r, state, FALSE) /\ UNCHANGED <<account, live>>
    BY <1>3 DEF Decide, Trades, Became, Ends
  <2> QED BY <1>1, <1>3, <2>1 DEF DecidesNothing
<1>4. CASE r.state = "queued" /\ Trades(r)
  <2>1. \/ DecidesPause(r)
        \/ \E state \in {"completed", "blocked"} : Ends(r, state, FALSE) /\ UNCHANGED <<account, live>>
        \/ /\ live = {}
           /\ \E sides \in SUBSET (IF ranked THEN {"buy", "sell"} ELSE {"sell"}) \ {{}} :
                 live' = [session : {r.session}, side : sides, config : {r.config}]
           /\ account' = [account EXCEPT !.version = @ + 1]
           /\ Ends(r, IF ranked THEN "completed" ELSE "blocked", TRUE)
    BY <1>4 DEF Decide, Trades, Became, Ends, DecidesPause
  <2>2. SUBSET (IF ranked THEN {"buy", "sell"} ELSE {"sell"}) \ {{}} \subseteq SUBSET Desk!Sides
    BY DEF Desk!Sides
  <2> QED BY <1>1, <1>4, <2>1, <2>2 DEF DecidesNothing, DecidesBatch
<1> QED BY <1>1, <1>2, <1>3, <1>4

(* A worker goes on to complete its job once the run does not wait.        *)
LEMMA GotoComplete ==
    ASSUME DeskInv, NEW w \in Workers, Goto(w, "complete"),
           NEW r \in runs, NEW q \in runs', workers[w].run = {Key(r)}, Key(q) = Key(r),
           q.state # "queued"
    PROVE  /\ AtRun(w)' /\ InputFine(w)'
           /\ \E d \in WorkerStates : workers' = [workers EXCEPT ![w] = d]
<1> DEFINE state == [workers[w] EXCEPT !.step = "complete"]
<1>1. workers[w] \in WorkerStates
  BY DEF DeskInv, WorkersFine
<1>2. PICK d \in WorkerStates : d = state
  BY <1>1 DEF WorkerStates, Steps
<1>3. workers' = [workers EXCEPT ![w] = d] /\ workers'[w] = d
      /\ d.step = "complete" /\ d.run = {Key(r)}
  BY <1>1, <1>2 DEF Goto, DeskInv, WorkersFine, WorkerStates
<1>4. AtRun(w)' /\ InputFine(w)'
  BY <1>3 DEF AtRun, InputFine, Key
<1> QED BY <1>3, <1>4

(* What each outcome is to the runs.                                       *)
LEMMA EndsSound ==
    ASSUME DeskInv, NEW r \in runs, r.state = "queued", UNCHANGED clock,
           NEW state \in {"completed", "blocked"}, NEW issued \in BOOLEAN,
           Ends(r, state, issued), issued => r.purpose = "automatic"
    PROVE  /\ RunsFine' /\ \A v \in Workers : workers'[v] = workers[v] => AtRun(v)'
           /\ \E q \in runs' : Key(q) = Key(r) /\ q.state # "queued"
           /\ ~issued => Issued' = Issued
           /\ issued => Issued' = Issued \cup {r.session}
<1>1. RunFine(r) /\ r.issued = FALSE
  BY DEF DeskInv, RunsFine, RunFine, Runs
<1>2. PICK q : q = [r EXCEPT !.state = state, !.issued = issued]
  OBVIOUS
<1>3. RunFine(q) /\ Key(q) = Key(r) /\ q.state = state /\ q.issued = issued
  BY <1>1, <1>2, RunEnded
<1>4. runs' = (runs \ {r}) \cup {q}
  BY <1>2 DEF Ends
<1>5. RunFine(q)'
  BY <1>3 DEF RunFine, Ready, Desk!ReadyAt, Desk!OpenAt, Runs
<1>6. /\ RunsFine'
      /\ q.issued = r.issued => Issued' = Issued
      /\ q.issued => Issued' = Issued \cup {r.session}
      /\ \A v \in Workers : workers'[v] = workers[v] => AtRun(v)'
  BY <1>3, <1>4, <1>5, RunReplaced DEF DeskInv, WorkersFine
<1>7. q \in runs' /\ q.state # "queued"
  BY <1>3, <1>4
<1>8. ~issued => q.issued = r.issued
  BY <1>1, <1>3
<1> QED BY <1>3, <1>6, <1>7, <1>8

(* To the desk, an evaluation without orders is no step,                   *)
LEMMA NothingSound ==
    ASSUME DeskInv, NEW r \in runs, r.state = "queued", UNCHANGED <<clock, requests>>,
           DecidesNothing(r)
    PROVE  /\ RestTyped' /\ RunsFine' /\ OrdersStand' /\ [Desk!Next]_(Desk!vars)
           /\ \A v \in Workers : workers'[v] = workers[v] => AtRun(v)'
           /\ \E q \in runs' : Key(q) = Key(r) /\ q.state # "queued"
<1>1. PICK state \in {"completed", "blocked"} : Ends(r, state, FALSE)
  BY DEF DecidesNothing
<1>2. /\ RunsFine' /\ \A v \in Workers : workers'[v] = workers[v] => AtRun(v)'
      /\ \E q \in runs' : Key(q) = Key(r) /\ q.state # "queued"
      /\ Issued' = Issued
  BY <1>1, EndsSound
<1>3. OrdersStand' /\ [Desk!Next]_(Desk!vars)
  BY <1>2, Stutter DEF DeskInv, DecidesNothing
<1> QED BY <1>2, <1>3 DEF DeskInv, RestTyped, DecidesNothing

(* a pause by the risk rules is a change of the settings,                  *)
LEMMA PauseSound ==
    ASSUME DeskInv, NEW r \in runs, r.state = "queued", UNCHANGED <<clock, requests>>,
           DecidesPause(r)
    PROVE  /\ RestTyped' /\ RunsFine' /\ OrdersStand' /\ [Desk!Next]_(Desk!vars)
           /\ account'.version > account.version
           /\ \A v \in Workers : workers'[v] = workers[v] => AtRun(v)'
           /\ \E q \in runs' : Key(q) = Key(r) /\ q.state # "queued"
<1>1. /\ RunsFine' /\ \A v \in Workers : workers'[v] = workers[v] => AtRun(v)'
      /\ \E q \in runs' : Key(q) = Key(r) /\ q.state # "queued"
      /\ Issued' = Issued
  BY EndsSound DEF DecidesPause
<1>2. account \in Accounts /\ account.version \in Nat /\ account.version + 1 \in Nat
      /\ account.version + 1 > account.version /\ FALSE \in BOOLEAN
  BY DEF DeskInv, RestTyped, Accounts
<1>3. /\ account'.version = account.version + 1 /\ account'.config = account.config
      /\ account'.enabled = FALSE /\ account'.pending = account.pending
      /\ account.pending \in Desk!Pendings
  BY <1>2 DEF Accounts, DecidesPause
<1>4. account' = [account EXCEPT !.enabled = FALSE, !.version = account.version + 1]
  BY DEF DecidesPause
<1>5. account' \in Accounts
  BY <1>2, <1>4, Zenon DEF Accounts
<1>6. live' \subseteq live /\ live' = {o \in live : Desk!Effective(o)}
  BY DEF DecidesPause, StillStanding
<1>7. OrdersStand'
  BY <1>6 DEF OrdersStand, Desk!Effective, Desk!TargetAt, Desk!OpenAt
<1>8. Desk!Change
  BY <1>1, <1>3, <1>6 DEF Desk!Change, Issued
<1> QED BY <1>1, <1>2, <1>3, <1>5, <1>6, <1>7, <1>8 DEF DeskInv, RestTyped, Desk!Next

(* and a batch is issued once, in time, and with authority.                *)
LEMMA BatchSound ==
    ASSUME DeskInv, NEW r \in runs, r.state = "queued", UNCHANGED <<clock, requests>>,
           DecidesBatch(r)
    PROVE  /\ RestTyped' /\ RunsFine' /\ OrdersStand' /\ [Desk!Next]_(Desk!vars)
           /\ account'.version > account.version
           /\ \A v \in Workers : workers'[v] = workers[v] => AtRun(v)'
           /\ \E q \in runs' : Key(q) = Key(r) /\ q.state # "queued"
<1>1. /\ RunsFine' /\ \A v \in Workers : workers'[v] = workers[v] => AtRun(v)'
      /\ \E q \in runs' : Key(q) = Key(r) /\ q.state # "queued"
      /\ Issued' = Issued \cup {r.session}
  <2>1. PICK state \in {"completed", "blocked"} : Ends(r, state, TRUE)
    BY DEF DecidesBatch
  <2> QED BY <2>1, EndsSound DEF DecidesBatch, Trades
<1>2. /\ r.purpose = "automatic" /\ ~Missed(r)
      /\ account.enabled /\ account.config = r.config /\ ~DueAt(Desk!TargetAt(r.session))
      /\ ~ \E v \in runs : v.session = r.session /\ v.issued
  BY DEF DecidesBatch, Trades, Blocked
<1>3. r.session \in Sessions /\ r.session \in Nat /\ r.config \in Configs /\ Ready(r.session)
      /\ clock \in Nat
  <2>1. RunFine(r)
    BY DEF DeskInv, RunsFine
  <2>2. r.session \in Sessions /\ r.config \in Configs
    BY <2>1 DEF RunFine, Runs
  <2>3. Ready(r.session)
    BY <1>2, <2>1 DEF RunFine
  <2>4. clock \in Nat
    BY Bounds DEF DeskInv, RestTyped
  <2> QED BY <2>2, <2>3, <2>4, Bounds
<1>4. Desk!InForceAt(Desk!TargetAt(r.session)) = r.config
  BY <1>2 DEF DueAt, Desk!InForceAt
<1>5. account \in Accounts /\ account.version \in Nat /\ account.version + 1 \in Nat
      /\ account.version + 1 > account.version
  BY DEF DeskInv, RestTyped, Accounts
<1>6. /\ account'.version = account.version + 1 /\ account'.config = account.config
      /\ account'.enabled = account.enabled /\ account'.pending = account.pending
  BY <1>5 DEF Accounts, DecidesBatch
<1>7. account' = [account EXCEPT !.version = account.version + 1]
  BY DEF DecidesBatch
<1>8. account' \in Accounts
  BY <1>5, <1>7, Zenon DEF Accounts
<1>9. PICK sides \in SUBSET Desk!Sides :
         live' = [session : {r.session}, side : sides, config : {r.config}]
  BY DEF DecidesBatch
<1>10. ASSUME NEW o \in live'
       PROVE  o \in Desk!Orders /\ o.session = r.session /\ o.config = r.config
  BY <1>3, <1>9 DEF Desk!Orders
<1>11. OrdersStand'
  <2> SUFFICES ASSUME NEW o \in live' PROVE Desk!Authorised(o)'
    BY DEF OrdersStand
  <2> QED BY <1>2, <1>4, <1>6, <1>10
          DEF Desk!Authorised, Desk!InForceAt, Desk!TargetAt, Desk!OpenAt
<1>12. Desk!Issue(r.session)
  <2>1. r.session \notin Issued
    BY <1>2 DEF Issued
  <2>2. clock < Desk!TargetAt(r.session)
    BY <1>2, <1>3 DEF Missed, Desk!TargetAt, Desk!OpenAt
  <2>3. live' \subseteq [session : {r.session}, side : Desk!Sides, config : {r.config}]
    BY <1>9
  <2> QED BY <1>1, <1>2, <1>3, <1>4, <1>6, <2>1, <2>2, <2>3
          DEF Desk!Issue, DecidesBatch, Ready, Issued
<1>13. [Desk!Next]_(Desk!vars)
  BY <1>3, <1>12 DEF Desk!Next
<1>14. RestTyped'
  BY <1>8, <1>10 DEF DeskInv, RestTyped
<1> QED BY <1>1, <1>5, <1>6, <1>11, <1>13, <1>14

(* So the decision is sound.                                               *)
LEMMA DecideSound ==
    ASSUME NEW w \in Workers, NEW ranked \in BOOLEAN, DeskInv, Decide(w, ranked) PROVE Sound
<1>1. workers[w].step = "decide"
  BY DEF Decide
<1>2. PICK r \in runs : r = RunOf(w) /\ workers[w].run = {Key(r)} /\ RunFine(r)
  BY <1>1, RunHeld DEF DeskInv
<1>3. /\ Goto(w, "complete") /\ UNCHANGED <<clock, requests>>
      /\ \/ r.state # "queued" /\ UNCHANGED <<account, live, runs>>
         \/ r.state = "queued" /\ (DecidesNothing(r) \/ DecidesPause(r) \/ DecidesBatch(r))
  BY <1>2, DecideCases
<1>4. /\ RestTyped' /\ RunsFine' /\ OrdersStand' /\ [Desk!Next]_(Desk!vars)
      /\ account' = account \/ account'.version > account.version
      /\ \A v \in Workers : workers'[v] = workers[v] => AtRun(v)'
      /\ \E q \in runs' : Key(q) = Key(r) /\ q.state # "queued"
  <2>1. CASE r.state # "queued" /\ UNCHANGED <<account, live, runs>>
    <3>1. RestTyped' /\ RunsFine'
      BY <1>3, <2>1 DEF DeskInv, RestTyped, RunsFine, RunFine, Ready, Desk!ReadyAt, Desk!OpenAt
    <3>2. OrdersStand' /\ [Desk!Next]_(Desk!vars)
      BY <1>3, <2>1, Stutter DEF DeskInv, Issued
    <3> QED BY <2>1, <3>1, <3>2, RunsAdded
  <2>2. CASE r.state = "queued" /\ DecidesNothing(r)
    BY <1>3, <2>2, NothingSound DEF DecidesNothing
  <2>3. CASE r.state = "queued" /\ DecidesPause(r)
    BY <1>3, <2>3, PauseSound
  <2>4. CASE r.state = "queued" /\ DecidesBatch(r)
    BY <1>3, <2>4, BatchSound
  <2> QED BY <1>3, <2>1, <2>2, <2>3, <2>4
<1>5. WorkersFine'
  <2>1. PICK q \in runs' : Key(q) = Key(r) /\ q.state # "queued"
    BY <1>4
  <2>2. PICK d \in WorkerStates : workers' = [workers EXCEPT ![w] = d]
    BY <1>2, <1>3, <2>1, GotoComplete
  <2>3. AtRun(w)' /\ InputFine(w)'
    BY <1>2, <1>3, <2>1, GotoComplete
  <2> QED BY <1>3, <1>4, <2>2, <2>3, WorkersKept
<1> QED BY <1>4, <1>5 DEF Sound, DeskInv

-------------------------------------------------------------------------------
(* Every step keeps the invariant and is a step of the desk or none.       *)
LEMMA StepSound == DeskInv /\ [Next]_vars => Sound
<1> SUFFICES ASSUME DeskInv, [Next]_vars PROVE Sound
  OBVIOUS
<1>1. CASE Tick
  BY <1>1, TickSound
<1>2. CASE \E o \in live : Resolve(o)
  BY <1>2, ResolveSound
<1>3. CASE \E on \in BOOLEAN, c \in Configs : Configure(on, c)
  BY <1>3, ConfigureSound
<1>4. CASE StartResearch
  BY <1>4, StartResearchSound
<1>5. CASE \E w \in Workers :
              \/ Maintain(w) \/ ReadInput(w) \/ SaveRun(w)
              \/ \E r \in runs : Fetch(w, r)
              \/ Complete(w) \/ Fail(w) \/ Crash(w)
  BY <1>5, MaintainSound, ReadInputSound, SaveRunSound, FetchSound, CompleteSound, FailSound,
     CrashSound
<1>6. CASE \E w \in Workers, ranked \in BOOLEAN : Decide(w, ranked)
  BY <1>6, DecideSound
<1>7. CASE \E r \in runs : Rescue(r)
  BY <1>7, RescueSound
<1>8. CASE UNCHANGED vars
  <2>1. UNCHANGED <<clock, requests, account, live, runs, workers>>
    BY <1>8 DEF vars
  <2>2. RestTyped' /\ RunsFine'
    BY <2>1 DEF DeskInv, RestTyped, RunsFine, RunFine, Ready, Desk!ReadyAt, Desk!OpenAt
  <2>3. WorkersFine'
    BY <2>1 DEF DeskInv, WorkersFine, AtRun, InputFine, Ready, Desk!ReadyAt, Desk!OpenAt, InForce,
                Desk!InForceAt
  <2>4. OrdersStand' /\ [Desk!Next]_(Desk!vars)
    BY <2>1, Stutter DEF DeskInv, Issued
  <2> QED BY <2>2, <2>3, <2>4 DEF Sound, DeskInv
<1> QED BY <1>1, <1>2, <1>3, <1>4, <1>5, <1>6, <1>7, <1>8 DEF Next

(* The invariant holds in every reachable state (evaluate_account.go,      *)
(* jobs.go, configure_automation.go).                                      *)
THEOREM DeskInvariance == Spec => []DeskInv
<1>1. Init => DeskInv
  BY InitSound
<1>2. DeskInv /\ [Next]_vars => DeskInv'
  BY StepSound DEF Sound
<1> QED BY <1>1, <1>2, PTL DEF Spec

(* The types; a run's claim is unique, and one that waits has its job      *)
(* (ClaimEvaluation, enqueue).                                             *)
THEOREM EvaluationTypes == Spec => []TypeOK
<1>1. DeskInv => TypeOK
  <2> SUFFICES ASSUME DeskInv PROVE TypeOK
    OBVIOUS
  <2>1. ASSUME NEW w \in Workers
        PROVE  workers[w].step \in Steps /\ workers[w].run \subseteq {Key(r) : r \in runs}
    BY DEF DeskInv, WorkersFine, WorkerStates, AtRun
  <2> QED BY <2>1 DEF DeskInv, RestTyped, RunsFine, RunFine, TypeOK, Desk!Orders
<1> QED BY <1>1, DeskInvariance, PTL

(* A readiness computed without the lock is saved only for the settings it *)
(* was computed for (Queue's version check).                               *)
THEOREM ReadinessFits == Spec => []InputMatches
<1>1. DeskInv => InputMatches
  BY DEF DeskInv, RunsFine, RunFine, InputMatches
<1> QED BY <1>1, DeskInvariance, PTL

(* Whatever interleaves with the evaluations, the automation keeps the     *)
(* promises of TradingDesk (Handle, ConfigureAutomationHandler, Execute).  *)
THEOREM AutomationKeepsDesk == Spec => DeskKept
<1>1. Init => Desk!Init
  BY InitSound
<1>2. DeskInv /\ [Next]_vars => [Desk!Next]_(Desk!vars)
  BY StepSound DEF Sound
<1> QED BY <1>1, <1>2, DeskInvariance, PTL DEF Spec, DeskKept, Desk!Spec

===============================================================================
