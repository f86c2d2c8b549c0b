------------------------------ MODULE Evaluations ------------------------------
(***************************************************************************)
(* The automation of one investment account: EvaluateAccountHandler,       *)
(* ConfigureAutomationHandler and the worker's account and evaluate jobs   *)
(* (backend/internal/modules/investment/application/command).              *)
(*                                                                         *)
(* A job computes outside any transaction and decides in one that holds    *)
(* the account's lock, so that each transaction is one step here and the   *)
(* requests, the jobs of other workers and the market open come between.   *)
(* What the ranking, the risk rules and the data say is any answer they    *)
(* can give; PaperAccount models the money, the fills and the execution,   *)
(* of which only the end of an order is seen here.                         *)
(***************************************************************************)
EXTENDS Integers, FiniteSets

CONSTANTS
    Configs,        \* strategy, universe and risk policy
    NoConfig,
    StrategyOf(_),  \* the strategy version of a configuration
    Last,           \* bound: the last session that is evaluated
    Workers,
    MaxAttempts,    \* River's attempt limit for the investment queue: 5
    MaxRequests     \* bound on the user's requests

ASSUME EvaluationsAssumption ==
    /\ Last \in Nat /\ MaxAttempts \in Nat \ {0} /\ MaxRequests \in Nat
    /\ NoConfig \notin Configs

VARIABLES
    clock,
    requests,   \* how many requests the user has made
    account,    \* investment.accounts
    live,       \* the automatic rows of investment.orders that have not ended
    runs,       \* investment.evaluation_runs and the River job of each
    workers     \* what each worker is doing

vars == <<clock, requests, account, live, runs, workers>>

Sessions == 0 .. Last

Desk == INSTANCE TradingDesk WITH
    enabled <- account.enabled, config <- account.config, pending <- account.pending,
    done <- {r.session : r \in {v \in runs : v.issued}}

OpenAt(s) == Desk!OpenAt(s)
Horizon == OpenAt(Last + 1)

Strategies == {StrategyOf(c) : c \in Configs}
Purposes == {"automatic", "research"}

Accounts == [version : Nat, enabled : BOOLEAN, config : Configs, pending : Desk!Pendings]

(* fresh: the configuration that the run has frozen is the one that its    *)
(* readiness was computed for, or no readiness was.                        *)
Runs == [session : Sessions, strategy : Strategies, purpose : Purposes, config : Configs,
         state : {"queued", "completed", "blocked", "failed"}, issued : BOOLEAN, fresh : BOOLEAN,
         job : {"available", "running", "completed", "discarded", "lost"},
         attempt : 0 .. MaxAttempts]

(* Which run a worker is at, and the input it has read: an account version *)
(* and its configuration, of the time at; version 0 is no input.           *)
NoInput == [version |-> 0, config |-> NoConfig, at |-> 0]
Idle == [step |-> "idle", session |-> 0, input |-> NoInput, run |-> {}]
Steps == {"idle", "ready", "save", "decide", "complete"}

Key(r) == <<r.session, r.strategy, r.purpose>>

(* An account that has just been created, or that was enabled before.      *)
Init ==
    /\ clock = 0 /\ requests = 0
    /\ \E c \in Configs :
          account \in [version : {1}, enabled : BOOLEAN, config : {c}, pending : {Desk!NoPending}]
    /\ live = {} /\ runs = {}
    /\ workers = [w \in Workers |-> Idle]

-------------------------------------------------------------------------------
(* The clock, the market and the calendar.                                 *)

Tick == /\ clock < Horizon /\ clock' = clock + 1
        /\ UNCHANGED <<requests, account, live, runs, workers>>

(* An effective order is filled, expires or is refused by the executor:    *)
(* each in a transaction that saves the account.                           *)
Resolve(o) ==
    /\ o \in live /\ Desk!Effective(o)
    /\ live' = live \ {o}
    /\ account' = [account EXCEPT !.version = @ + 1]
    /\ UNCHANGED <<clock, requests, runs, workers>>

NextOpen == CHOOSE t \in {OpenAt(s) : s \in 0 .. Last + 2} :
               t > clock /\ \A s \in 0 .. Last + 2 : OpenAt(s) > clock => t <= OpenAt(s)
Closed == {s \in Sessions : Desk!CloseAt(s) <= clock}
LatestCompleted == CHOOSE s \in Closed : \A d \in Closed : d <= s

(* Settings whose time has come replace those in force, at the first       *)
(* transaction that looks.                                                 *)
DueAt(t) == account.pending # Desk!NoPending /\ account.pending.at <= t
PromotedAt(t) ==
    IF DueAt(t) THEN [account EXCEPT !.config = account.pending.config,
                                     !.pending = Desk!NoPending, !.version = @ + 1]
    ELSE account

-------------------------------------------------------------------------------
(* The user.                                                               *)

(* CancelBeforeOpen: an effective order only advances.                     *)
StillStanding(buysOnly) == {o \in live : Desk!Effective(o) \/ (buysOnly /\ o.side = "sell")}

(* ConfigureAutomationHandler, in one transaction.  A stale version, a     *)
(* repeated key or missing data leave everything as it is.                 *)
(* Fault: only a pause cancels.                                            *)
ConfigureKeeping(on, c) ==
    /\ requests < MaxRequests /\ requests' = requests + 1
    /\ live' = IF ~on THEN StillStanding(FALSE) ELSE live
    /\ account' = [account EXCEPT !.enabled = on, !.version = @ + 1,
                                  !.pending = IF c # account.config
                                              THEN [config |-> c, at |-> NextOpen] ELSE @]
    /\ UNCHANGED <<clock, runs, workers>>
Configure(on, c) ==
    /\ requests < MaxRequests /\ requests' = requests + 1
    /\ live' = IF ~on \/ c # account.config THEN StillStanding(on) ELSE live
    /\ account' = [account EXCEPT !.enabled = on, !.version = @ + 1,
                                  !.pending = IF c # account.config
                                              THEN [config |-> c, at |-> NextOpen] ELSE @]
    /\ UNCHANGED <<clock, runs, workers>>

NewRun(session, config, purpose, fresh) ==
    [session |-> session, strategy |-> StrategyOf(config), purpose |-> purpose, config |-> config,
     state |-> "queued", issued |-> FALSE, fresh |-> fresh, job |-> "available", attempt |-> 0]

(* ClaimEvaluation: the run of a session, a strategy and a purpose.        *)
Claimed(session, config, purpose) ==
    \E r \in runs : Key(r) = <<session, StrategyOf(config), purpose>>

(* enqueue, in the caller's transaction: due settings are adopted, the run *)
(* is inserted unless there is one, and its job with it.                   *)
(* Fault: whether there is one is not asked.                               *)
EnqueueAgain(session, purpose, at, readyFor) ==
    LET config == PromotedAt(at).config IN
    /\ account' = PromotedAt(at)
    /\ runs' = runs \cup {NewRun(session, config, purpose, config \in readyFor)}
Enqueue(session, purpose, at, readyFor) ==
    LET config == PromotedAt(at).config IN
    /\ account' = PromotedAt(at)
    /\ runs' = IF Claimed(session, config, purpose) THEN runs
               ELSE runs \cup {NewRun(session, config, purpose, config \in readyFor)}

(* Start: a research run of the session completed last.                    *)
StartResearch ==
    /\ requests < MaxRequests /\ requests' = requests + 1
    /\ Closed # {}
    /\ Enqueue(LatestCompleted, "research", clock, Configs)
    /\ UNCHANGED <<clock, live, workers>>

-------------------------------------------------------------------------------
(* The account job: maintain, from the end of its reconciliation.          *)

Goto(w, step) == workers' = [workers EXCEPT ![w].step = step]
Free(w) == workers' = [workers EXCEPT ![w] = Idle]

(* WorkDue has listed the account; half an hour has passed since the       *)
(* close; due settings are adopted with the session's net asset value.  It *)
(* goes on only for an account that is enabled.                            *)
Maintain(w) ==
    /\ workers[w].step = "idle"
    /\ account.enabled \/ account.pending # Desk!NoPending
    /\ Closed # {} /\ Desk!ReadyAt(LatestCompleted) <= clock
    /\ account' = PromotedAt(clock)
    /\ IF account.enabled
       THEN workers' = [workers EXCEPT ![w] = [Idle EXCEPT !.step = "ready", !.session = LatestCompleted]]
       ELSE UNCHANGED workers
    /\ UNCHANGED <<clock, requests, live, runs>>

(* readyInput, without a lock: nothing is computed for a run that exists.  *)
ReadInput(w) ==
    LET config == PromotedAt(clock).config IN
    /\ workers[w].step = "ready"
    /\ workers' = [workers EXCEPT
          ![w].step = "save",
          ![w].input = IF Claimed(workers[w].session, config, "automatic") THEN NoInput
                       ELSE [version |-> account.version, config |-> config, at |-> clock]]
    /\ UNCHANGED <<clock, requests, account, live, runs>>

(* Queue's transaction.  The account must be the one the input was         *)
(* computed for.                                                           *)
(* Fault: it need not.                                                     *)
SaveRunUnchecked(w) ==
    LET input == workers[w].input
        readyFor == IF input = NoInput THEN Configs ELSE {input.config} IN
    /\ workers[w].step = "save"
    /\ Enqueue(workers[w].session, "automatic", IF input = NoInput THEN clock ELSE input.at, readyFor)
    /\ Free(w)
    /\ UNCHANGED <<clock, requests, live>>
SaveRun(w) ==
    LET input == workers[w].input
        readyFor == IF input = NoInput THEN Configs ELSE {input.config} IN
    /\ workers[w].step = "save"
    /\ IF input # NoInput /\ input.version # account.version
       THEN UNCHANGED <<account, runs>>   \* ErrVersionConflict
       ELSE Enqueue(workers[w].session, "automatic", IF input = NoInput THEN clock ELSE input.at,
                    readyFor)
    /\ Free(w)
    /\ UNCHANGED <<clock, requests, live>>

-------------------------------------------------------------------------------
(* The evaluate job: Handle.                                               *)

RunOf(w) == CHOOSE r \in runs : Key(r) \in workers[w].run
Became(w, r) == runs' = (runs \ {RunOf(w)}) \cup {r}

(* Prepare reads the run and what it has frozen.                           *)
Fetch(w, r) ==
    /\ workers[w].step = "idle" /\ r.job = "available"
    /\ runs' = (runs \ {r}) \cup {[r EXCEPT !.job = "running", !.attempt = @ + 1]}
    /\ workers' = [workers EXCEPT ![w] = [Idle EXCEPT
                      !.step = IF r.state = "queued" THEN "decide" ELSE "complete",
                      !.run = {Key(r)}]]
    /\ UNCHANGED <<clock, requests, account, live>>

Missed(r) == clock >= Desk!TargetAt(r.session)
(* What keeps an automatic run that is in time from trading.               *)
(* Fault: settings that wait for the next session are not looked at.       *)
BlockedNow(r) ==
    \/ ~account.enabled
    \/ account.config # r.config
    \/ \E v \in runs : v.session = r.session /\ v.issued
    \/ \E o \in live : Desk!Effective(o)
Blocked(r) ==
    \/ ~account.enabled                                             \* automation_paused
    \/ account.config # r.config                                    \* configuration_changed
    \/ DueAt(Desk!TargetAt(r.session))                              \* configuration_pending_next_session
    \/ \E v \in runs : v.session = r.session /\ v.issued            \* daily_order_batch_already_issued
    \/ \E o \in live : Desk!Effective(o)                            \* unresolved_effective_orders

(* The transaction that decides, with the ranking computed before it from  *)
(* what the run has frozen, if that was possible.  The risk rules may      *)
(* pause the account; they plan orders only when none stands, and without  *)
(* a ranking only sells.  An order whose cash has run out is left out.     *)
Decide(w, ranked) ==
    LET r == RunOf(w)
        Ends(state, issued) == Became(w, [r EXCEPT !.state = state, !.issued = issued])
        trades == r.purpose = "automatic" /\ ~Missed(r) /\ ~Blocked(r) IN
    /\ workers[w].step = "decide"
    /\ \/ r.state # "queued" /\ UNCHANGED <<account, live, runs>>
       \/ /\ r.state = "queued" /\ ~trades
          /\ Ends(IF Missed(r) \/ (r.purpose = "research" /\ ranked)
                  THEN "completed" ELSE "blocked", FALSE)
          /\ UNCHANGED <<account, live>>
       \/ /\ r.state = "queued" /\ trades
          /\ \/ /\ Ends("blocked", FALSE)                           \* drawdown_pause
                /\ live' = StillStanding(FALSE)
                /\ account' = [account EXCEPT !.enabled = FALSE, !.version = @ + 1]
             \/ /\ \E state \in {"completed", "blocked"} : Ends(state, FALSE)
                /\ UNCHANGED <<account, live>>
             \/ /\ live = {}
                /\ \E sides \in SUBSET (IF ranked THEN {"buy", "sell"} ELSE {"sell"}) \ {{}} :
                      live' = [session : {r.session}, side : sides, config : {r.config}]
                /\ account' = [account EXCEPT !.version = @ + 1]
                /\ Ends(IF ranked THEN "completed" ELSE "blocked", TRUE)
    /\ Goto(w, "complete")
    /\ UNCHANGED <<clock, requests>>

Complete(w) ==
    /\ workers[w].step = "complete"
    /\ Became(w, [RunOf(w) EXCEPT !.job = "completed"])
    /\ Free(w)
    /\ UNCHANGED <<clock, requests, account, live>>

(* An error anywhere: of the account job, whose next execution starts      *)
(* anew, or of the evaluation, which the queue retries until its last      *)
(* attempt, that marks the run.                                            *)
Fail(w) ==
    /\ workers[w].step \in {"ready", "save", "decide"}
    /\ \/ workers[w].step # "decide" /\ UNCHANGED runs
       \/ /\ workers[w].step = "decide" /\ RunOf(w).attempt < MaxAttempts
          /\ Became(w, [RunOf(w) EXCEPT !.job = "available"])
       \/ /\ workers[w].step = "decide" /\ RunOf(w).attempt = MaxAttempts
          /\ \/ Became(w, [RunOf(w) EXCEPT !.state = IF @ = "queued" THEN "failed" ELSE @,
                                            !.job = "discarded"])
             \/ Became(w, [RunOf(w) EXCEPT !.job = "lost"])
    /\ Free(w)
    /\ UNCHANGED <<clock, requests, account, live>>

(* The process dies; its job stays running until River rescues it.         *)
Crash(w) ==
    /\ workers[w].step # "idle"
    /\ Free(w)
    /\ UNCHANGED <<clock, requests, account, live, runs>>
Rescue(r) ==
    /\ r.job = "running" /\ \A w \in Workers : Key(r) \notin workers[w].run
    /\ runs' = (runs \ {r}) \cup
                 {[r EXCEPT !.job = IF r.attempt < MaxAttempts THEN "available" ELSE "lost"]}
    /\ UNCHANGED <<clock, requests, account, live, workers>>

-------------------------------------------------------------------------------
Next ==
    \/ Tick
    \/ \E o \in live : Resolve(o)
    \/ \E on \in BOOLEAN, c \in Configs : Configure(on, c)
    \/ StartResearch
    \/ \E w \in Workers :
          \/ Maintain(w) \/ ReadInput(w) \/ SaveRun(w)
          \/ \E r \in runs : Fetch(w, r)
          \/ \E ranked \in BOOLEAN : Decide(w, ranked)
          \/ Complete(w) \/ Fail(w) \/ Crash(w)
    \/ \E r \in runs : Rescue(r)

Spec == Init /\ [][Next]_vars

-------------------------------------------------------------------------------
(* Properties.                                                             *)

(* Every variable has its type; a run's claim is unique; and a run that    *)
(* waits has a job that will take it up, unless the queue gave up on it.   *)
TypeOK ==
    /\ clock \in 0 .. Horizon /\ requests \in 0 .. MaxRequests
    /\ account \in Accounts
    /\ live \subseteq [session : Sessions, side : Desk!Sides, config : Configs]
    /\ runs \subseteq Runs
    /\ \A r, v \in runs : Key(r) = Key(v) => r = v
    /\ \A r \in runs :
          /\ r.state = "queued" => r.job \in {"available", "running", "lost"}
          /\ r.issued => r.state \in {"completed", "blocked"} /\ r.purpose = "automatic"
    /\ \A w \in Workers : workers[w].step \in Steps /\ workers[w].run \subseteq {Key(r) : r \in runs}

(* Whatever the interleaving of evaluations, their retries, the requests   *)
(* and the opens: one batch a session, before its target opens, by an      *)
(* account that is enabled, under the settings that will be in force then; *)
(* and a pause or a change of settings withdraws what it should.           *)
DeskKept == Desk!Spec

(* A readiness computed without the lock is used only for the settings it  *)
(* was computed for.                                                       *)
InputMatches == \A r \in runs : r.fresh

===============================================================================
