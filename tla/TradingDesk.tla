------------------------------ MODULE TradingDesk ------------------------------
(***************************************************************************)
(* What the automation of an investment account promises, as if each       *)
(* command and each decision were one step: which orders it may have       *)
(* standing, for which session, under whose settings.  Evaluations         *)
(* implements it with jobs that read, compute and decide at different      *)
(* times, beside the user's requests.                                      *)
(*                                                                         *)
(* Session s opens at OpenAt(s), closes, and may be evaluated from         *)
(* ReadyAt(s), the half hour after the close; its orders are for the next  *)
(* session's open.                                                         *)
(***************************************************************************)
EXTENDS Integers

CONSTANTS
    Configs,    \* strategy, universe and risk policy
    NoConfig,   \* no settings to come
    Sessions    \* the sessions that are evaluated

VARIABLES
    clock,
    enabled,    \* whether the automation runs
    config,     \* the settings in force
    pending,    \* the settings to come, and the open from which they are in force
    live,       \* the automatic orders that stand
    done        \* the sessions whose batch has been issued

vars == <<clock, enabled, config, pending, live, done>>

Sides == {"buy", "sell"}   \* an order here is all that a batch buys, or sells

OpenAt(s) == 3 * s
CloseAt(s) == OpenAt(s) + 1
ReadyAt(s) == OpenAt(s) + 2
TargetAt(s) == OpenAt(s + 1)

Orders == [session : Sessions, side : Sides, config : Configs]
NoPending == [config |-> NoConfig, at |-> 0]
Pendings == [config : Configs, at : Nat] \cup {NoPending}

Due == pending # NoPending /\ pending.at <= clock
InForceAt(t) == IF pending # NoPending /\ pending.at <= t THEN pending.config ELSE config

(* An order whose open has come is the market's: nothing withdraws it.     *)
Effective(o) == TargetAt(o.session) <= clock

(* A sell only reduces the risk, whatever the settings; a buy is right     *)
(* under the settings that will be in force when it is made.               *)
Authorised(o) == enabled /\ (o.side = "buy" => InForceAt(TargetAt(o.session)) = o.config)

Init ==
    /\ clock = 0
    /\ enabled \in BOOLEAN /\ config \in Configs /\ pending = NoPending
    /\ live = {} /\ done = {}

Advance == clock' = clock + 1 /\ UNCHANGED <<enabled, config, pending, live, done>>

(* The user's settings, or a pause: what stands without authority goes.    *)
Change ==
    /\ enabled' \in BOOLEAN /\ pending' \in Pendings
    /\ live' \subseteq live
    /\ \A o \in live : Effective(o) => o \in live'
    /\ \A o \in live' : Effective(o) \/ Authorised(o)'
    /\ UNCHANGED <<clock, config, done>>

Adopt ==
    /\ Due
    /\ config' = pending.config /\ pending' = NoPending
    /\ UNCHANGED <<clock, enabled, live, done>>

(* One batch for a session, before its target opens, and only when no      *)
(* earlier order is still open.                                            *)
Issue(s) ==
    /\ enabled /\ s \notin done /\ live = {}
    /\ ReadyAt(s) <= clock /\ clock < TargetAt(s)
    /\ live' \subseteq [session : {s}, side : Sides, config : {InForceAt(TargetAt(s))}]
    /\ done' = done \cup {s}
    /\ UNCHANGED <<clock, enabled, config, pending>>

Resolve(o) ==
    /\ o \in live /\ Effective(o)
    /\ live' = live \ {o}
    /\ UNCHANGED <<clock, enabled, config, pending, done>>

Next ==
    \/ Advance \/ Change \/ Adopt
    \/ \E s \in Sessions : Issue(s)
    \/ \E o \in live : Resolve(o)

Spec == Init /\ [][Next]_vars

===============================================================================
