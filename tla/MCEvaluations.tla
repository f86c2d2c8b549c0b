---------------------------- MODULE MCEvaluations ----------------------------
(* Configurations of different strategies; the workers are alike, and so   *)
(* are the configurations.                                                 *)
EXTENDS Evaluations, TLC

CONSTANTS a, b, w1, w2

MCStrategyOf(config) == config
Alike == {f @@ g : f \in Permutations({w1, w2}), g \in Permutations({a, b})}

(* River has one account job of an account per quarter of an hour, and a   *)
(* job ten minutes; two evaluations are enough for their races.            *)
Crowd ==
    /\ Cardinality({w \in Workers : workers[w].step \in {"ready", "save"}}) <= 1
    /\ Cardinality({r \in runs : r.job \in {"available", "running"}}) <= 2

(* An account version matters only by being that of an input; nothing of   *)
(* an outdated input matters, nor do the attempts of a job that has ended. *)
InputView(input) ==
    [input EXCEPT !.version = IF @ = 0 THEN 0 ELSE IF @ = account.version THEN 1 ELSE 2]
RunView(r) == IF r.job \in {"available", "running"} THEN r ELSE [r EXCEPT !.attempt = 0]
View ==
    <<clock, requests, [account EXCEPT !.version = 0], live, {RunView(r) : r \in runs},
      [w \in Workers |-> [workers[w] EXCEPT !.input = InputView(@)]]>>

===============================================================================
