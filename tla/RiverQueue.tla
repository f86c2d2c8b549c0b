------------------------------ MODULE RiverQueue ------------------------------
(***************************************************************************)
(* River, the PostgreSQL job queue, seen from the code that uses it        *)
(* (external; the worker's Work method, the scheduler's Schedule and       *)
(* Cancel).  A job is "available" from the moment its insert commits: its  *)
(* scheduled instant may already have passed, and a retry's back-off only  *)
(* delays it.                                                              *)
(*                                                                         *)
(* cancelled records a JobCancel that met a running job: River cancels the *)
(* execution's context, and an execution that then ends with an error, or  *)
(* dies, is not retried.                                                   *)
(***************************************************************************)
EXTENDS Integers

CONSTANTS
    RiverMaxAttempts   \* River's attempt limit: 25, as Schedule sets no other

ASSUME RiverAssumption == RiverMaxAttempts \in Nat \ {0}

JobStates == {"absent", "available", "running", "completed", "cancelled", "discarded"}
EndedStates == {"completed", "cancelled", "discarded"}

Jobs == [state : JobStates, attempt : Nat, cancelled : BOOLEAN]

NoJob == [state |-> "absent", attempt |-> 0, cancelled |-> FALSE]

InsertJob == [NoJob EXCEPT !.state = "available"]

FetchJob(j) == [j EXCEPT !.state = "running", !.attempt = @ + 1]

(* JobCancel: a queued job is cancelled at once, a running one is marked,  *)
(* an ended one is left alone.                                             *)
CancelJob(j) ==
    IF j.state = "available" THEN [j EXCEPT !.state = "cancelled"]
    ELSE IF j.state = "running" THEN [j EXCEPT !.cancelled = TRUE]
    ELSE j

CompleteJob(j) == [j EXCEPT !.state = "completed"]

(* What becomes of a job whose execution returned an error, or died and    *)
(* was rescued.                                                            *)
RetryJob(j) ==
    [j EXCEPT !.state = IF j.cancelled THEN "cancelled"
                        ELSE IF j.attempt >= RiverMaxAttempts THEN "discarded"
                        ELSE "available"]

===============================================================================
