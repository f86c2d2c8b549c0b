---------------------------- MODULE DeliveryDomain ----------------------------
(***************************************************************************)
(* The ReminderDelivery aggregate                                          *)
(* (backend/internal/modules/reminder/domain/delivery.go): the record a    *)
(* row of reminder.reminder_deliveries holds and its transitions.  The     *)
(* identity fields are the row's key; instants and texts are left out.     *)
(***************************************************************************)
EXTENDS Integers

FinalStates == {"succeeded", "failed", "suppressed"}
DeliveryStates == {"scheduled", "sending"} \cup FinalStates

SuppressionReasons ==
    {"todo_completed", "todo_deleted", "version_stale", "channel_unavailable", "plan_revoked"}

ReceiptStates == {"received_ok", "received_failed"}

(***************************************************************************)
(* "none" is the nil pointer, "absent" the state of a row not inserted     *)
(* yet.  message says whether ProviderMessageID is set.  AttemptCount      *)
(* grows once per execution of the row's job.                              *)
(***************************************************************************)
Deliveries ==
    [state    : DeliveryStates \cup {"absent"},
     attempts : Nat,
     reason   : SuppressionReasons \cup {"none"},
     message  : BOOLEAN,
     receipt  : ReceiptStates \cup {"none"}]

NoRow == [state |-> "absent", attempts |-> 0, reason |-> "none",
          message |-> FALSE, receipt |-> "none"]

NewDelivery == [NoRow EXCEPT !.state = "scheduled"]

(* Fault: a succeeded delivery counts as open.                             *)
IsFinalButSucceeded(d) == d.state \in {"failed", "suppressed"}
IsFinal(d) == d.state \in FinalStates

MarkSending(d) == [d EXCEPT !.state = "sending", !.attempts = @ + 1]

MarkSucceeded(d) == [d EXCEPT !.state = "succeeded", !.message = TRUE]

MarkFailed(d) == [d EXCEPT !.state = "failed"]

MarkSuppressed(d, reason) == [d EXCEPT !.state = "suppressed", !.reason = reason]

ApplyReceipt(d, verdict) == [d EXCEPT !.receipt = verdict]

===============================================================================
