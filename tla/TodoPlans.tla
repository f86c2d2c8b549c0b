------------------------------- MODULE TodoPlans -------------------------------
(***************************************************************************)
(* What the todo commands promise, as if each were one step: the todo, its *)
(* plans and the channels each plan requested change together or not at    *)
(* all.  ReminderLoop implements it with a transaction of many steps that  *)
(* may roll back, beside executions that read between them.                *)
(***************************************************************************)
EXTENDS TodoDomain

CONSTANTS Channels

VARIABLES
    todo,       \* the todo
    plans,      \* the plan of each reminder version
    requested   \* the channels each plan has a delivery for

vars == <<todo, plans, requested>>

Init ==
    /\ todo = NoTodo
    /\ plans = [v \in ReminderVersions |-> "none"]
    /\ requested = [v \in ReminderVersions |-> {}]

(* Every live plan is revoked.                                             *)
Revoked == [v \in ReminderVersions |-> IF plans[v] = "planned" THEN "revoked" ELSE plans[v]]

(* The todo becomes t and, when t has a due instant, version t.reminder-   *)
(* Version is planned over some channels.                                  *)
Reschedule(t) ==
    /\ todo' = t
    /\ IF t.due = NoDue
       THEN plans' = Revoked /\ UNCHANGED requested
       ELSE /\ plans' = [Revoked EXCEPT ![t.reminderVersion] = "planned"]
            /\ \E cs \in SUBSET Channels :
                  requested' = [requested EXCEPT ![t.reminderVersion] = cs]

Close(t) ==
    /\ todo' = t
    /\ plans' = Revoked
    /\ UNCHANGED requested

CreateTodo(due) == todo.status = "absent" /\ Reschedule(New(due))

UpdateTodo(due) == CanChangeDue(todo, due) /\ Reschedule(ChangeDue(todo, due))

CompleteTodo == CanComplete(todo) /\ Close(Complete(todo))

DeleteTodo == CanDelete(todo) /\ Close(Delete(todo))

Next ==
    \/ \E due \in Dues : CreateTodo(due) \/ UpdateTodo(due)
    \/ CompleteTodo
    \/ DeleteTodo

Spec == Init /\ [][Next]_vars

===============================================================================
