------------------------------ MODULE TodoDomain ------------------------------
(***************************************************************************)
(* The Todo aggregate (backend/internal/modules/todo/domain/todo.go): the  *)
(* record a row of todo.todos holds and its transitions.                   *)
(*                                                                         *)
(* Kept: the status, the due instant and ReminderVersion, which decide     *)
(* what the reminder side does.  The title, the description, the timezone  *)
(* and the timestamps steer nothing.  Version, the optimistic lock, is     *)
(* left to the transaction that holds the row (see ReminderLoop): an edit  *)
(* with a stale version changes nothing.                                   *)
(***************************************************************************)
EXTENDS Integers

CONSTANTS
    Instants,            \* the due instants an edit may choose
    NoDue,               \* DueAtUTC = nil
    MaxReminderVersion   \* bound: due changes explored per todo

ASSUME DueAssumption == NoDue \notin Instants
ASSUME VersionAssumption == MaxReminderVersion \in Nat \ {0}

Dues == Instants \cup {NoDue}

ReminderVersions == 1 .. MaxReminderVersion

Statuses == {"pending", "completed", "deleted"}

(***************************************************************************)
(* "absent" stands for a todo whose row has not been inserted yet.         *)
(***************************************************************************)
Todos == [status : Statuses \cup {"absent"}, due : Dues, reminderVersion : ReminderVersions]

NoTodo == [status |-> "absent", due |-> NoDue, reminderVersion |-> 1]

New(due) == [status |-> "pending", due |-> due, reminderVersion |-> 1]

(***************************************************************************)
(* Each transition has the condition under which it returns no error, and  *)
(* its result.  Complete is refused on completed and deleted todos, Delete *)
(* and Update on deleted ones only: a completed todo may still be edited   *)
(* or deleted.                                                             *)
(***************************************************************************)
CanComplete(t) == t.status = "pending"
Complete(t) == [t EXCEPT !.status = "completed"]

CanDelete(t) == t.status \in {"pending", "completed"}
Delete(t) == [t EXCEPT !.status = "deleted"]

(* An edit of the due instant that leaves it as it was bumps nothing and   *)
(* is no edit here; the bound stops the exploration, not the code.         *)
CanChangeDue(t, due) ==
    /\ t.status \in {"pending", "completed"}
    /\ due # t.due
    /\ t.reminderVersion < MaxReminderVersion
(* Fault: the version is bumped by the domain and again by the command.    *)
ChangeDueTwice(t, due) == [t EXCEPT !.due = due, !.reminderVersion = @ + 2]
ChangeDue(t, due) == [t EXCEPT !.due = due, !.reminderVersion = @ + 1]

===============================================================================
