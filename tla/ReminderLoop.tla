----------------------------- MODULE ReminderLoop -----------------------------
(***************************************************************************)
(* One todo, its reminder plans and deliveries, the River jobs that carry  *)
(* them out, and the three kinds of process that touch them:               *)
(*                                                                         *)
(*  - the API's todo commands, each one PostgreSQL transaction over the    *)
(*    todo, its plans and its deliveries (read committed), except that the *)
(*    jobs it cancels are cancelled outside it and stay cancelled when it  *)
(*    rolls back;                                                          *)
(*  - the Worker's executions of SendReminderHandler, one per job at a     *)
(*    time, every statement of which commits by itself;                    *)
(*  - the provider's receipt webhook.                                      *)
(*                                                                         *)
(* The owner's contact channels come and go at any time: a read of them,   *)
(* by the planner or by the Worker, may find any of them usable or not.    *)
(* Everything here is scoped by workspace and todo id in the code, so one  *)
(* todo is enough.                                                         *)
(***************************************************************************)
EXTENDS TodoDomain, DeliveryDomain, RiverQueue

CONSTANTS
    Channels,      \* the delivery channels: email, sms
    MaxAttempts,   \* the Worker's REMINDER_MAX_ATTEMPTS
    Receivers      \* concurrent receipt webhook calls

ASSUME AttemptsAssumption == MaxAttempts \in Nat \ {0}

VARIABLES
    todo,        \* the committed row of todo.todos
    plans,       \* the plan of each reminder version
    rows,        \* the committed reminder.reminder_deliveries, by idempotency key
    jobs,        \* River's job for each key
    tx,          \* the API transaction that holds the todo's row lock
    exec,        \* the Worker's execution of each job
    receipts,    \* the receipt webhook calls
    sent,        \* history: messages the provider accepted, per key
    unrecorded   \* history: of those, the ones whose answer was lost

apiVars == <<todo, plans, tx>>
history == <<sent, unrecorded>>
vars == <<todo, plans, rows, jobs, tx, exec, receipts, sent, unrecorded>>

(***************************************************************************)
(* IdempotencyKeyFor: workspace and todo are fixed.                        *)
(***************************************************************************)
Keys == ReminderVersions \X Channels

VersionOf(k) == k[1]
ChannelOf(k) == k[2]

-------------------------------------------------------------------------------
(* The API's transaction.                                                  *)

NoTx == [op |-> "none", step |-> "none", todo |-> NoTodo, upTo |-> 0,
         reason |-> "none", read |-> {}, written |-> {}, planned |-> {}]

Transactions ==
    [op      : {"none", "create", "update", "complete", "delete"},
     step    : {"none", "cancel", "read", "suppress", "plan", "commit"},
     todo    : Todos,                          \* the row it will commit
     upTo    : 0 .. MaxReminderVersion,        \* UpToReminderVersion
     reason  : SuppressionReasons \cup {"none"},
     read    : SUBSET Keys,                    \* ScheduledForSuppression
     written : SUBSET Keys,                    \* rows suppressed and locked
     planned : SUBSET Keys]                    \* rows and jobs to insert

(* PostgreSQL's row lock on a delivery the transaction has updated.        *)
Locked(k) == k \in tx.written

-------------------------------------------------------------------------------
(* The Worker's executions.                                                *)

Steps == {"idle", "plan", "todo", "load", "mark", "resolve", "notify",
          "suppress", "record", "done", "dead"}

(***************************************************************************)
(* delivery is the handler's in-memory copy of the row, reason the         *)
(* suppression it decided on; wanted is history: whether the reminder was  *)
(* still due when the execution started.                                   *)
(***************************************************************************)
Executions ==
    [step     : Steps,
     delivery : Deliveries,
     reason   : SuppressionReasons \cup {"none"},
     wanted   : BOOLEAN]

NoExecution == [step |-> "idle", delivery |-> NoRow, reason |-> "none", wanted |-> FALSE]

(* The reminder of version v is one the todo still asks for.               *)
Wanted(v) == todo.status = "pending" /\ todo.reminderVersion = v

ReceiptCalls == [step : {"idle", "save"}, key : Keys \cup {<<0, "none">>},
                 delivery : Deliveries]

NoReceipt == [step |-> "idle", key |-> <<0, "none">>, delivery |-> NoRow]

-------------------------------------------------------------------------------
Init ==
    /\ todo = NoTodo
    /\ plans = [v \in ReminderVersions |-> "none"]
    /\ rows = [k \in Keys |-> NoRow]
    /\ jobs = [k \in Keys |-> NoJob]
    /\ tx = NoTx
    /\ exec = [k \in Keys |-> NoExecution]
    /\ receipts = [r \in Receivers |-> NoReceipt]
    /\ sent = [k \in Keys |-> 0]
    /\ unrecorded = [k \in Keys |-> 0]

-------------------------------------------------------------------------------
(***************************************************************************)
(* The todo commands.  Each reads the row, applies the domain transition   *)
(* and updates the row on condition that its version is unchanged; from    *)
(* then on PostgreSQL's row lock keeps the todo to itself.  A command that *)
(* meets a refused transition or a stale version returns an error having   *)
(* changed nothing.  The plans at or below upTo are revoked in the same    *)
(* breath: only a holder of the todo's row lock writes them.               *)
(***************************************************************************)
Begin(op, newTodo, upTo, reason, step) ==
    /\ tx = NoTx
    /\ tx' = [NoTx EXCEPT !.op = op, !.todo = newTodo, !.upTo = upTo,
                          !.reason = reason, !.step = step]
    /\ UNCHANGED <<todo, plans, rows, jobs, exec, receipts, history>>

CreateTodo(due) ==
    /\ todo.status = "absent"
    /\ Begin("create", New(due), 0, "none", IF due = NoDue THEN "commit" ELSE "plan")

UpdateTodo(due) ==
    /\ CanChangeDue(todo, due)
    /\ Begin("update", ChangeDue(todo, due), todo.reminderVersion, "version_stale", "cancel")

CompleteTodo ==
    /\ CanComplete(todo)
    /\ Begin("complete", Complete(todo), todo.reminderVersion, "todo_completed", "cancel")

DeleteTodo ==
    /\ CanDelete(todo)
    /\ Begin("delete", Delete(todo), todo.reminderVersion, "todo_deleted", "cancel")

(* PlannedJobIDs: the jobs of deliveries that are not final yet.           *)
PlannedJobIDs ==
    {k \in Keys : VersionOf(k) <= tx.upTo /\ rows[k].state \in {"scheduled", "sending"}}

(* ScheduledForSuppression: sending rows are left out.                     *)
ScheduledForSuppression ==
    {k \in Keys : VersionOf(k) <= tx.upTo /\ rows[k].state = "scheduled"}

(* The cancels go to River's pool, outside the transaction; each is best   *)
(* effort and a failed one is only logged.                                 *)
CancelJobs ==
    /\ tx.step = "cancel"
    /\ \E cancelled \in SUBSET PlannedJobIDs :
          jobs' = [k \in Keys |-> IF k \in cancelled THEN CancelJob(jobs[k]) ELSE jobs[k]]
    /\ tx' = [tx EXCEPT !.step = "read"]
    /\ UNCHANGED <<todo, plans, rows, exec, receipts, history>>

ReadScheduled ==
    /\ tx.step = "read"
    /\ tx' = [tx EXCEPT !.step = "suppress", !.read = ScheduledForSuppression]
    /\ UNCHANGED <<todo, plans, rows, jobs, exec, receipts, history>>

(* One Update of the revoke's loop.  It is keyed by id alone, so it goes   *)
(* through whatever the row has become; the row stays locked to the end.   *)
SuppressRow(k) ==
    /\ tx.step = "suppress"
    /\ k \in tx.read \ tx.written
    /\ tx' = [tx EXCEPT !.written = @ \cup {k}]
    /\ UNCHANGED <<todo, plans, rows, jobs, exec, receipts, history>>

(* The revoke is over: an edit that leaves a due instant plans the new     *)
(* version, the other commands commit.                                     *)
EndRevoke ==
    /\ tx.step = "suppress"
    /\ tx.written = tx.read
    /\ tx' = [tx EXCEPT !.step = IF tx.op = "update" /\ tx.todo.due # NoDue
                                 THEN "plan" ELSE "commit"]
    /\ UNCHANGED <<todo, plans, rows, jobs, exec, receipts, history>>

(* The plan, one delivery and one job for each channel of the snapshot;    *)
(* none of it is visible before the commit.                                *)
PlanReminder ==
    /\ tx.step = "plan"
    /\ \E channelsSnapshot \in SUBSET Channels :
          tx' = [tx EXCEPT !.step = "commit",
                           !.planned = {tx.todo.reminderVersion} \X channelsSnapshot]
    /\ UNCHANGED <<todo, plans, rows, jobs, exec, receipts, history>>

(* The row a suppressing Update leaves: the copy that was read as          *)
(* scheduled, marked suppressed.                                           *)
SuppressedCopy == MarkSuppressed(NewDelivery, tx.reason)

(* A plan is written for a create or an update with a due instant, also    *)
(* when no channel is usable.                                              *)
Plans(t) == t.op \in {"create", "update"} /\ t.todo.due # NoDue

RevokePlanned(upTo) ==
    [v \in ReminderVersions |->
        IF v <= upTo /\ plans[v] = "planned" THEN "revoked" ELSE plans[v]]

Commit ==
    /\ tx.step = "commit"
    /\ todo' = tx.todo
    /\ plans' = [v \in ReminderVersions |->
                    IF Plans(tx) /\ v = tx.todo.reminderVersion
                    THEN "planned" ELSE RevokePlanned(tx.upTo)[v]]
    /\ rows' = [k \in Keys |-> CASE k \in tx.written -> SuppressedCopy
                                 [] k \in tx.planned -> NewDelivery
                                 [] OTHER -> rows[k]]
    /\ jobs' = [k \in Keys |-> IF k \in tx.planned THEN InsertJob ELSE jobs[k]]
    /\ tx' = NoTx
    /\ UNCHANGED <<exec, receipts, history>>

(* A store, scheduler or commit error, a client that hung up or an API     *)
(* process that died: everything is undone but the cancelled jobs.         *)
(* Faults: the todo's update escapes the transaction; the row locks        *)
(* outlive it.                                                             *)
RollbackKeepsTodo ==
    /\ tx # NoTx
    /\ tx' = NoTx
    /\ todo' = tx.todo
    /\ UNCHANGED <<plans, rows, jobs, exec, receipts, history>>
RollbackKeepsLocks ==
    /\ tx # NoTx
    /\ tx' = [NoTx EXCEPT !.written = tx.written]
    /\ UNCHANGED <<todo, plans, rows, jobs, exec, receipts, history>>
Rollback ==
    /\ tx # NoTx
    /\ tx' = NoTx
    /\ UNCHANGED <<todo, plans, rows, jobs, exec, receipts, history>>

-------------------------------------------------------------------------------
(***************************************************************************)
(* The Worker.  Goto moves k's execution to a step with a decided reason   *)
(* and an in-memory delivery.                                              *)
(***************************************************************************)
Goto(k, step, reason, delivery) ==
    exec' = [exec EXCEPT ![k].step = step, ![k].reason = reason, ![k].delivery = delivery]

Fetch(k) ==
    /\ jobs[k].state = "available"
    /\ exec[k].step = "idle"
    /\ jobs' = [jobs EXCEPT ![k] = FetchJob(@)]
    /\ exec' = [exec EXCEPT ![k] = [NoExecution EXCEPT !.step = "plan",
                                                      !.wanted = Wanted(VersionOf(k))]]
    /\ UNCHANGED <<apiVars, rows, receipts, history>>

(* The reason the re-read of the plan, then of the todo, gives to suppress *)
(* the delivery; "none" when there is none.                                *)
PlanVerdict(v) == IF plans[v] = "revoked" THEN "plan_revoked" ELSE "none"

(* Faults: every closed todo counts as deleted; completed ones are not     *)
(* looked at.                                                              *)
TodoVerdictLumped(v) ==
    CASE todo.status # "pending" -> "todo_deleted"
      [] todo.reminderVersion # v -> "version_stale"
      [] OTHER -> "none"
TodoVerdictDeletedOnly(v) ==
    CASE todo.status \in {"absent", "deleted"} -> "todo_deleted"
      [] todo.reminderVersion # v -> "version_stale"
      [] OTHER -> "none"
TodoVerdict(v) ==
    CASE todo.status \in {"absent", "deleted"} -> "todo_deleted"
      [] todo.status = "completed" -> "todo_completed"
      [] todo.reminderVersion # v -> "version_stale"
      [] OTHER -> "none"

(* A job whose plan is missing is skipped.                                 *)
ReadPlan(k) ==
    LET v == VersionOf(k) IN
    /\ exec[k].step = "plan"
    /\ Goto(k, CASE plans[v] = "none"    -> "done"
                 [] plans[v] = "revoked" -> "suppress"
                 [] OTHER                -> "todo",
            PlanVerdict(v), NoRow)
    /\ UNCHANGED <<apiVars, rows, jobs, receipts, history>>

ReadTodo(k) ==
    LET verdict == TodoVerdict(VersionOf(k)) IN
    /\ exec[k].step = "todo"
    /\ Goto(k, IF verdict = "none" THEN "load" ELSE "suppress", verdict, NoRow)
    /\ UNCHANGED <<apiVars, rows, jobs, receipts, history>>

(* loadOrCreateDelivery: a missing row is rebuilt in memory; the next      *)
(* write saves it.                                                         *)
LoadOrCreate(k) == IF rows[k].state = "absent" THEN NewDelivery ELSE rows[k]

(* Fault: a delivery that is final already is sent once more.              *)
LoadDeliveryAgain(k) ==
    /\ exec[k].step = "load"
    /\ Goto(k, "mark", "none", MarkSending(LoadOrCreate(k)))
    /\ UNCHANGED <<apiVars, rows, jobs, receipts, history>>
LoadDelivery(k) ==
    LET d == LoadOrCreate(k) IN
    /\ exec[k].step = "load"
    /\ IF IsFinal(d) THEN Goto(k, "done", "none", NoRow)
                     ELSE Goto(k, "mark", "none", MarkSending(d))
    /\ UNCHANGED <<apiVars, rows, jobs, receipts, history>>

(* Update is keyed by id alone; it waits for a row lock and then           *)
(* overwrites what the lock's holder committed.                            *)
SaveSending(k) ==
    /\ exec[k].step = "mark"
    /\ ~Locked(k)
    /\ rows' = [rows EXCEPT ![k] = exec[k].delivery]
    /\ exec' = [exec EXCEPT ![k].step = "resolve"]
    /\ UNCHANGED <<apiVars, jobs, receipts, history>>

(* Fault: an unusable channel ends the execution without a trace.          *)
ResolveChannelSilently(k) ==
    /\ exec[k].step = "resolve"
    /\ \/ Goto(k, "notify", "none", exec[k].delivery)
       \/ Goto(k, "done", "none", NoRow)
    /\ UNCHANGED <<apiVars, rows, jobs, receipts, history>>
ResolveChannel(k) ==
    /\ exec[k].step = "resolve"
    /\ \/ Goto(k, "notify", "none", exec[k].delivery)
       \/ Goto(k, "suppress", "channel_unavailable", NoRow)
    /\ UNCHANGED <<apiVars, rows, jobs, receipts, history>>

(* suppress re-reads the row before it marks it.                           *)
LoadForSuppression(k) ==
    LET d == LoadOrCreate(k) IN
    /\ exec[k].step = "suppress"
    /\ IF IsFinal(d) THEN Goto(k, "done", "none", NoRow)
                     ELSE Goto(k, "record", "none", MarkSuppressed(d, exec[k].reason))
    /\ UNCHANGED <<apiVars, rows, jobs, receipts, history>>

(* The Update that finalizes the delivery: succeeded, dead-lettered or     *)
(* suppressed.                                                             *)
RecordOutcome(k) ==
    /\ exec[k].step = "record"
    /\ ~Locked(k)
    /\ rows' = [rows EXCEPT ![k] = exec[k].delivery]
    /\ Goto(k, "done", "none", NoRow)
    /\ UNCHANGED <<apiVars, jobs, receipts, history>>

(* The handler returned nil and River completes the job.                   *)
CompleteExecution(k) ==
    /\ exec[k].step = "done"
    /\ jobs' = [jobs EXCEPT ![k] = CompleteJob(@)]
    /\ exec' = [exec EXCEPT ![k] = NoExecution]
    /\ UNCHANGED <<apiVars, rows, receipts, history>>

(* The handler returned an error.                                          *)
EndInError(k) ==
    /\ jobs' = [jobs EXCEPT ![k] = RetryJob(@)]
    /\ exec' = [exec EXCEPT ![k] = NoExecution]

-------------------------------------------------------------------------------
(* The provider's answers.                                                 *)

FinalAttempt(k) == jobs[k].attempt >= MaxAttempts

NotifyAccepted(k) ==
    /\ exec[k].step = "notify"
    /\ sent' = [sent EXCEPT ![k] = @ + 1]
    /\ Goto(k, "record", "none", MarkSucceeded(exec[k].delivery))
    /\ UNCHANGED <<apiVars, rows, jobs, receipts, unrecorded>>

NotifyRefused(k) ==
    /\ exec[k].step = "notify"
    /\ Goto(k, "record", "none", MarkFailed(exec[k].delivery))
    /\ UNCHANGED <<apiVars, rows, jobs, receipts, history>>

(* A transient error is retried, or dead-letters the delivery on the final *)
(* attempt.                                                                *)
TransientFailure(k) ==
    IF FinalAttempt(k)
    THEN Goto(k, "record", "none", MarkFailed(exec[k].delivery)) /\ UNCHANGED jobs
    ELSE EndInError(k)

NotifyTransient(k) ==
    /\ exec[k].step = "notify"
    /\ TransientFailure(k)
    /\ UNCHANGED <<apiVars, rows, receipts, history>>

(* The provider accepted the message but the answer never came: the        *)
(* handler sees a transient error.                                         *)
NotifyAnswerLost(k) ==
    /\ exec[k].step = "notify"
    /\ sent' = [sent EXCEPT ![k] = @ + 1]
    /\ unrecorded' = [unrecorded EXCEPT ![k] = @ + 1]
    /\ TransientFailure(k)
    /\ UNCHANGED <<apiVars, rows, receipts>>

-------------------------------------------------------------------------------
(* Failures of an execution.                                               *)

(* The provider accepted the message and no row says so yet.               *)
HoldsUnrecordedSend(k) == exec[k].step = "record" /\ exec[k].delivery.state = "succeeded"

ForgetSend(k) ==
    unrecorded' = IF HoldsUnrecordedSend(k) THEN [unrecorded EXCEPT ![k] = @ + 1]
                                            ELSE unrecorded

(* A statement fails: the database is away, or the context was cancelled   *)
(* by a JobCancel, the job's timeout or the Worker's shutdown.  Fault: the *)
(* error cancels the job instead of having it retried.                     *)
StatementFailsForGood(k) ==
    /\ exec[k].step \in {"plan", "todo", "load", "mark", "resolve", "suppress", "record"}
    /\ jobs' = [jobs EXCEPT ![k].state = "cancelled"]
    /\ exec' = [exec EXCEPT ![k] = NoExecution]
    /\ ForgetSend(k)
    /\ UNCHANGED <<apiVars, rows, receipts, sent>>
StatementFails(k) ==
    /\ exec[k].step \in {"plan", "todo", "load", "mark", "resolve", "suppress", "record"}
    /\ EndInError(k)
    /\ ForgetSend(k)
    /\ UNCHANGED <<apiVars, rows, receipts, sent>>

(* The Worker process dies under the execution, or is stopped before it    *)
(* ends; the job stays running until River's rescuer finds it.             *)
ExecutionDies(k) ==
    /\ exec[k].step \notin {"idle", "dead"}
    /\ exec' = [exec EXCEPT ![k] = [NoExecution EXCEPT !.step = "dead"]]
    /\ ForgetSend(k)
    /\ UNCHANGED <<apiVars, rows, jobs, receipts, sent>>

RescueJob(k) ==
    /\ exec[k].step = "dead"
    /\ EndInError(k)
    /\ UNCHANGED <<apiVars, rows, receipts, history>>

-------------------------------------------------------------------------------
(***************************************************************************)
(* The receipt webhook: the row is found by its provider message id; only  *)
(* a succeeded row without a receipt is written back.                      *)
(***************************************************************************)
ReceiveReceipt(r, k, verdict) ==
    /\ receipts[r] = NoReceipt
    /\ rows[k].message
    /\ rows[k].state = "succeeded"
    /\ rows[k].receipt = "none"
    /\ receipts' = [receipts EXCEPT ![r] = [step |-> "save", key |-> k,
                                           delivery |-> ApplyReceipt(rows[k], verdict)]]
    /\ UNCHANGED <<apiVars, rows, jobs, exec, history>>

SaveReceipt(r) ==
    LET k == receipts[r].key IN
    /\ receipts[r].step = "save"
    /\ ~Locked(k)
    /\ rows' = [rows EXCEPT ![k] = receipts[r].delivery]
    /\ receipts' = [receipts EXCEPT ![r] = NoReceipt]
    /\ UNCHANGED <<apiVars, jobs, exec, history>>

ReceiptFails(r) ==
    /\ receipts[r].step = "save"
    /\ receipts' = [receipts EXCEPT ![r] = NoReceipt]
    /\ UNCHANGED <<apiVars, rows, jobs, exec, history>>

-------------------------------------------------------------------------------
TxStep ==
    \/ CancelJobs \/ ReadScheduled \/ EndRevoke \/ PlanReminder \/ Commit \/ Rollback
    \/ \E k \in Keys : SuppressRow(k)

Command ==
    \/ \E due \in Dues : CreateTodo(due) \/ UpdateTodo(due)
    \/ CompleteTodo
    \/ DeleteTodo

Notify(k) == NotifyAccepted(k) \/ NotifyRefused(k) \/ NotifyTransient(k) \/ NotifyAnswerLost(k)

ExecutionStep(k) ==
    \/ ReadPlan(k) \/ ReadTodo(k) \/ LoadDelivery(k) \/ SaveSending(k)
    \/ ResolveChannel(k) \/ Notify(k) \/ LoadForSuppression(k)
    \/ RecordOutcome(k) \/ CompleteExecution(k)

Receipt ==
    \E r \in Receivers :
        \/ \E k \in Keys, verdict \in ReceiptStates : ReceiveReceipt(r, k, verdict)
        \/ SaveReceipt(r)
        \/ ReceiptFails(r)

Next ==
    \/ Command
    \/ TxStep
    \/ \E k \in Keys : Fetch(k) \/ ExecutionStep(k) \/ RescueJob(k)
    \/ \E k \in Keys : StatementFails(k) \/ ExecutionDies(k)
    \/ Receipt

Spec == Init /\ [][Next]_vars

(***************************************************************************)
(* River fetches available jobs and rescues abandoned ones, the Worker     *)
(* runs what it fetched, and a transaction commits or rolls back (its      *)
(* request ends).  An Update that waits for a row lock is served when the  *)
(* lock is released, before the next holder: hence strong fairness for the *)
(* execution's steps.  Commands, failures and receipts are not fair: they  *)
(* may never happen.                                                       *)
(***************************************************************************)
Fairness ==
    /\ WF_vars(TxStep)
    /\ \A k \in Keys : WF_vars(Fetch(k)) /\ SF_vars(ExecutionStep(k)) /\ WF_vars(RescueJob(k))

FairSpec == Spec /\ Fairness

-------------------------------------------------------------------------------
(* The variables have the types of the columns and structs they stand for. *)
TypeOK ==
    /\ todo \in Todos
    /\ plans \in [ReminderVersions -> {"none", "planned", "revoked"}]
    /\ rows \in [Keys -> Deliveries]
    /\ jobs \in [Keys -> Jobs]
    /\ tx \in Transactions
    /\ exec \in [Keys -> Executions]
    /\ receipts \in [Receivers -> ReceiptCalls]
    /\ sent \in [Keys -> Nat]
    /\ unrecorded \in [Keys -> Nat]

(***************************************************************************)
(* Plans follow the todo: whatever commands ran, failed or rolled back, a  *)
(* plan is live only for the todo's current reminder version, only while   *)
(* it has a due instant and is not deleted; and a pending todo with a due  *)
(* instant has its live plan (the todo commands revoke and plan in the     *)
(* todo's transaction).                                                    *)
(***************************************************************************)
PlansMatchTodo ==
    /\ \A v \in ReminderVersions :
          plans[v] = "planned" =>
              /\ v = todo.reminderVersion
              /\ todo.due # NoDue
              /\ todo.status \in {"pending", "completed"}
    /\ todo.status = "pending" /\ todo.due # NoDue =>
          plans[todo.reminderVersion] = "planned"

(***************************************************************************)
(* The commands are atomic in what they commit: the todo, its plans and    *)
(* the rows that exist change in the one step TodoPlans promises, and not  *)
(* at all by a transaction that is rolled back.  The jobs are no part of   *)
(* it: the revoke cancels them on River's pool, and a rollback leaves them *)
(* cancelled (OnlyRollbackCostsJobs).                                      *)
(***************************************************************************)
requested == [v \in ReminderVersions |-> {c \in Channels : rows[<<v, c>>].state # "absent"}]

Promise == INSTANCE TodoPlans

CommandsAtomic == Promise!Spec

(***************************************************************************)
(* A delivery row and its job exist together and belong to a written plan: *)
(* no execution ever meets a missing plan or a missing row, so the "must   *)
(* not happen" branch of loadOrCreateDelivery is dead.                     *)
(***************************************************************************)
RowsMatchJobs ==
    \A k \in Keys :
        /\ rows[k].state # "absent" <=> jobs[k].state # "absent"
        /\ rows[k].state # "absent" => plans[VersionOf(k)] # "none"
        /\ exec[k].step # "idle" <=> jobs[k].state = "running"

(***************************************************************************)
(* What makes the two invariants above and CommandsAtomic inductive.  The  *)
(* transaction's intent is still right when it commits, because it holds   *)
(* the todo's row lock; it rewrites rows that exist and inserts rows of a  *)
(* version nobody has planned; and no execution or webhook call holds the  *)
(* copy of a row that does not exist.                                      *)
(***************************************************************************)
TxCoherent ==
    /\ tx.op = "none" => tx = NoTx
    /\ tx.op = "create" =>
          todo.status = "absent" /\ tx.upTo = 0 /\ \E due \in Dues : tx.todo = New(due)
    /\ tx.op = "update" =>
          \E due \in Dues : CanChangeDue(todo, due) /\ tx.todo = ChangeDue(todo, due)
    /\ tx.op = "complete" => CanComplete(todo) /\ tx.todo = Complete(todo)
    /\ tx.op = "delete" => CanDelete(todo) /\ tx.todo = Delete(todo)
    /\ tx.op \in {"update", "complete", "delete"} => tx.upTo = todo.reminderVersion
    /\ tx.written \subseteq tx.read
    /\ tx.step \in {"cancel", "read"} => tx.written = {}
    /\ \A k \in tx.read : rows[k].state # "absent"
    /\ tx.step = "plan" => Plans(tx)
    /\ IF Plans(tx)
       THEN \E cs \in SUBSET Channels : tx.planned = {tx.todo.reminderVersion} \X cs
       ELSE tx.planned = {}

FuturePlansUnwritten ==
    \A v \in ReminderVersions :
        todo.status = "absent" \/ v > todo.reminderVersion => plans[v] = "none"

CopiesBacked ==
    /\ \A k \in Keys : exec[k].step \in {"mark", "resolve", "notify", "record"} =>
          exec[k].delivery.state # "absent"
    /\ \A r \in Receivers : receipts[r].step = "save" =>
          /\ receipts[r].key \in Keys
          /\ rows[receipts[r].key].state # "absent"
          /\ receipts[r].delivery.state # "absent"

LoopInv ==
    /\ TypeOK
    /\ PlansMatchTodo
    /\ RowsMatchJobs
    /\ TxCoherent
    /\ FuturePlansUnwritten
    /\ CopiesBacked

(***************************************************************************)
(* The suppression reason a row shows is the truth about the committed     *)
(* todo and plan, also when the command that suppressed it raced a send    *)
(* (RevokePlansHandler) or the execution decided on earlier reads (suppress*)
(* of SendReminderHandler).                                                *)
(***************************************************************************)
SuppressionTruthful ==
    \A k \in Keys : rows[k].state = "suppressed" =>
        CASE rows[k].reason = "todo_completed" -> todo.status \in {"completed", "deleted"}
          [] rows[k].reason = "todo_deleted"   -> todo.status = "deleted"
          [] rows[k].reason = "version_stale"  -> todo.reminderVersion > VersionOf(k)
          [] rows[k].reason = "plan_revoked"   -> plans[VersionOf(k)] = "revoked"
          [] rows[k].reason = "channel_unavailable" -> rows[k].attempts > 0
          [] OTHER -> FALSE

(***************************************************************************)
(* An execution that starts after the todo was completed, deleted or       *)
(* rescheduled never reaches the provider, whatever River did with its     *)
(* job: the execution-time re-read of SendReminderHandler.                 *)
(***************************************************************************)
StaleNeverNotifies ==
    \A k \in Keys : exec[k].step \in {"mark", "resolve", "notify"} => exec[k].wanted

(***************************************************************************)
(* A reminder reaches the provider a second time only if the outcome of    *)
(* every earlier acceptance was lost before a row recorded it: neither     *)
(* retries, nor rescued jobs, nor commands that overwrite the row repeat a *)
(* recorded send.                                                          *)
(***************************************************************************)
OnceUnlessUnrecorded == \A k \in Keys : sent[k] <= unrecorded[k] + 1

(***************************************************************************)
(* When River completes a job its delivery is final: no early return of    *)
(* the handler, and no racing command, leaves a completed job with an      *)
(* unfinished delivery.                                                    *)
(***************************************************************************)
CompletedJobSettled ==
    \A k \in Keys : jobs[k].state = "completed" => IsFinal(rows[k])

(***************************************************************************)
(* A row with a receipt is a succeeded row that carries its provider       *)
(* message id, and a succeeded row was accepted by the provider, also when *)
(* a stale copy was written back over it.  That copy may turn a row that   *)
(* was suppressed meanwhile into a succeeded one again.                    *)
(***************************************************************************)
ReceiptsBelong ==
    \A k \in Keys :
        /\ rows[k].receipt # "none" => rows[k].state = "succeeded"
        /\ rows[k].state = "succeeded" => rows[k].message /\ sent[k] > 0

(***************************************************************************)
(* Only a command that is rolled back takes the job of a reminder that is  *)
(* still wanted and not finished: it has cancelled the job, or flagged it  *)
(* while it ran, on River's pool, and its rollback brings back todo, plan  *)
(* and rows but not the job (RevokePlansHandler).  Neither a committed     *)
(* command nor a failure, crash or rescue of an execution does so.         *)
(***************************************************************************)
Deprived(k) ==
    /\ tx = NoTx
    /\ Wanted(VersionOf(k)) /\ rows[k].state \in {"scheduled", "sending"}
    /\ jobs[k].state = "cancelled" \/ jobs[k].cancelled

OnlyRollbackCostsJobs ==
    [][\A k \in Keys : Deprived(k)' => Deprived(k) \/ Rollback]_vars

(***************************************************************************)
(* The first receipt stands: a stored verdict changes only under a webhook *)
(* call that read the row before it was stored, or under a revoke that     *)
(* read the row before the send, and then writes its copy back             *)
(* (RecordReceiptHandler, RevokePlansHandler).  No later call, and no      *)
(* execution, however its job is rescued and retried, changes it.          *)
(***************************************************************************)
Carries(r, k) == receipts[r].step = "save" /\ receipts[r].key = k
HoldsCopy(k) == k \in tx.written \/ \E r \in Receivers : Carries(r, k)

FirstReceiptStands ==
    [][\A k \in Keys : rows[k].receipt # "none" =>
          /\ ~HoldsCopy(k) => rows'[k].receipt = rows[k].receipt
          /\ \A r \in Receivers : Carries(r, k)' => Carries(r, k)]_vars

(***************************************************************************)
(* Every job comes to an end: completed, cancelled or discarded.  Crashes, *)
(* failed statements and rescues are bounded by River's attempt limit, and *)
(* no command can hold a row lock for ever.                                *)
(***************************************************************************)
JobsEnd ==
    \A k \in Keys : jobs[k].state # "absent" ~> jobs[k].state \in EndedStates

(***************************************************************************)
(* "Terminal states (succeeded, failed, suppressed) are immutable."        *)
(* (domain/delivery.go)                                                    *)
(***************************************************************************)
TerminalImmutable ==
    [][\A k \in Keys : IsFinal(rows[k]) => rows'[k].state = rows[k].state]_vars

(***************************************************************************)
(* "Sending rows are untouched; an in-flight send keeps the execution-time *)
(* re-read as its correctness boundary" (application/command/revoke.go):   *)
(* the sending row of a revoked plan has an execution under way, or one to *)
(* come, that will re-read the plan.                                       *)
(***************************************************************************)
RevokedSendIsReread ==
    \A k \in Keys :
        rows[k].state = "sending" /\ plans[VersionOf(k)] = "revoked" =>
            jobs[k].state \in {"available", "running"}

===============================================================================
