-------------------------- MODULE ReminderLoopProofs --------------------------
(***************************************************************************)
(* Theorems about ReminderLoop, for every number of reminder versions, of  *)
(* channels, of attempts and of concurrent receipt calls: first the plans, *)
(* rows and jobs and the refinement of TodoPlans, then what the deliveries *)
(* come to.                                                                *)
(***************************************************************************)
EXTENDS ReminderLoop, TLAPS

(***************************************************************************)
(* The domain transitions keep a delivery a delivery.                      *)
(***************************************************************************)
LEMMA DeliveryTypes ==
    /\ NoRow \in Deliveries
    /\ NewDelivery \in Deliveries
    /\ \A d \in Deliveries :
          /\ MarkSending(d) \in Deliveries
          /\ MarkSucceeded(d) \in Deliveries
          /\ MarkFailed(d) \in Deliveries
          /\ \A reason \in SuppressionReasons : MarkSuppressed(d, reason) \in Deliveries
          /\ \A verdict \in ReceiptStates : ApplyReceipt(d, verdict) \in Deliveries
<1> USE DEF Deliveries, DeliveryStates, FinalStates
<1>1. NoRow \in Deliveries /\ NewDelivery \in Deliveries
  BY DEF NoRow, NewDelivery
<1>2. ASSUME NEW d \in Deliveries PROVE MarkSending(d) \in Deliveries
  <2>1. d.attempts \in Nat
    OBVIOUS
  <2>2. d.attempts + 1 \in Nat
    BY <2>1
  <2> QED
    BY <2>2 DEF MarkSending
<1>3. ASSUME NEW d \in Deliveries PROVE MarkSucceeded(d) \in Deliveries
  BY DEF MarkSucceeded
<1>4. ASSUME NEW d \in Deliveries PROVE MarkFailed(d) \in Deliveries
  BY DEF MarkFailed
<1>5. ASSUME NEW d \in Deliveries, NEW reason \in SuppressionReasons
      PROVE  MarkSuppressed(d, reason) \in Deliveries
  BY DEF MarkSuppressed
<1>6. ASSUME NEW d \in Deliveries, NEW verdict \in ReceiptStates
      PROVE  ApplyReceipt(d, verdict) \in Deliveries
  BY DEF ApplyReceipt
<1> QED
  BY <1>1, <1>2, <1>3, <1>4, <1>5, <1>6

(***************************************************************************)
(* River's operations keep a job a job.                                    *)
(***************************************************************************)
LEMMA JobTypes ==
    /\ NoJob \in Jobs
    /\ InsertJob \in Jobs
    /\ \A j \in Jobs :
          /\ FetchJob(j) \in Jobs
          /\ CancelJob(j) \in Jobs
          /\ CompleteJob(j) \in Jobs
          /\ RetryJob(j) \in Jobs
<1> USE DEF Jobs, JobStates
<1>1. NoJob \in Jobs /\ InsertJob \in Jobs
  BY DEF NoJob, InsertJob
<1>2. ASSUME NEW j \in Jobs PROVE FetchJob(j) \in Jobs
  <2>1. j.attempt \in Nat
    OBVIOUS
  <2>2. j.attempt + 1 \in Nat
    BY <2>1
  <2> QED
    BY <2>2 DEF FetchJob
<1>3. ASSUME NEW j \in Jobs PROVE CancelJob(j) \in Jobs
  BY DEF CancelJob
<1>4. ASSUME NEW j \in Jobs PROVE CompleteJob(j) \in Jobs
  BY DEF CompleteJob
<1>5. ASSUME NEW j \in Jobs PROVE RetryJob(j) \in Jobs
  BY DEF RetryJob
<1> QED
  BY <1>1, <1>2, <1>3, <1>4, <1>5

(***************************************************************************)
(* The todo's transitions keep a todo a todo.                              *)
(***************************************************************************)
LEMMA TodoTypes ==
    /\ NoTodo \in Todos
    /\ \A due \in Dues : New(due) \in Todos
    /\ \A t \in Todos :
          /\ Complete(t) \in Todos
          /\ Delete(t) \in Todos
          /\ \A due \in Dues : CanChangeDue(t, due) => ChangeDue(t, due) \in Todos
<1> USE DEF Todos, Statuses
<1>1. 1 \in ReminderVersions
  BY VersionAssumption DEF ReminderVersions
<1>2. NoTodo \in Todos
  BY <1>1 DEF NoTodo, Dues
<1>3. ASSUME NEW due \in Dues PROVE New(due) \in Todos
  BY <1>1 DEF New
<1>4. ASSUME NEW t \in Todos PROVE Complete(t) \in Todos /\ Delete(t) \in Todos
  BY DEF Complete, Delete
<1>5. ASSUME NEW t \in Todos, NEW due \in Dues, CanChangeDue(t, due)
      PROVE  ChangeDue(t, due) \in Todos
  <2>1. t.reminderVersion \in ReminderVersions /\ t.reminderVersion < MaxReminderVersion
    BY <1>5 DEF CanChangeDue
  <2>2. t.reminderVersion + 1 \in ReminderVersions
    BY <2>1, VersionAssumption DEF ReminderVersions
  <2> QED
    BY <2>2 DEF ChangeDue
<1> QED
  BY <1>2, <1>3, <1>4, <1>5

(***************************************************************************)
(* What the helpers of the transaction and of the execution produce.       *)
(***************************************************************************)
LEMMA ConstantTypes ==
    /\ NoTx \in Transactions
    /\ NoExecution \in Executions
    /\ NoReceipt \in ReceiptCalls
<1>1. NoTx \in Transactions
  BY TodoTypes, VersionAssumption DEF NoTx, Transactions
<1>2. NoExecution \in Executions
  BY DeliveryTypes, VersionAssumption DEF NoExecution, Executions, Steps
<1>3. NoReceipt \in ReceiptCalls
  BY DeliveryTypes DEF NoReceipt, ReceiptCalls
<1> QED BY <1>1, <1>2, <1>3

(* An execution's next step is one.                                        *)
LEMMA GotoTypes ==
    ASSUME NEW k \in Keys, NEW step \in Steps,
           NEW reason \in SuppressionReasons \cup {"none"}, NEW delivery \in Deliveries,
           exec \in [Keys -> Executions], Goto(k, step, reason, delivery)
    PROVE  exec' \in [Keys -> Executions]
<1>1. exec[k] \in Executions
  OBVIOUS
<1>2. [exec[k] EXCEPT !.step = step, !.reason = reason, !.delivery = delivery] \in Executions
  BY <1>1 DEF Executions
<1> QED BY <1>2 DEF Goto

(* A command opens a transaction of the right type.                        *)
LEMMA BeginTypes ==
    ASSUME TypeOK, NEW op \in {"create", "update", "complete", "delete"},
           NEW newTodo \in Todos, NEW upTo \in 0 .. MaxReminderVersion,
           NEW reason \in SuppressionReasons \cup {"none"},
           NEW step \in {"cancel", "plan", "commit"},
           Begin(op, newTodo, upTo, reason, step)
    PROVE  TypeOK'
<1>1. tx' \in Transactions
  BY DeliveryTypes, TodoTypes DEF Begin, NoTx, Transactions
<1> QED
  BY <1>1 DEF TypeOK, Begin, history

(***************************************************************************)
(* A step of the API keeps the types: commands and transactions.           *)
(***************************************************************************)
LEMMA ApiTypes ==
    ASSUME TypeOK, Command \/ TxStep
    PROVE  TypeOK'
<1> USE DEF history
<1>1. todo \in Todos /\ tx \in Transactions
  BY DEF TypeOK
<1>2. todo.reminderVersion \in 0 .. MaxReminderVersion
  BY <1>1, VersionAssumption DEF Todos, ReminderVersions
<1>3. 0 \in 0 .. MaxReminderVersion
  BY VersionAssumption
<1>4. ASSUME NEW due \in Dues, CreateTodo(due) PROVE TypeOK'
  <2>1. New(due) \in Todos
    BY TodoTypes
  <2> QED
    BY <1>3, <1>4, <2>1, BeginTypes DEF CreateTodo
<1>5. ASSUME NEW due \in Dues, UpdateTodo(due) PROVE TypeOK'
  <2>1. ChangeDue(todo, due) \in Todos
    BY <1>1, <1>5, TodoTypes DEF UpdateTodo
  <2> QED
    BY <1>2, <1>5, <2>1, BeginTypes DEF UpdateTodo, SuppressionReasons
<1>6. CASE CompleteTodo
  <2>1. Complete(todo) \in Todos
    BY <1>1, TodoTypes
  <2> QED
    BY <1>2, <1>6, <2>1, BeginTypes DEF CompleteTodo, SuppressionReasons
<1>7. CASE DeleteTodo
  <2>1. Delete(todo) \in Todos
    BY <1>1, TodoTypes
  <2> QED
    BY <1>2, <1>7, <2>1, BeginTypes DEF DeleteTodo, SuppressionReasons
<1>8. CASE CancelJobs
  <2>1. tx' \in Transactions
    BY <1>1, <1>8 DEF CancelJobs, Transactions
  <2>2. jobs' \in [Keys -> Jobs]
    BY <1>8, JobTypes DEF CancelJobs, TypeOK
  <2> QED
    BY <1>8, <2>1, <2>2 DEF CancelJobs, TypeOK
<1>9. CASE ReadScheduled
  <2>1. tx' \in Transactions
    BY <1>1, <1>9 DEF ReadScheduled, ScheduledForSuppression, Transactions
  <2> QED
    BY <1>9, <2>1 DEF ReadScheduled, TypeOK
<1>10. ASSUME NEW k \in Keys, SuppressRow(k) PROVE TypeOK'
  <2>1. tx' \in Transactions
    BY <1>1, <1>10 DEF SuppressRow, Transactions
  <2> QED
    BY <1>10, <2>1 DEF SuppressRow, TypeOK
<1>11. CASE EndRevoke
  <2>1. tx' \in Transactions
    BY <1>1, <1>11 DEF EndRevoke, Transactions
  <2> QED
    BY <1>11, <2>1 DEF EndRevoke, TypeOK
<1>12. CASE PlanReminder
  <2>1. PICK cs \in SUBSET Channels :
           tx' = [tx EXCEPT !.step = "commit",
                            !.planned = {tx.todo.reminderVersion} \X cs]
    BY <1>12 DEF PlanReminder
  <2>2. tx.todo.reminderVersion \in ReminderVersions
    BY <1>1 DEF Transactions, Todos
  <2>3. {tx.todo.reminderVersion} \X cs \in SUBSET Keys
    BY <2>2 DEF Keys
  <2>4. tx' \in Transactions
    BY <1>1, <2>1, <2>3 DEF Transactions
  <2> QED
    BY <1>12, <2>4 DEF PlanReminder, TypeOK
<1>13. CASE Commit
  <2>1. tx' \in Transactions /\ todo' \in Todos
    BY <1>1, <1>13, ConstantTypes DEF Commit, Transactions
  <2>2. plans' \in [ReminderVersions -> {"none", "planned", "revoked"}]
    BY <1>13 DEF Commit, RevokePlanned, TypeOK
  <2>3. ASSUME tx.written # {} PROVE SuppressedCopy \in Deliveries
    <3>1. tx.reason \in SuppressionReasons \cup {"none"}
      BY <1>1 DEF Transactions
    <3> QED
      BY <3>1, DeliveryTypes DEF SuppressedCopy, MarkSuppressed, Deliveries,
         DeliveryStates, FinalStates
  <2>4. rows' \in [Keys -> Deliveries]
    BY <1>13, <2>3, DeliveryTypes DEF Commit, TypeOK
  <2>5. jobs' \in [Keys -> Jobs]
    BY <1>13, JobTypes DEF Commit, TypeOK
  <2> QED
    BY <1>13, <2>1, <2>2, <2>4, <2>5 DEF Commit, TypeOK
<1>14. CASE Rollback
  BY <1>14, ConstantTypes DEF Rollback, TypeOK
<1> QED
  BY <1>4, <1>5, <1>6, <1>7, <1>8, <1>9, <1>10, <1>11, <1>12, <1>13, <1>14
     DEF Command, TxStep

(***************************************************************************)
(* A step of the Worker, of River or of the provider keeps the types.      *)
(***************************************************************************)
LEMMA WorkerTypes ==
    ASSUME TypeOK, NEW k \in Keys,
           \/ Fetch(k) \/ ExecutionStep(k) \/ RescueJob(k)
           \/ StatementFails(k) \/ ExecutionDies(k)
    PROVE  TypeOK'
<1> USE DEF apiVars, history
<1>1. /\ jobs \in [Keys -> Jobs]
      /\ rows \in [Keys -> Deliveries]
      /\ exec \in [Keys -> Executions]
      /\ sent \in [Keys -> Nat]
      /\ unrecorded \in [Keys -> Nat]
  BY DEF TypeOK
<1>2. /\ exec[k].delivery \in Deliveries
      /\ exec[k].reason \in SuppressionReasons \cup {"none"}
      /\ LoadOrCreate(k) \in Deliveries
  BY <1>1, DeliveryTypes DEF Executions, LoadOrCreate
<1>3. ASSUME exec' = [exec EXCEPT ![k] = NoExecution] PROVE exec' \in [Keys -> Executions]
  BY <1>1, <1>3, ConstantTypes
<1>4. ASSUME EndInError(k)
      PROVE  exec' \in [Keys -> Executions] /\ jobs' \in [Keys -> Jobs]
  BY <1>1, <1>3, <1>4, JobTypes DEF EndInError
<1>5. ASSUME TransientFailure(k)
      PROVE  exec' \in [Keys -> Executions] /\ jobs' \in [Keys -> Jobs]
  BY <1>1, <1>2, <1>4, <1>5, GotoTypes, DeliveryTypes DEF TransientFailure, Steps
<1>6. ASSUME ForgetSend(k) PROVE unrecorded' \in [Keys -> Nat]
  BY <1>1, <1>6 DEF ForgetSend
<1>7. CASE Fetch(k)
  <2>1. exec' \in [Keys -> Executions]
    BY <1>1, <1>7, ConstantTypes DEF Fetch, Executions, Steps, Wanted
  <2>2. jobs' \in [Keys -> Jobs]
    BY <1>1, <1>7, JobTypes DEF Fetch
  <2> QED
    BY <1>7, <2>1, <2>2 DEF Fetch, TypeOK
<1>8. CASE ReadPlan(k)
  <2>1. exec' \in [Keys -> Executions]
    BY <1>1, <1>8, GotoTypes, DeliveryTypes
       DEF ReadPlan, PlanVerdict, Steps, SuppressionReasons
  <2> QED
    BY <1>8, <2>1 DEF ReadPlan, TypeOK
<1>9. CASE ReadTodo(k)
  <2>1. TodoVerdict(VersionOf(k)) \in SuppressionReasons \cup {"none"}
    BY DEF TodoVerdict, SuppressionReasons
  <2>2. exec' \in [Keys -> Executions]
    BY <1>1, <1>9, <2>1, GotoTypes, DeliveryTypes DEF ReadTodo, Steps
  <2> QED
    BY <1>9, <2>2 DEF ReadTodo, TypeOK
<1>10. CASE LoadDelivery(k)
  <2>1. exec' \in [Keys -> Executions]
    BY <1>1, <1>2, <1>10, GotoTypes, DeliveryTypes DEF LoadDelivery, Steps
  <2> QED
    BY <1>10, <2>1 DEF LoadDelivery, TypeOK
<1>11. CASE SaveSending(k)
  <2>1. exec' \in [Keys -> Executions]
    BY <1>1, <1>11 DEF SaveSending, Executions, Steps
  <2>2. rows' \in [Keys -> Deliveries]
    BY <1>1, <1>2, <1>11 DEF SaveSending
  <2> QED
    BY <1>11, <2>1, <2>2 DEF SaveSending, TypeOK
<1>12. CASE ResolveChannel(k)
  <2>1. exec' \in [Keys -> Executions]
    BY <1>1, <1>2, <1>12, GotoTypes, DeliveryTypes
       DEF ResolveChannel, Steps, SuppressionReasons
  <2> QED
    BY <1>12, <2>1 DEF ResolveChannel, TypeOK
<1>13. CASE Notify(k)
  <2>1. CASE NotifyAccepted(k)
    <3>1. exec' \in [Keys -> Executions]
      BY <1>1, <1>2, <2>1, GotoTypes, DeliveryTypes DEF NotifyAccepted, Steps
    <3>2. sent' \in [Keys -> Nat]
      BY <1>1, <2>1 DEF NotifyAccepted
    <3> QED
      BY <2>1, <3>1, <3>2 DEF NotifyAccepted, TypeOK
  <2>2. CASE NotifyRefused(k)
    <3>1. exec' \in [Keys -> Executions]
      BY <1>1, <1>2, <2>2, GotoTypes, DeliveryTypes DEF NotifyRefused, Steps
    <3> QED
      BY <2>2, <3>1 DEF NotifyRefused, TypeOK
  <2>3. CASE NotifyTransient(k)
    BY <1>5, <2>3 DEF NotifyTransient, TypeOK
  <2>4. CASE NotifyAnswerLost(k)
    <3>1. sent' \in [Keys -> Nat] /\ unrecorded' \in [Keys -> Nat]
      BY <1>1, <2>4 DEF NotifyAnswerLost
    <3> QED
      BY <1>5, <2>4, <3>1 DEF NotifyAnswerLost, TypeOK
  <2> QED
    BY <1>13, <2>1, <2>2, <2>3, <2>4 DEF Notify
<1>14. CASE LoadForSuppression(k)
  <2>1. MarkSuppressed(LoadOrCreate(k), exec[k].reason) \in Deliveries
    BY <1>2 DEF MarkSuppressed, Deliveries, DeliveryStates, FinalStates
  <2>2. exec' \in [Keys -> Executions]
    BY <1>1, <1>14, <2>1, GotoTypes, DeliveryTypes DEF LoadForSuppression, Steps
  <2> QED
    BY <1>14, <2>2 DEF LoadForSuppression, TypeOK
<1>15. CASE RecordOutcome(k)
  <2>1. exec' \in [Keys -> Executions]
    BY <1>1, <1>15, GotoTypes, DeliveryTypes DEF RecordOutcome, Steps
  <2>2. rows' \in [Keys -> Deliveries]
    BY <1>1, <1>2, <1>15 DEF RecordOutcome
  <2> QED
    BY <1>15, <2>1, <2>2 DEF RecordOutcome, TypeOK
<1>16. CASE CompleteExecution(k)
  <2>1. jobs' \in [Keys -> Jobs]
    BY <1>1, <1>16, JobTypes DEF CompleteExecution
  <2> QED
    BY <1>3, <1>16, <2>1 DEF CompleteExecution, TypeOK
<1>17. CASE RescueJob(k)
  BY <1>4, <1>17 DEF RescueJob, TypeOK
<1>18. CASE StatementFails(k)
  BY <1>4, <1>6, <1>18 DEF StatementFails, TypeOK
<1>19. CASE ExecutionDies(k)
  <2>1. exec' \in [Keys -> Executions]
    BY <1>1, <1>19, ConstantTypes DEF ExecutionDies, Executions, Steps
  <2> QED
    BY <1>6, <1>19, <2>1 DEF ExecutionDies, TypeOK
<1> QED
  BY <1>7, <1>8, <1>9, <1>10, <1>11, <1>12, <1>13, <1>14, <1>15, <1>16, <1>17,
     <1>18, <1>19 DEF ExecutionStep

(***************************************************************************)
(* A step of the receipt webhook keeps the types.                          *)
(***************************************************************************)
LEMMA ReceiptTypes ==
    ASSUME TypeOK, Receipt
    PROVE  TypeOK'
<1> USE DEF apiVars, history
<1>1. receipts \in [Receivers -> ReceiptCalls] /\ rows \in [Keys -> Deliveries]
  BY DEF TypeOK
<1>2. PICK r \in Receivers :
         \/ \E k \in Keys, verdict \in ReceiptStates : ReceiveReceipt(r, k, verdict)
         \/ SaveReceipt(r)
         \/ ReceiptFails(r)
  BY DEF Receipt
<1>3. ASSUME NEW k \in Keys, NEW verdict \in ReceiptStates, ReceiveReceipt(r, k, verdict)
      PROVE  TypeOK'
  <2>1. ApplyReceipt(rows[k], verdict) \in Deliveries
    BY <1>1, DeliveryTypes
  <2>2. receipts' \in [Receivers -> ReceiptCalls]
    BY <1>1, <1>3, <2>1 DEF ReceiveReceipt, ReceiptCalls
  <2> QED
    BY <1>3, <2>2 DEF ReceiveReceipt, TypeOK
<1>4. CASE SaveReceipt(r)
  <2>1. rows' \in [Keys -> Deliveries] /\ receipts' \in [Receivers -> ReceiptCalls]
    BY <1>1, <1>4, ConstantTypes DEF SaveReceipt, ReceiptCalls
  <2> QED
    BY <1>4, <2>1 DEF SaveReceipt, TypeOK
<1>5. CASE ReceiptFails(r)
  BY <1>1, <1>5, ConstantTypes DEF ReceiptFails, TypeOK
<1> QED
  BY <1>2, <1>3, <1>4, <1>5

(***************************************************************************)
(* Type correctness: every reachable state has the types of the columns    *)
(* and structs it stands for.                                              *)
(***************************************************************************)
THEOREM TypeCorrect == Spec => []TypeOK
<1>1. Init => TypeOK
  BY ConstantTypes, TodoTypes, JobTypes, DeliveryTypes DEF Init, TypeOK
<1>2. TypeOK /\ [Next]_vars => TypeOK'
  <2> SUFFICES ASSUME TypeOK, [Next]_vars PROVE TypeOK'
    OBVIOUS
  <2>1. CASE Next
    BY <2>1, ApiTypes, WorkerTypes, ReceiptTypes DEF Next
  <2>2. CASE UNCHANGED vars
    BY <2>2 DEF TypeOK, vars
  <2> QED
    BY <2>1, <2>2
<1> QED
  BY <1>1, <1>2, PTL DEF Spec

(***************************************************************************)
(* What an execution of job k may do to the rows, the jobs and the other   *)
(* executions: rows and jobs neither appear nor vanish, an execution is    *)
(* under way exactly while River says so, and the copy it will write back  *)
(* is the copy of a row.                                                   *)
(***************************************************************************)
ExecutionFrame(k) ==
    /\ rows' = rows \/ (rows' = [rows EXCEPT ![k] = exec[k].delivery]
                          /\ exec[k].step \in {"mark", "record"})
    /\ \A q \in Keys \ {k} : exec'[q] = exec[q] /\ jobs'[q] = jobs[q]
    /\ jobs'[k].state # "absent" <=> jobs[k].state # "absent"
    /\ exec'[k].step # "idle" <=> jobs'[k].state = "running"
    /\ exec'[k].step \in {"mark", "resolve", "notify", "record"} =>
          exec'[k].delivery.state # "absent"

(* No step of the worker leaves that frame.                                *)
LEMMA ExecutionKeepsFrame ==
    ASSUME LoopInv, NEW k \in Keys,
           \/ Fetch(k) \/ ExecutionStep(k) \/ RescueJob(k)
           \/ StatementFails(k) \/ ExecutionDies(k)
    PROVE  ExecutionFrame(k)
<1> USE DEF ExecutionFrame
<1>1. /\ exec \in [Keys -> Executions]
      /\ jobs \in [Keys -> Jobs]
      /\ rows \in [Keys -> Deliveries]
  BY DEF LoopInv, TypeOK
<1>2. /\ exec[k].step # "idle" <=> jobs[k].state = "running"
      /\ exec[k].step \in {"mark", "resolve", "notify", "record"} =>
            exec[k].delivery.state # "absent"
  BY DEF LoopInv, RowsMatchJobs, CopiesBacked
<1>3. exec[k] \in Executions /\ jobs[k] \in Jobs /\ exec[k].delivery \in Deliveries
  BY <1>1 DEF Executions
<1>4. CASE Fetch(k)
  BY <1>1, <1>2, <1>3, <1>4
     DEF Fetch, FetchJob, NoExecution, Executions, Jobs, Deliveries
<1>5. CASE ReadPlan(k)
  BY <1>1, <1>2, <1>3, <1>5
     DEF ReadPlan, Goto, Executions, Jobs, Deliveries
<1>6. CASE ReadTodo(k)
  BY <1>1, <1>2, <1>3, <1>6
     DEF ReadTodo, Goto, Executions, Jobs, Deliveries
<1>7. CASE LoadDelivery(k)
  <2>1. LoadOrCreate(k) \in Deliveries
    BY <1>1, DeliveryTypes DEF LoadOrCreate
  <2>2. MarkSending(LoadOrCreate(k)).state = "sending"
    BY <2>1 DEF MarkSending, Deliveries
  <2> QED
    BY <1>1, <1>2, <1>3, <1>7, <2>2 DEF LoadDelivery, Goto, Executions, Jobs
<1>8. CASE SaveSending(k)
  BY <1>1, <1>2, <1>3, <1>8
     DEF SaveSending, Executions, Jobs, Deliveries
<1>9. CASE ResolveChannel(k)
  BY <1>1, <1>2, <1>3, <1>9
     DEF ResolveChannel, Goto, Executions, Jobs, Deliveries
<1>10. CASE NotifyAccepted(k)
  BY <1>1, <1>2, <1>3, <1>10
     DEF NotifyAccepted, Goto, MarkSucceeded, Executions, Jobs, Deliveries
<1>11. CASE NotifyRefused(k)
  BY <1>1, <1>2, <1>3, <1>11
     DEF NotifyRefused, Goto, MarkFailed, Executions, Jobs, Deliveries
<1>12. CASE NotifyTransient(k)
  BY <1>1, <1>2, <1>3, <1>12
     DEF NotifyTransient, Goto, MarkFailed, TransientFailure, EndInError, RetryJob, NoExecution, Executions, Jobs, Deliveries
<1>13. CASE NotifyAnswerLost(k)
  BY <1>1, <1>2, <1>3, <1>13
     DEF NotifyAnswerLost, Goto, MarkFailed, TransientFailure, EndInError, RetryJob, NoExecution, Executions, Jobs, Deliveries
<1>14. CASE LoadForSuppression(k)
  <2>1. LoadOrCreate(k) \in Deliveries
    BY <1>1, DeliveryTypes DEF LoadOrCreate
  <2>2. MarkSuppressed(LoadOrCreate(k), exec[k].reason).state = "suppressed"
    BY <2>1 DEF MarkSuppressed, Deliveries
  <2> QED
    BY <1>1, <1>2, <1>3, <1>14, <2>2 DEF LoadForSuppression, Goto, Executions, Jobs
<1>15. CASE RecordOutcome(k)
  BY <1>1, <1>2, <1>3, <1>15
     DEF RecordOutcome, Goto, Executions, Jobs, Deliveries
<1>16. CASE CompleteExecution(k)
  BY <1>1, <1>2, <1>3, <1>16
     DEF CompleteExecution, CompleteJob, NoExecution, Executions, Jobs, Deliveries
<1>17. CASE RescueJob(k)
  BY <1>1, <1>2, <1>3, <1>17
     DEF RescueJob, EndInError, RetryJob, NoExecution, Executions, Jobs, Deliveries
<1>18. CASE StatementFails(k)
  BY <1>1, <1>2, <1>3, <1>18
     DEF StatementFails, EndInError, RetryJob, NoExecution, Executions, Jobs, Deliveries
<1>19. CASE ExecutionDies(k)
  BY <1>1, <1>2, <1>3, <1>19
     DEF ExecutionDies, NoExecution, Executions, Jobs, Deliveries
<1> QED
  BY <1>4, <1>5, <1>6, <1>7, <1>8, <1>9, <1>10, <1>11, <1>12, <1>13, <1>14, <1>15, <1>16, <1>17, <1>18, <1>19 DEF ExecutionStep, Notify

(***************************************************************************)
(* No step of the Worker, of River or of the provider breaks LoopInv.      *)
(***************************************************************************)
LEMMA WorkerKeepsLoopInv ==
    ASSUME LoopInv, NEW k \in Keys,
           \/ Fetch(k) \/ ExecutionStep(k) \/ RescueJob(k)
           \/ StatementFails(k) \/ ExecutionDies(k)
    PROVE  LoopInv'
<1>1. TypeOK'
  BY WorkerTypes DEF LoopInv
<1>2. ExecutionFrame(k)
  BY ExecutionKeepsFrame
<1>3. UNCHANGED <<todo, plans, tx, receipts>>
  BY DEF Fetch, ExecutionStep, Notify, RescueJob, StatementFails, ExecutionDies, ReadPlan,
         ReadTodo, LoadDelivery, SaveSending, ResolveChannel, NotifyAccepted, NotifyRefused,
         NotifyTransient, NotifyAnswerLost, LoadForSuppression, RecordOutcome,
         CompleteExecution, apiVars
<1>4. /\ rows \in [Keys -> Deliveries]
      /\ exec \in [Keys -> Executions]
      /\ tx \in Transactions
  BY DEF LoopInv, TypeOK
<1>5. exec[k].step \in {"mark", "record"} =>
         exec[k].delivery.state # "absent" /\ rows[k].state # "absent"
  BY DEF LoopInv, CopiesBacked, RowsMatchJobs
<1>6. \A q \in Keys : rows'[q].state # "absent" <=> rows[q].state # "absent"
  BY <1>2, <1>4, <1>5 DEF ExecutionFrame
<1>7. PlansMatchTodo' /\ FuturePlansUnwritten'
  BY <1>3 DEF LoopInv, PlansMatchTodo, FuturePlansUnwritten
<1>8. RowsMatchJobs'
  BY <1>2, <1>3, <1>6 DEF LoopInv, RowsMatchJobs, ExecutionFrame
<1>9. TxCoherent'
  <2>1. tx.read \in SUBSET Keys
    BY <1>4 DEF Transactions
  <2> QED
    BY <1>3, <1>6, <2>1 DEF LoopInv, TxCoherent, Plans
<1>10. CopiesBacked'
  BY <1>2, <1>3, <1>6 DEF LoopInv, CopiesBacked, ExecutionFrame
<1> QED
  BY <1>1, <1>7, <1>8, <1>9, <1>10 DEF LoopInv

(***************************************************************************)
(* No step of the receipt webhook breaks LoopInv.                          *)
(***************************************************************************)
LEMMA ReceiptKeepsLoopInv ==
    ASSUME LoopInv, Receipt
    PROVE  LoopInv'
<1>1. TypeOK'
  BY ReceiptTypes DEF LoopInv
<1>2. PICK r \in Receivers :
         \/ \E k \in Keys, verdict \in ReceiptStates : ReceiveReceipt(r, k, verdict)
         \/ SaveReceipt(r)
         \/ ReceiptFails(r)
  BY DEF Receipt
<1>3. /\ rows \in [Keys -> Deliveries]
      /\ receipts \in [Receivers -> ReceiptCalls]
      /\ tx.read \in SUBSET Keys
  BY DEF LoopInv, TypeOK, Transactions
<1>4. UNCHANGED <<todo, plans, tx, jobs, exec>>
  BY <1>2 DEF ReceiveReceipt, SaveReceipt, ReceiptFails, apiVars
<1>5. /\ \A q \in Keys : rows'[q].state # "absent" <=> rows[q].state # "absent"
      /\ \A p \in Receivers : receipts'[p].step = "save" =>
            /\ receipts'[p].key \in Keys
            /\ rows'[receipts'[p].key].state # "absent"
            /\ receipts'[p].delivery.state # "absent"
  <2>1. \A p \in Receivers : receipts[p].step = "save" =>
            /\ receipts[p].key \in Keys
            /\ rows[receipts[p].key].state # "absent"
            /\ receipts[p].delivery.state # "absent"
    BY DEF LoopInv, CopiesBacked
  <2>2. ASSUME NEW k \in Keys, NEW verdict \in ReceiptStates, ReceiveReceipt(r, k, verdict)
        PROVE  <1>5!1 /\ <1>5!2
    <3>1. ApplyReceipt(rows[k], verdict).state = "succeeded"
      BY <1>3, <2>2 DEF ReceiveReceipt, ApplyReceipt, Deliveries
    <3> QED
      BY <1>3, <2>1, <2>2, <3>1 DEF ReceiveReceipt, ReceiptCalls
  <2>3. CASE SaveReceipt(r)
    BY <1>3, <2>1, <2>3 DEF SaveReceipt, NoReceipt, ReceiptCalls
  <2>4. CASE ReceiptFails(r)
    BY <1>3, <2>1, <2>4 DEF ReceiptFails, NoReceipt, ReceiptCalls
  <2> QED
    BY <1>2, <2>2, <2>3, <2>4
<1>6. PlansMatchTodo' /\ FuturePlansUnwritten'
  BY <1>4 DEF LoopInv, PlansMatchTodo, FuturePlansUnwritten
<1>7. RowsMatchJobs'
  BY <1>4, <1>5 DEF LoopInv, RowsMatchJobs
<1>8. TxCoherent'
  BY <1>3, <1>4, <1>5 DEF LoopInv, TxCoherent, Plans
<1>9. CopiesBacked'
  BY <1>4, <1>5 DEF LoopInv, CopiesBacked
<1> QED
  BY <1>1, <1>6, <1>7, <1>8, <1>9 DEF LoopInv

(***************************************************************************)
(* A command that begins, and a step of a transaction other than its       *)
(* commit, leave the committed todo, plans and rows alone; what is left to *)
(* show is that the transaction's intent is right.                         *)
(***************************************************************************)
LEMMA UncommittedKeepsLoopInv ==
    ASSUME LoopInv, TypeOK', TxCoherent',
           UNCHANGED <<todo, plans, rows, exec, receipts>>,
           \A k \in Keys : /\ jobs'[k].state = "absent" <=> jobs[k].state = "absent"
                           /\ jobs'[k].state = "running" <=> jobs[k].state = "running"
    PROVE  LoopInv'
<1>1. PlansMatchTodo' /\ FuturePlansUnwritten'
  BY DEF LoopInv, PlansMatchTodo, FuturePlansUnwritten
<1>2. RowsMatchJobs'
  BY DEF LoopInv, RowsMatchJobs
<1>3. CopiesBacked'
  BY DEF LoopInv, CopiesBacked
<1> QED
  BY <1>1, <1>2, <1>3 DEF LoopInv

(* A transaction that has planned nothing yet has planned no channel.      *)
LEMMA NothingPlanned ==
    \A v : \E cs \in SUBSET Channels : {} = {v} \X cs
<1> TAKE v
<1> WITNESS {} \in SUBSET Channels
<1> QED
  OBVIOUS

(* No command that begins breaks LoopInv.                                  *)
LEMMA CommandKeepsLoopInv ==
    ASSUME LoopInv, Command
    PROVE  LoopInv'
<1>1. TypeOK'
  BY ApiTypes DEF LoopInv
<1>2. todo \in Todos
  BY DEF LoopInv, TypeOK
<1>3. UNCHANGED <<todo, plans, rows, jobs, exec, receipts>>
  BY DEF Command, CreateTodo, UpdateTodo, CompleteTodo, DeleteTodo, Begin
<1>4. TxCoherent'
  <2> USE DEF NoTx
  <2>2. ASSUME NEW due \in Dues, CreateTodo(due) PROVE TxCoherent'
    <3>1. tx' = [NoTx EXCEPT !.op = "create", !.todo = New(due), !.upTo = 0,
                   !.reason = "none", !.step = IF due = NoDue THEN "commit" ELSE "plan"]
      BY <2>2 DEF CreateTodo, Begin
    <3>2. /\ tx'.op = "create" /\ tx'.todo = New(due) /\ tx'.upTo = 0
          /\ tx'.read = {} /\ tx'.written = {} /\ tx'.planned = {}
          /\ tx'.step = "plan" => due # NoDue
      BY <3>1
    <3>3. New(due).due = due
      BY DEF New
    <3>4. \E cs \in SUBSET Channels : {} = {tx'.todo.reminderVersion} \X cs
      BY NothingPlanned
    <3> QED
      BY <1>3, <2>2, <3>2, <3>3, <3>4 DEF TxCoherent, CreateTodo, Plans
  <2>3. ASSUME NEW due \in Dues, UpdateTodo(due) PROVE TxCoherent'
    <3>1. tx' = [NoTx EXCEPT !.op = "update", !.todo = ChangeDue(todo, due),
                   !.upTo = todo.reminderVersion, !.reason = "version_stale",
                   !.step = "cancel"]
      BY <2>3 DEF UpdateTodo, Begin
    <3>2. /\ tx'.op = "update" /\ tx'.todo = ChangeDue(todo, due)
          /\ tx'.upTo = todo.reminderVersion
          /\ tx'.read = {} /\ tx'.written = {} /\ tx'.planned = {}
          /\ tx'.step = "cancel"
      BY <3>1
    <3>3. \E cs \in SUBSET Channels : {} = {tx'.todo.reminderVersion} \X cs
      BY NothingPlanned
    <3> QED
      BY <1>3, <2>3, <3>2, <3>3 DEF TxCoherent, UpdateTodo
  <2>4. CASE CompleteTodo
    <3>1. tx' = [NoTx EXCEPT !.op = "complete", !.todo = Complete(todo),
                   !.upTo = todo.reminderVersion, !.reason = "todo_completed",
                   !.step = "cancel"]
      BY <2>4 DEF CompleteTodo, Begin
    <3> QED
      BY <1>3, <2>4, <3>1 DEF TxCoherent, CompleteTodo, Plans
  <2>5. CASE DeleteTodo
    <3>1. tx' = [NoTx EXCEPT !.op = "delete", !.todo = Delete(todo),
                   !.upTo = todo.reminderVersion, !.reason = "todo_deleted",
                   !.step = "cancel"]
      BY <2>5 DEF DeleteTodo, Begin
    <3> QED
      BY <1>3, <2>5, <3>1 DEF TxCoherent, DeleteTodo, Plans
  <2> QED
    BY <2>2, <2>3, <2>4, <2>5 DEF Command
<1> QED
  BY <1>1, <1>3, <1>4, UncommittedKeepsLoopInv

(***************************************************************************)
(* No step of a transaction before its commit, and no rollback, breaks     *)
(* LoopInv.                                                                *)
(***************************************************************************)
LEMMA OpenTxKeepsLoopInv ==
    ASSUME LoopInv,
           \/ CancelJobs \/ ReadScheduled \/ EndRevoke \/ PlanReminder \/ Rollback
           \/ \E k \in Keys : SuppressRow(k)
    PROVE  LoopInv'
<1>1. TypeOK'
  BY ApiTypes DEF LoopInv, TxStep
<1>2. /\ tx \in Transactions
      /\ jobs \in [Keys -> Jobs]
      /\ TxCoherent
  BY DEF LoopInv, TypeOK
<1>3. UNCHANGED <<todo, plans, rows, exec, receipts>>
  BY DEF CancelJobs, ReadScheduled, EndRevoke, PlanReminder, Rollback, SuppressRow
<1>4. \A k \in Keys : /\ jobs'[k].state = "absent" <=> jobs[k].state = "absent"
                      /\ jobs'[k].state = "running" <=> jobs[k].state = "running"
  <2>1. CASE CancelJobs
    <3>1. PICK cancelled \in SUBSET PlannedJobIDs :
             jobs' = [k \in Keys |-> IF k \in cancelled THEN CancelJob(jobs[k]) ELSE jobs[k]]
      BY <2>1 DEF CancelJobs
    <3>2. \A k \in Keys : /\ CancelJob(jobs[k]).state = "absent" <=> jobs[k].state = "absent"
                          /\ CancelJob(jobs[k]).state = "running" <=> jobs[k].state = "running"
      BY <1>2 DEF CancelJob, Jobs
    <3> QED
      BY <3>1, <3>2
  <2>2. CASE UNCHANGED jobs
    BY <2>2
  <2> QED
    BY <2>1, <2>2 DEF ReadScheduled, EndRevoke, PlanReminder, Rollback, SuppressRow
<1>5. TxCoherent'
  <2>1. CASE CancelJobs
    <3>1. tx' = [tx EXCEPT !.step = "read"] /\ tx.step = "cancel"
      BY <2>1 DEF CancelJobs
    <3>2. /\ tx'.op = tx.op /\ tx'.todo = tx.todo /\ tx'.upTo = tx.upTo
          /\ tx'.read = tx.read /\ tx'.written = tx.written /\ tx'.planned = tx.planned
          /\ tx'.step = "read" /\ tx.op # "none"
      BY <1>2, <3>1 DEF Transactions, TxCoherent, NoTx
    <3> QED
      BY <1>2, <1>3, <3>1, <3>2 DEF TxCoherent, Plans
  <2>2. CASE ReadScheduled
    <3>1. tx' = [tx EXCEPT !.step = "suppress", !.read = ScheduledForSuppression]
          /\ tx.step = "read"
      BY <2>2 DEF ReadScheduled
    <3>2. /\ tx'.op = tx.op /\ tx'.todo = tx.todo /\ tx'.upTo = tx.upTo
          /\ tx'.read = ScheduledForSuppression /\ tx'.written = tx.written
          /\ tx'.planned = tx.planned /\ tx'.step = "suppress" /\ tx.op # "none"
      BY <1>2, <3>1 DEF Transactions, TxCoherent, NoTx
    <3>3. tx.written \subseteq ScheduledForSuppression
      BY <1>2, <3>1 DEF TxCoherent
    <3> QED
      BY <1>2, <1>3, <3>2, <3>3 DEF TxCoherent, Plans, ScheduledForSuppression
  <2>3. ASSUME NEW k \in Keys, SuppressRow(k) PROVE TxCoherent'
    <3>1. tx' = [tx EXCEPT !.written = @ \cup {k}] /\ k \in tx.read /\ tx.step = "suppress"
      BY <2>3 DEF SuppressRow
    <3>2. /\ tx'.op = tx.op /\ tx'.todo = tx.todo /\ tx'.upTo = tx.upTo
          /\ tx'.read = tx.read /\ tx'.written = tx.written \cup {k}
          /\ tx'.planned = tx.planned /\ tx'.step = "suppress" /\ tx.op # "none"
      BY <1>2, <3>1 DEF Transactions, TxCoherent, NoTx
    <3> QED
      BY <1>2, <1>3, <3>1, <3>2 DEF TxCoherent, Plans
  <2>4. CASE EndRevoke
    <3>1. /\ tx' = [tx EXCEPT !.step = IF tx.op = "update" /\ tx.todo.due # NoDue
                                      THEN "plan" ELSE "commit"]
          /\ tx.step = "suppress"
      BY <2>4 DEF EndRevoke
    <3>2. /\ tx'.op = tx.op /\ tx'.todo = tx.todo /\ tx'.upTo = tx.upTo
          /\ tx'.read = tx.read /\ tx'.written = tx.written /\ tx'.planned = tx.planned
          /\ tx'.step \in {"plan", "commit"}
          /\ tx'.step = "plan" => tx.op = "update" /\ tx.todo.due # NoDue
          /\ tx.op # "none"
      BY <1>2, <3>1 DEF Transactions, TxCoherent, NoTx
    <3> QED
      BY <1>2, <1>3, <3>2 DEF TxCoherent, Plans
  <2>5. CASE PlanReminder
    <3>1. PICK cs \in SUBSET Channels :
             /\ tx' = [tx EXCEPT !.step = "commit",
                                !.planned = {tx.todo.reminderVersion} \X cs]
             /\ tx.step = "plan"
      BY <2>5 DEF PlanReminder
    <3>2. /\ tx'.op = tx.op /\ tx'.todo = tx.todo /\ tx'.upTo = tx.upTo
          /\ tx'.read = tx.read /\ tx'.written = tx.written
          /\ tx'.planned = {tx.todo.reminderVersion} \X cs
          /\ tx'.step = "commit" /\ tx.op # "none"
      BY <1>2, <3>1 DEF Transactions, TxCoherent, NoTx
    <3>3. Plans(tx)
      BY <1>2, <3>1 DEF TxCoherent
    <3> QED
      BY <1>2, <1>3, <3>2, <3>3 DEF TxCoherent, Plans
  <2>6. CASE Rollback
    BY <2>6 DEF Rollback, TxCoherent, NoTx, Plans
  <2> QED
    BY <2>1, <2>2, <2>3, <2>4, <2>5, <2>6
<1> QED
  BY <1>1, <1>3, <1>4, <1>5, UncommittedKeepsLoopInv

(***************************************************************************)
(* What a transaction finds when it commits: the version it plans is       *)
(* unwritten, so its keys have no row, no job and no execution.            *)
(***************************************************************************)
LEMMA PlannedIsFresh ==
    ASSUME LoopInv, Plans(tx)
    PROVE  /\ plans[tx.todo.reminderVersion] = "none"
           /\ tx.todo.reminderVersion > tx.upTo
           /\ \A k \in tx.planned :
                 /\ VersionOf(k) = tx.todo.reminderVersion
                 /\ rows[k].state = "absent"
                 /\ jobs[k].state = "absent"
                 /\ exec[k].step = "idle"
<1>1. todo \in Todos /\ tx \in Transactions /\ TxCoherent /\ RowsMatchJobs
  BY DEF LoopInv, TypeOK
<1>2. tx.todo.reminderVersion \in ReminderVersions /\ todo.reminderVersion \in ReminderVersions
  BY <1>1 DEF Transactions, Todos
<1>3. /\ todo.status = "absent" \/ tx.todo.reminderVersion > todo.reminderVersion
      /\ tx.todo.reminderVersion > tx.upTo
  <2>1. CASE tx.op = "create"
    <3>1. tx.upTo = 0 /\ todo.status = "absent"
      BY <1>1, <2>1 DEF TxCoherent
    <3>2. tx.todo.reminderVersion > 0
      BY <1>2 DEF ReminderVersions
    <3> QED
      BY <3>1, <3>2
  <2>2. CASE tx.op = "update"
    <3>1. PICK due \in Dues : tx.todo = ChangeDue(todo, due)
      BY <1>1, <2>2 DEF TxCoherent
    <3>2. tx.todo.reminderVersion = todo.reminderVersion + 1
      BY <1>1, <3>1 DEF ChangeDue, Todos
    <3>3. tx.upTo = todo.reminderVersion
      BY <1>1, <2>2 DEF TxCoherent
    <3> QED
      BY <1>2, <3>2, <3>3 DEF ReminderVersions
  <2> QED
    BY <2>1, <2>2 DEF Plans
<1>4. plans[tx.todo.reminderVersion] = "none"
  BY <1>2, <1>3 DEF LoopInv, FuturePlansUnwritten
<1>5. ASSUME NEW k \in tx.planned
      PROVE  /\ VersionOf(k) = tx.todo.reminderVersion
             /\ rows[k].state = "absent"
             /\ jobs[k].state = "absent"
             /\ exec[k].step = "idle"
  <2>1. VersionOf(k) = tx.todo.reminderVersion
    BY <1>1, <1>5 DEF TxCoherent, VersionOf
  <2>2. k \in Keys
    BY <1>1, <1>5 DEF Transactions
  <2> QED
    BY <1>1, <1>4, <2>1, <2>2 DEF RowsMatchJobs
<1> QED
  BY <1>3, <1>4, <1>5

(***************************************************************************)
(* The rows and jobs after a commit.                                       *)
(***************************************************************************)
LEMMA CommittedRows ==
    ASSUME LoopInv, Commit, NEW k \in Keys
    PROVE  /\ rows'[k].state # "absent" <=> rows[k].state # "absent" \/ k \in tx.planned
           /\ jobs'[k].state # "absent" <=> jobs[k].state # "absent" \/ k \in tx.planned
           /\ jobs'[k].state = "running" <=> jobs[k].state = "running"
<1>1. TxCoherent /\ tx \in Transactions
  BY DEF LoopInv, TypeOK
<1>2. SuppressedCopy.state = "suppressed" /\ NewDelivery.state = "scheduled"
  BY DEF SuppressedCopy, MarkSuppressed, NewDelivery, NoRow
<1>3. InsertJob.state = "available"
  BY DEF InsertJob, NoJob
<1>4. k \in tx.planned => jobs[k].state = "absent"
  BY <1>1, PlannedIsFresh DEF TxCoherent
<1>5. k \in tx.written => rows[k].state # "absent"
  BY <1>1 DEF TxCoherent
<1>6. /\ rows'[k] = CASE k \in tx.written -> SuppressedCopy
                      [] k \in tx.planned -> NewDelivery
                      [] OTHER -> rows[k]
      /\ jobs'[k] = IF k \in tx.planned THEN InsertJob ELSE jobs[k]
  BY DEF Commit
<1> QED
  BY <1>2, <1>3, <1>4, <1>5, <1>6

(* A transaction that commits has a command to carry out.                  *)
LEMMA CommitIntent ==
    ASSUME LoopInv, Commit
    PROVE  /\ todo \in Todos /\ tx \in Transactions /\ TxCoherent /\ PlansMatchTodo
           /\ todo' = tx.todo
           /\ tx.op \in {"create", "update", "complete", "delete"}
<1>1. todo \in Todos /\ tx \in Transactions /\ TxCoherent /\ PlansMatchTodo
  BY DEF LoopInv, TypeOK
<1>2. tx.step = "commit" /\ todo' = tx.todo
  BY DEF Commit
<1>3. NoTx.step = "none"
  BY DEF NoTx
<1>4. tx.op # "none"
  BY <1>1, <1>2, <1>3 DEF TxCoherent
<1> QED
  BY <1>1, <1>2, <1>4 DEF Transactions

(***************************************************************************)
(* The plans after a commit: every live plan was at or below the cutoff.   *)
(***************************************************************************)
LEMMA CommittedPlans ==
    ASSUME LoopInv, Commit, NEW v \in ReminderVersions
    PROVE  plans'[v] = IF Plans(tx) /\ v = tx.todo.reminderVersion THEN "planned"
                       ELSE IF plans[v] = "planned" THEN "revoked" ELSE plans[v]
<1>1. /\ todo \in Todos /\ tx \in Transactions /\ TxCoherent /\ PlansMatchTodo
      /\ tx.op # "none"
  BY CommitIntent
<1>2. plans[v] = "planned" => v <= tx.upTo
  <2>1. ASSUME plans[v] = "planned" PROVE v <= tx.upTo
    <3>1. v = todo.reminderVersion /\ todo.status # "absent"
      BY <1>1, <2>1 DEF PlansMatchTodo
    <3>2. tx.op \in {"update", "complete", "delete"}
      BY <1>1, <3>1 DEF TxCoherent, Transactions
    <3>3. v = tx.upTo
      BY <1>1, <3>1, <3>2 DEF TxCoherent
    <3> QED
      BY <3>3 DEF ReminderVersions
  <2> QED
    BY <2>1
<1> QED
  BY <1>2 DEF Commit, RevokePlanned

(* What becomes of the todo when a transaction commits.                    *)
LEMMA CommittedTodo ==
    ASSUME LoopInv, Commit
    PROVE  /\ todo' = tx.todo
           /\ todo'.reminderVersion \in ReminderVersions
           /\ todo'.status # "absent"
           /\ todo.status = "absent" \/ todo'.reminderVersion >= todo.reminderVersion
           /\ Plans(tx) => todo'.status \in {"pending", "completed"} /\ todo'.due # NoDue
           /\ ~Plans(tx) => todo'.status # "pending" \/ todo'.due = NoDue
<1>1. /\ todo \in Todos /\ tx \in Transactions /\ TxCoherent
      /\ todo' = tx.todo /\ tx.op # "none"
  BY CommitIntent
<1>2. todo.reminderVersion \in ReminderVersions /\ tx.todo.reminderVersion \in ReminderVersions
  BY <1>1 DEF Todos, Transactions
<1>3. CASE tx.op = "create"
  <2>1. PICK due \in Dues : tx.todo = New(due)
    BY <1>1, <1>3 DEF TxCoherent
  <2>2. tx.todo.status = "pending" /\ todo.status = "absent"
    BY <1>1, <1>3, <2>1 DEF New, TxCoherent
  <2> QED
    BY <1>1, <1>2, <1>3, <2>2 DEF Plans
<1>4. CASE tx.op = "update"
  <2>1. PICK due \in Dues : CanChangeDue(todo, due) /\ tx.todo = ChangeDue(todo, due)
    BY <1>1, <1>4 DEF TxCoherent
  <2>2. /\ tx.todo.reminderVersion = todo.reminderVersion + 1
        /\ tx.todo.status = todo.status
        /\ todo.status \in {"pending", "completed"}
    BY <1>1, <2>1 DEF ChangeDue, CanChangeDue, Todos
  <2> QED
    BY <1>1, <1>2, <1>4, <2>2 DEF Plans, ReminderVersions
<1>5. CASE tx.op = "complete"
  <2>1. tx.todo.status = "completed" /\ tx.todo.reminderVersion = todo.reminderVersion
    BY <1>1, <1>5 DEF TxCoherent, Complete, Todos
  <2> QED
    BY <1>1, <1>2, <1>5, <2>1 DEF Plans, ReminderVersions
<1>6. CASE tx.op = "delete"
  <2>1. tx.todo.status = "deleted" /\ tx.todo.reminderVersion = todo.reminderVersion
    BY <1>1, <1>6 DEF TxCoherent, Delete, Todos
  <2> QED
    BY <1>1, <1>2, <1>6, <2>1 DEF Plans, ReminderVersions
<1> QED
  BY <1>1, <1>3, <1>4, <1>5, <1>6 DEF Transactions

(***************************************************************************)
(* A commit keeps LoopInv.                                                 *)
(***************************************************************************)
LEMMA CommitKeepsLoopInv ==
    ASSUME LoopInv, Commit
    PROVE  LoopInv'
<1>1. TypeOK'
  BY ApiTypes DEF LoopInv, TxStep
<1>2. tx' = NoTx /\ UNCHANGED <<exec, receipts>>
  BY DEF Commit
<1>3. /\ todo \in Todos
      /\ todo.reminderVersion \in ReminderVersions
      /\ tx.planned \in SUBSET Keys
  BY DEF LoopInv, TypeOK, Todos, Transactions
<1>4. PlansMatchTodo'
  BY CommittedPlans, CommittedTodo DEF PlansMatchTodo
<1>5. FuturePlansUnwritten'
  <2>1. ASSUME NEW v \in ReminderVersions, v > todo'.reminderVersion
        PROVE  plans'[v] = "none"
    <3>1. todo.status = "absent" \/ v > todo.reminderVersion
      BY <1>3, <2>1, CommittedTodo DEF ReminderVersions
    <3>2. plans[v] = "none"
      BY <3>1 DEF LoopInv, FuturePlansUnwritten
    <3>3. v # tx.todo.reminderVersion
      BY <2>1, CommittedTodo DEF ReminderVersions
    <3> QED
      BY <3>2, <3>3, CommittedPlans
  <2> QED
    BY <2>1, CommittedTodo DEF FuturePlansUnwritten
<1>6. RowsMatchJobs'
  <2> SUFFICES ASSUME NEW k \in Keys
               PROVE  /\ rows'[k].state # "absent" <=> jobs'[k].state # "absent"
                      /\ rows'[k].state # "absent" => plans'[VersionOf(k)] # "none"
                      /\ exec'[k].step # "idle" <=> jobs'[k].state = "running"
    BY DEF RowsMatchJobs
  <2>1. /\ rows[k].state # "absent" <=> jobs[k].state # "absent"
        /\ rows[k].state # "absent" => plans[VersionOf(k)] # "none"
        /\ exec[k].step # "idle" <=> jobs[k].state = "running"
    BY DEF LoopInv, RowsMatchJobs
  <2>2. VersionOf(k) \in ReminderVersions
    BY DEF Keys, VersionOf
  <2>3. k \in tx.planned => Plans(tx) /\ VersionOf(k) = tx.todo.reminderVersion
    BY PlannedIsFresh DEF LoopInv, TxCoherent
  <2>4. rows'[k].state # "absent" => plans'[VersionOf(k)] # "none"
    BY <2>1, <2>2, <2>3, CommittedPlans, CommittedRows
  <2> QED
    BY <1>2, <2>1, <2>4, CommittedRows
<1>7. TxCoherent'
  BY <1>2 DEF TxCoherent, NoTx, Plans
<1>8. CopiesBacked'
  BY <1>2, CommittedRows DEF LoopInv, CopiesBacked
<1> QED
  BY <1>1, <1>4, <1>5, <1>6, <1>7, <1>8 DEF LoopInv

(***************************************************************************)
(* LoopInv is an invariant of the specification.                           *)
(***************************************************************************)
THEOREM LoopInvariance == Spec => []LoopInv
<1>1. Init => LoopInv
  <2> SUFFICES ASSUME Init PROVE LoopInv
    OBVIOUS
  <2>1. TypeOK
    BY ConstantTypes, TodoTypes, JobTypes, DeliveryTypes DEF Init, TypeOK
  <2>2. PlansMatchTodo /\ FuturePlansUnwritten
    BY DEF Init, PlansMatchTodo, FuturePlansUnwritten, NoTodo
  <2>3. RowsMatchJobs
    BY DEF Init, RowsMatchJobs, NoRow, NoJob, NoExecution
  <2>4. TxCoherent
    BY DEF Init, TxCoherent, NoTx, Plans
  <2>5. CopiesBacked
    BY DEF Init, CopiesBacked, NoExecution, NoReceipt
  <2> QED
    BY <2>1, <2>2, <2>3, <2>4, <2>5 DEF LoopInv
<1>2. LoopInv /\ [Next]_vars => LoopInv'
  <2> SUFFICES ASSUME LoopInv, [Next]_vars PROVE LoopInv'
    OBVIOUS
  <2>1. CASE Command
    BY <2>1, CommandKeepsLoopInv
  <2>2. CASE TxStep
    BY <2>2, OpenTxKeepsLoopInv, CommitKeepsLoopInv DEF TxStep
  <2>3. ASSUME NEW k \in Keys,
               \/ Fetch(k) \/ ExecutionStep(k) \/ RescueJob(k)
               \/ StatementFails(k) \/ ExecutionDies(k)
        PROVE  LoopInv'
    BY <2>3, WorkerKeepsLoopInv
  <2>4. CASE Receipt
    BY <2>4, ReceiptKeepsLoopInv
  <2>5. CASE UNCHANGED vars
    <3> USE <2>5 DEF vars
    <3>1. TypeOK' /\ PlansMatchTodo'
      BY DEF LoopInv, TypeOK, PlansMatchTodo
    <3>2. RowsMatchJobs' /\ CopiesBacked'
      BY DEF LoopInv, RowsMatchJobs, CopiesBacked
    <3>3. TxCoherent'
      BY DEF LoopInv, TxCoherent, Plans
    <3>4. FuturePlansUnwritten'
      BY DEF LoopInv, FuturePlansUnwritten
    <3> QED
      BY <3>1, <3>2, <3>3, <3>4 DEF LoopInv
  <2> QED
    BY <2>1, <2>2, <2>3, <2>4, <2>5 DEF Next
<1> QED
  BY <1>1, <1>2, PTL DEF Spec

(***************************************************************************)
(* Plans follow the todo, whatever commands ran, failed or rolled back.    *)
(***************************************************************************)
THEOREM PlansFollowTodo == Spec => []PlansMatchTodo
<1>1. LoopInv => PlansMatchTodo
  BY DEF LoopInv
<1> QED
  BY <1>1, LoopInvariance, PTL

(***************************************************************************)
(* No execution ever meets a missing plan or a missing delivery row.       *)
(***************************************************************************)
THEOREM RowsFollowJobs == Spec => []RowsMatchJobs
<1>1. LoopInv => RowsMatchJobs
  BY DEF LoopInv
<1> QED
  BY <1>1, LoopInvariance, PTL

-------------------------------------------------------------------------------
(***************************************************************************)
(* The commands are atomic: ReminderLoop implements TodoPlans.  A commit   *)
(* is the step of its command, every other step is a stutter.              *)
(***************************************************************************)
LEMMA CommittedRequests ==
    ASSUME LoopInv, Commit
    PROVE  IF Plans(tx)
           THEN \E cs \in SUBSET Channels :
                   requested' = [requested EXCEPT ![tx.todo.reminderVersion] = cs]
           ELSE UNCHANGED requested
<1>1. TxCoherent
  BY CommitIntent
<1>2. ASSUME NEW v \in ReminderVersions, NEW c \in Channels
      PROVE  rows'[<<v, c>>].state # "absent" <=>
                 rows[<<v, c>>].state # "absent" \/ <<v, c>> \in tx.planned
  <2>1. <<v, c>> \in Keys
    BY DEF Keys
  <2> QED
    BY <2>1, CommittedRows
<1>3. CASE ~Plans(tx)
  <2>1. tx.planned = {}
    BY <1>1, <1>3 DEF TxCoherent
  <2> QED
    BY <1>2, <1>3, <2>1 DEF requested
<1>4. CASE Plans(tx)
  <2>1. PICK cs \in SUBSET Channels : tx.planned = {tx.todo.reminderVersion} \X cs
    BY <1>1, <1>4 DEF TxCoherent
  <2>2. ASSUME NEW c \in Channels
        PROVE  rows[<<tx.todo.reminderVersion, c>>].state = "absent"
    <3>1. tx.todo.reminderVersion \in ReminderVersions
      BY CommittedTodo
    <3>2. <<tx.todo.reminderVersion, c>> \in Keys
      BY <3>1 DEF Keys
    <3>3. plans[tx.todo.reminderVersion] = "none"
      BY <1>4, PlannedIsFresh
    <3> QED
      BY <3>2, <3>3 DEF LoopInv, RowsMatchJobs, VersionOf
  <2>3. requested' = [requested EXCEPT ![tx.todo.reminderVersion] = cs]
    <3> DEFINE V == tx.todo.reminderVersion
    <3>1. ASSUME NEW v \in ReminderVersions
          PROVE  {c \in Channels : rows'[<<v, c>>].state # "absent"} =
                 IF v = V THEN cs ELSE {c \in Channels : rows[<<v, c>>].state # "absent"}
      <4>1. CASE v = V
        <5>1. \A c \in Channels : <<v, c>> \in tx.planned <=> c \in cs
          BY <2>1, <4>1
        <5> QED
          BY <1>2, <2>2, <4>1, <5>1
      <4>2. CASE v # V
        <5>1. \A c \in Channels : <<v, c>> \notin tx.planned
          BY <2>1, <4>2
        <5> QED
          BY <1>2, <4>2, <5>1
      <4> QED
        BY <4>1, <4>2
    <3> QED
      BY <3>1 DEF requested
  <2> QED
    BY <1>4, <2>3
<1> QED
  BY <1>3, <1>4

(* The instance speaks of the same todos.                                  *)
LEMMA SameDomain ==
    /\ Promise!Dues = Dues
    /\ Promise!ReminderVersions = ReminderVersions
    /\ Promise!NoTodo = NoTodo
    /\ \A due : Promise!New(due) = New(due)
    /\ \A t : /\ Promise!Complete(t) = Complete(t)
             /\ Promise!Delete(t) = Delete(t)
    /\ \A t, due : Promise!ChangeDue(t, due) = ChangeDue(t, due)
BY DEF Dues, ReminderVersions, NoTodo, New, Complete, Delete, ChangeDue, Promise!Dues,
       Promise!ReminderVersions, Promise!NoTodo, Promise!New, Promise!Complete,
       Promise!Delete, Promise!ChangeDue

(* A commit is the step of its command.                                    *)
LEMMA CommitIsCommand ==
    ASSUME LoopInv, Commit
    PROVE  Promise!Next
<1>1. /\ todo \in Todos /\ tx \in Transactions /\ TxCoherent
      /\ todo' = tx.todo
      /\ tx.op \in {"create", "update", "complete", "delete"}
  BY CommitIntent
<1>2. /\ plans \in [ReminderVersions -> {"none", "planned", "revoked"}]
      /\ plans' \in [ReminderVersions -> {"none", "planned", "revoked"}]
      /\ tx.todo.reminderVersion \in ReminderVersions
  <2>1. TypeOK'
    BY CommitKeepsLoopInv DEF LoopInv
  <2> QED
    BY <1>1, <2>1 DEF LoopInv, TypeOK, Transactions, Todos
<1>3. plans' = IF Plans(tx)
               THEN [Promise!Revoked EXCEPT ![tx.todo.reminderVersion] = "planned"]
               ELSE Promise!Revoked
  BY <1>2, CommittedPlans, SameDomain DEF Promise!Revoked
<1>4. ASSUME tx.op \in {"create", "update"} PROVE Promise!Reschedule(tx.todo)
  BY <1>1, <1>3, <1>4, CommittedRequests DEF Promise!Reschedule, Plans
<1>5. ASSUME tx.op \in {"complete", "delete"} PROVE Promise!Close(tx.todo)
  BY <1>1, <1>3, <1>5, CommittedRequests DEF Promise!Close, Plans
<1>6. CASE tx.op = "create"
  <2>1. PICK due \in Dues : tx.todo = New(due) /\ todo.status = "absent"
    BY <1>1, <1>6 DEF TxCoherent
  <2>2. Promise!CreateTodo(due)
    BY <1>4, <1>6, <2>1, SameDomain DEF Promise!CreateTodo, Promise!Reschedule
  <2> QED
    BY <2>2, SameDomain DEF Promise!Next
<1>7. CASE tx.op = "update"
  <2>1. PICK due \in Dues : CanChangeDue(todo, due) /\ tx.todo = ChangeDue(todo, due)
    BY <1>1, <1>7 DEF TxCoherent
  <2>2. Promise!UpdateTodo(due)
    BY <1>4, <1>7, <2>1, SameDomain
       DEF Promise!UpdateTodo, Promise!Reschedule, Promise!CanChangeDue, CanChangeDue
  <2> QED
    BY <2>2, SameDomain DEF Promise!Next
<1>8. CASE tx.op = "complete"
  <2>1. CanComplete(todo) /\ tx.todo = Complete(todo)
    BY <1>1, <1>8 DEF TxCoherent
  <2>2. Promise!CompleteTodo
    BY <1>5, <1>8, <2>1, SameDomain
       DEF Promise!CompleteTodo, Promise!Close, Promise!CanComplete, CanComplete
  <2> QED
    BY <2>2 DEF Promise!Next
<1>9. CASE tx.op = "delete"
  <2>1. CanDelete(todo) /\ tx.todo = Delete(todo)
    BY <1>1, <1>9 DEF TxCoherent
  <2>2. Promise!DeleteTodo
    BY <1>5, <1>9, <2>1, SameDomain
       DEF Promise!DeleteTodo, Promise!Close, Promise!CanDelete, CanDelete
  <2> QED
    BY <2>2 DEF Promise!Next
<1> QED
  BY <1>1, <1>6, <1>7, <1>8, <1>9

(***************************************************************************)
(* Every step but a commit leaves the todo, the plans and the set of rows  *)
(* as they are.                                                            *)
(***************************************************************************)
LEMMA OtherStepsStutter ==
    ASSUME LoopInv, [Next]_vars, ~Commit
    PROVE  UNCHANGED <<todo, plans, requested>>
<1>1. ASSUME UNCHANGED <<todo, plans>>,
             \A q \in Keys : rows'[q].state # "absent" <=> rows[q].state # "absent"
      PROVE  UNCHANGED <<todo, plans, requested>>
  <2>1. ASSUME NEW v \in ReminderVersions, NEW c \in Channels
        PROVE  rows'[<<v, c>>].state # "absent" <=> rows[<<v, c>>].state # "absent"
    <3>1. <<v, c>> \in Keys
      BY DEF Keys
    <3> QED
      BY <1>1, <3>1
  <2> QED
    BY <1>1, <2>1 DEF requested
<1>2. ASSUME UNCHANGED <<todo, plans, rows>> PROVE UNCHANGED <<todo, plans, requested>>
  BY <1>2, <1>1
<1>3. CASE Command
  BY <1>2, <1>3 DEF Command, CreateTodo, UpdateTodo, CompleteTodo, DeleteTodo, Begin
<1>4. CASE TxStep
  BY <1>2, <1>4 DEF TxStep, CancelJobs, ReadScheduled, EndRevoke, PlanReminder, Rollback,
                    SuppressRow
<1>5. ASSUME NEW k \in Keys,
             \/ Fetch(k) \/ ExecutionStep(k) \/ RescueJob(k)
             \/ StatementFails(k) \/ ExecutionDies(k)
      PROVE  UNCHANGED <<todo, plans, requested>>
  <2>1. ExecutionFrame(k)
    BY <1>5, ExecutionKeepsFrame
  <2>2. UNCHANGED <<todo, plans>>
    BY <1>5 DEF Fetch, ExecutionStep, Notify, RescueJob, StatementFails, ExecutionDies,
         ReadPlan, ReadTodo, LoadDelivery, SaveSending, ResolveChannel, NotifyAccepted,
         NotifyRefused, NotifyTransient, NotifyAnswerLost, LoadForSuppression,
         RecordOutcome, CompleteExecution, apiVars
  <2>3. exec[k].step \in {"mark", "record"} =>
           exec[k].delivery.state # "absent" /\ rows[k].state # "absent"
    BY DEF LoopInv, CopiesBacked, RowsMatchJobs
  <2>4. rows \in [Keys -> Deliveries]
    BY DEF LoopInv, TypeOK
  <2> QED
    BY <1>1, <2>1, <2>2, <2>3, <2>4 DEF ExecutionFrame
<1>6. CASE Receipt
  <2>1. UNCHANGED <<todo, plans>>
    BY <1>6 DEF Receipt, ReceiveReceipt, SaveReceipt, ReceiptFails, apiVars
  <2>2. \A r \in Receivers : receipts[r].step = "save" =>
           /\ receipts[r].key \in Keys
           /\ rows[receipts[r].key].state # "absent"
           /\ receipts[r].delivery.state # "absent"
    BY DEF LoopInv, CopiesBacked
  <2>3. rows \in [Keys -> Deliveries]
    BY DEF LoopInv, TypeOK
  <2>4. CASE rows' = rows
    BY <1>2, <2>1, <2>4
  <2>5. CASE \E r \in Receivers : SaveReceipt(r)
    BY <1>1, <2>1, <2>2, <2>3, <2>5 DEF SaveReceipt
  <2> QED
    BY <1>6, <2>4, <2>5 DEF Receipt, ReceiveReceipt, ReceiptFails
<1>7. CASE UNCHANGED vars
  BY <1>2, <1>7 DEF vars
<1> QED
  BY <1>3, <1>4, <1>5, <1>6, <1>7 DEF Next

(***************************************************************************)
(* The todo commands are atomic: ReminderLoop implements TodoPlans, with   *)
(* rollbacks, crashes, racing executions and receipts as stutters.         *)
(***************************************************************************)
THEOREM Atomicity == Spec => CommandsAtomic
<1>1. Init => Promise!Init
  <2> SUFFICES ASSUME Init PROVE Promise!Init
    OBVIOUS
  <2>1. requested = [v \in ReminderVersions |-> {}]
    <3>1. \A v \in ReminderVersions, c \in Channels : rows[<<v, c>>].state = "absent"
      BY DEF Init, Keys, NoRow
    <3> QED
      BY <3>1 DEF requested
  <2> QED
    BY <2>1, SameDomain DEF Init, Promise!Init
<1>2. LoopInv /\ [Next]_vars => [Promise!Next]_(Promise!vars)
  <2> SUFFICES ASSUME LoopInv, [Next]_vars
               PROVE  Promise!Next \/ UNCHANGED <<todo, plans, requested>>
    BY DEF Promise!vars
  <2> QED
    BY CommitIsCommand, OtherStepsStutter
<1> QED
  BY <1>1, <1>2, LoopInvariance, PTL DEF Spec, CommandsAtomic, Promise!Spec

-------------------------------------------------------------------------------
(***************************************************************************)
(* What the deliveries come to: what a suppressed, succeeded or receipted  *)
(* row says is true, a stale reminder reaches no provider, a recorded one  *)
(* is not sent again, and a completed job leaves a final row.  All of it   *)
(* rests on LoopInv and on what an execution, a transaction and a webhook  *)
(* call know of the rows they have read, which OutcomeInv collects.        *)
(***************************************************************************)

(* What a reason claims of the todo, the plan or the attempts.             *)
ReasonTrue(k, reason, attempts) ==
    CASE reason = "todo_completed" -> todo.status \in {"completed", "deleted"}
      [] reason = "todo_deleted"   -> todo.status = "deleted"
      [] reason = "version_stale"  -> todo.reminderVersion > VersionOf(k)
      [] reason = "plan_revoked"   -> plans[VersionOf(k)] = "revoked"
      [] reason = "channel_unavailable" -> attempts > 0
      [] OTHER -> FALSE

(* What a delivery of k says, s messages having been accepted.             *)
Says(k, d, s) ==
    /\ d.state = "suppressed" => ReasonTrue(k, d.reason, d.attempts)
    /\ d.state = "succeeded" => d.message /\ s > 0

Attempted(row) == row.attempts > 0 \/ IsFinal(row)

(* What the execution e of k knows of its row, s messages having been      *)
(* accepted and u of the acceptances lost.                                 *)
ExecutionFits(k, e, row, s, u) ==
    /\ e.step \in {"plan", "todo"} /\ Wanted(VersionOf(k)) => e.wanted
    /\ e.step \in {"load", "mark", "resolve", "notify"} => e.wanted
    /\ e.step \in {"mark", "resolve", "notify"} =>
          /\ e.delivery.state = "sending" /\ e.delivery.attempts > 0 /\ e.delivery.receipt = "none"
          /\ s <= u
    /\ e.step \in {"resolve", "notify"} => Attempted(row)
    /\ e.step = "suppress" /\ e.reason = "channel_unavailable" => Attempted(row)
    /\ e.step = "suppress" /\ e.reason # "channel_unavailable" => ReasonTrue(k, e.reason, row.attempts)
    /\ e.step = "record" =>
          IsFinal(e.delivery) /\ e.delivery.receipt = "none" /\ Says(k, e.delivery, s)
    /\ e.step = "done" => IsFinal(row)

(* The row of k agrees with its job and with the messages.                 *)
RowFits(k, e, row, job, s, u) ==
    /\ Says(k, row, s)
    /\ row.receipt # "none" => row.state = "succeeded"
    /\ s <= u + 1
    /\ IsFinal(row) \/ s <= u \/ (e.step = "record" /\ e.delivery.state = "succeeded")
    /\ job.state = "completed" => IsFinal(row)

(* A command revokes for its own reason, and what it should.               *)
TxFits ==
    /\ tx.op = "update" => tx.reason = "version_stale"
    /\ tx.op = "complete" => tx.reason = "todo_completed"
    /\ tx.op = "delete" => tx.reason = "todo_deleted"
    /\ tx.op \in {"create", "none"} => tx.read = {}
    /\ \A k \in tx.read : VersionOf(k) <= tx.upTo

(* The copy a webhook call will write back is of a send that was recorded. *)
ReceiptFits(call) ==
    call.step = "save" =>
        call.delivery.state = "succeeded" /\ Says(call.key, call.delivery, sent[call.key])

(* What every copy of a row still says of it, and every row of the system. *)
OutcomeInv ==
    /\ \A k \in Keys : ExecutionFits(k, exec[k], rows[k], sent[k], unrecorded[k])
    /\ \A k \in Keys : RowFits(k, exec[k], rows[k], jobs[k], sent[k], unrecorded[k])
    /\ TxFits
    /\ \A r \in Receivers : ReceiptFits(receipts[r])

-------------------------------------------------------------------------------
(* What was read of the todo and of the plans stays true, because only a   *)
(* commit changes them.                                                    *)

(* Only a commit changes the todo and its plans.                           *)
LEMMA TodoSteps ==
    ASSUME [Next]_vars
    PROVE  UNCHANGED <<todo, plans>> \/ Commit
<1>1. ASSUME Command PROVE UNCHANGED <<todo, plans>>
  BY <1>1 DEF Command, CreateTodo, UpdateTodo, CompleteTodo, DeleteTodo, Begin
<1>2. ASSUME TxStep PROVE UNCHANGED <<todo, plans>> \/ Commit
  BY <1>2 DEF TxStep, CancelJobs, ReadScheduled, EndRevoke, PlanReminder, Rollback, SuppressRow
<1>3. ASSUME NEW k \in Keys, Fetch(k) \/ RescueJob(k) \/ StatementFails(k) \/ ExecutionDies(k)
      PROVE  UNCHANGED <<todo, plans>>
  BY <1>3 DEF Fetch, RescueJob, StatementFails, ExecutionDies, apiVars
<1>4. ASSUME NEW k \in Keys, ExecutionStep(k) PROVE UNCHANGED <<todo, plans>>
  BY <1>4 DEF ExecutionStep, Notify, ReadPlan, ReadTodo, LoadDelivery, SaveSending, ResolveChannel,
         NotifyAccepted, NotifyRefused, NotifyTransient, NotifyAnswerLost, LoadForSuppression,
         RecordOutcome, CompleteExecution, apiVars
<1>5. ASSUME Receipt PROVE UNCHANGED <<todo, plans>>
  BY <1>5 DEF Receipt, ReceiveReceipt, SaveReceipt, ReceiptFails, apiVars
<1> QED BY <1>1, <1>2, <1>3, <1>4, <1>5 DEF Next, vars

(* Where each command takes the todo.                                      *)
LEMMA CommandMoves ==
    ASSUME LoopInv, Commit
    PROVE  /\ tx.op = "create" => todo.status = "absent"
           /\ tx.op = "update" => /\ todo'.status = todo.status
                                  /\ todo'.reminderVersion = todo.reminderVersion + 1
           /\ tx.op = "complete" => /\ todo.status = "pending" /\ todo'.status = "completed"
                                    /\ todo'.reminderVersion = todo.reminderVersion
           /\ tx.op = "delete" => /\ todo.status \in {"pending", "completed"} /\ todo'.status = "deleted"
                                  /\ todo'.reminderVersion = todo.reminderVersion
           /\ tx.op \in {"create", "update", "complete", "delete"}
<1>1. /\ todo \in Todos /\ TxCoherent /\ todo' = tx.todo
      /\ tx.op \in {"create", "update", "complete", "delete"}
  BY CommitIntent
<1>2. CASE tx.op = "create"
  BY <1>1, <1>2 DEF TxCoherent
<1>3. CASE tx.op = "update"
  <2>1. PICK due \in Dues : todo' = ChangeDue(todo, due)
    BY <1>1, <1>3 DEF TxCoherent
  <2> QED BY <1>1, <1>3, <2>1 DEF ChangeDue, Todos
<1>4. CASE tx.op = "complete"
  BY <1>1, <1>4 DEF TxCoherent, CanComplete, Complete, Todos
<1>5. CASE tx.op = "delete"
  BY <1>1, <1>5 DEF TxCoherent, CanDelete, Delete, Todos
<1> QED BY <1>1, <1>2, <1>3, <1>4, <1>5

(* What makes a reminder stale lasts, so that what an execution has read   *)
(* of it may be acted upon later.                                          *)
LEMMA ReadingsLast ==
    ASSUME LoopInv, [Next]_vars, NEW k \in Keys, plans[VersionOf(k)] # "none"
    PROVE  /\ \A reason, attempts : ReasonTrue(k, reason, attempts) => ReasonTrue(k, reason, attempts)'
           /\ Wanted(VersionOf(k))' => Wanted(VersionOf(k))
<1>1. CASE UNCHANGED <<todo, plans>>
  BY <1>1 DEF ReasonTrue, Wanted
<1>2. CASE Commit
  <2>1. VersionOf(k) \in ReminderVersions /\ todo.reminderVersion \in Int /\ VersionOf(k) \in Int
    BY DEF Keys, VersionOf, ReminderVersions, LoopInv, TypeOK, Todos
  <2>2. todo.status # "absent" /\ VersionOf(k) <= todo.reminderVersion
    BY <2>1 DEF LoopInv, FuturePlansUnwritten
  <2>3. todo.status \in {"completed", "deleted"} => todo'.status \in {"completed", "deleted"}
    BY <1>2, CommandMoves
  <2>4. todo.status = "deleted" => todo'.status = "deleted"
    BY <1>2, CommandMoves
  <2>5. todo'.reminderVersion \in Int /\ todo'.reminderVersion >= todo.reminderVersion
    BY <1>2, <2>1, <2>2, CommandMoves
  <2>6. plans[VersionOf(k)] = "revoked" => plans'[VersionOf(k)] = "revoked"
    BY <1>2, <2>1, PlannedIsFresh, CommittedPlans
  <2>7. todo'.status = "pending" => todo'.reminderVersion > VersionOf(k)
    BY <1>2, <2>1, <2>2, CommandMoves
  <2>8. ~Wanted(VersionOf(k))'
    BY <2>1, <2>7 DEF Wanted
  <2>9. todo.reminderVersion > VersionOf(k) => todo'.reminderVersion > VersionOf(k)
    BY <2>1, <2>5
  <2> QED BY <2>3, <2>4, <2>6, <2>8, <2>9, Zenon DEF ReasonTrue
<1> QED BY <1>1, <1>2, TodoSteps

-------------------------------------------------------------------------------
(* The Worker.                                                             *)

(* What an execution and its row are.                                      *)
LEMMA Readings ==
    ASSUME LoopInv, NEW k \in Keys
    PROVE  /\ exec[k] \in Executions /\ rows[k] \in Deliveries /\ exec[k].delivery \in Deliveries
           /\ jobs[k] \in Jobs /\ sent[k] \in Nat /\ unrecorded[k] \in Nat
           /\ exec \in [Keys -> Executions] /\ rows \in [Keys -> Deliveries] /\ jobs \in [Keys -> Jobs]
           /\ sent \in [Keys -> Nat] /\ unrecorded \in [Keys -> Nat]
           /\ exec[k].step # "idle" => rows[k].state # "absent" /\ plans[VersionOf(k)] # "none"
                                       /\ jobs[k].state = "running" /\ LoadOrCreate(k) = rows[k]
<1>1. /\ exec[k] \in Executions /\ rows[k] \in Deliveries /\ jobs[k] \in Jobs
      /\ sent[k] \in Nat /\ unrecorded[k] \in Nat
      /\ exec \in [Keys -> Executions] /\ rows \in [Keys -> Deliveries] /\ jobs \in [Keys -> Jobs]
      /\ sent \in [Keys -> Nat] /\ unrecorded \in [Keys -> Nat]
  BY DEF LoopInv, TypeOK
<1>2. exec[k].delivery \in Deliveries
  BY <1>1 DEF Executions
<1> QED BY <1>1, <1>2 DEF LoopInv, RowsMatchJobs, LoadOrCreate

(* A step of k's execution.                                                *)
LEMMA ExecutionKeeps ==
    ASSUME LoopInv, OutcomeInv, NEW k \in Keys, UNCHANGED <<todo, plans, tx, receipts>>,
           \A q \in Keys : q # k => /\ exec'[q] = exec[q] /\ rows'[q] = rows[q] /\ jobs'[q] = jobs[q]
                                  /\ sent'[q] = sent[q] /\ unrecorded'[q] = unrecorded[q],
           sent'[k] \in Nat, sent[k] <= sent'[k],
           ExecutionFits(k, exec'[k], rows'[k], sent'[k], unrecorded'[k]),
           RowFits(k, exec'[k], rows'[k], jobs'[k], sent'[k], unrecorded'[k])
    PROVE  OutcomeInv'
<1>1. ASSUME NEW q \in Keys, NEW e, NEW row, NEW job, NEW s, NEW u,
             ExecutionFits(q, e, row, s, u), RowFits(q, e, row, job, s, u)
      PROVE  ExecutionFits(q, e, row, s, u)' /\ RowFits(q, e, row, job, s, u)'
  BY <1>1 DEF ExecutionFits, RowFits, Says, ReasonTrue, Wanted
<1>2. ASSUME NEW q \in Keys
      PROVE  /\ ExecutionFits(q, exec'[q], rows'[q], sent'[q], unrecorded'[q])
             /\ RowFits(q, exec'[q], rows'[q], jobs'[q], sent'[q], unrecorded'[q])
  BY DEF OutcomeInv
<1>3. ASSUME NEW q \in Keys
      PROVE  /\ ExecutionFits(q, exec[q], rows[q], sent[q], unrecorded[q])'
             /\ RowFits(q, exec[q], rows[q], jobs[q], sent[q], unrecorded[q])'
  <2>1. PICK e, row, job, s, u : /\ e = exec'[q] /\ row = rows'[q] /\ job = jobs'[q] /\ s = sent'[q]
                                 /\ u = unrecorded'[q]
    OBVIOUS
  <2>2. ExecutionFits(q, e, row, s, u) /\ RowFits(q, e, row, job, s, u)
    BY <1>2, <2>1
  <2> QED BY <1>1, <2>1, <2>2
<1>4. TxFits'
  BY DEF OutcomeInv, TxFits
<1>5. ASSUME NEW r \in Receivers, receipts[r].step = "save"
      PROVE  receipts[r].delivery.state = "succeeded" /\ receipts[r].delivery.message
             /\ sent'[receipts[r].key] > 0
  <2>1. /\ receipts[r].delivery.state = "succeeded" /\ receipts[r].delivery.message
        /\ sent[receipts[r].key] > 0 /\ receipts[r].key \in Keys
    BY <1>5 DEF OutcomeInv, ReceiptFits, Says, LoopInv, CopiesBacked
  <2>2. sent[k] \in Nat
    BY Readings
  <2> QED BY <2>1, <2>2
<1>6. \A r \in Receivers : ReceiptFits(receipts[r])'
  BY <1>5 DEF ReceiptFits, Says
<1> QED BY <1>3, <1>4, <1>6 DEF OutcomeInv

(* Goto, and the end of an execution.                                      *)
LEMMA GotoIs ==
    ASSUME LoopInv, NEW k \in Keys, NEW step, NEW reason, NEW delivery, Goto(k, step, reason, delivery)
    PROVE  /\ \A q \in Keys : q # k => exec'[q] = exec[q]
           /\ exec'[k].step = step /\ exec'[k].reason = reason /\ exec'[k].delivery = delivery
           /\ exec'[k].wanted = exec[k].wanted
<1>1. exec \in [Keys -> Executions] /\ exec[k] \in Executions
  BY Readings
<1>2. PICK e : e = [exec[k] EXCEPT !.step = step, !.reason = reason, !.delivery = delivery]
  OBVIOUS
<1>3. e.step = step /\ e.reason = reason /\ e.delivery = delivery /\ e.wanted = exec[k].wanted
  BY <1>1, <1>2 DEF Executions
<1>4. exec' = [exec EXCEPT ![k] = e]
  BY <1>1, <1>2 DEF Goto
<1> QED BY <1>1, <1>3, <1>4

(* An execution that ends in an error leaves its job uncompleted.          *)
LEMMA EndIs ==
    ASSUME LoopInv, NEW k \in Keys, EndInError(k)
    PROVE  /\ \A q \in Keys : q # k => exec'[q] = exec[q] /\ jobs'[q] = jobs[q]
           /\ exec'[k].step = "idle" /\ jobs'[k].state # "completed"
<1>1. /\ exec \in [Keys -> Executions] /\ jobs \in [Keys -> Jobs] /\ jobs[k] \in Jobs
  BY Readings
<1>2. NoExecution.step = "idle"
  BY DEF NoExecution
<1>3. RetryJob(jobs[k]).state # "completed"
  BY <1>1 DEF RetryJob, Jobs
<1> QED BY <1>1, <1>2, <1>3 DEF EndInError

(* A step that moves k's execution and touches no row.                     *)
LEMMA GotoKeeps ==
    ASSUME LoopInv, OutcomeInv, NEW k \in Keys, NEW step, NEW reason, NEW delivery,
           exec[k].step # "idle", Goto(k, step, reason, delivery),
           UNCHANGED <<todo, plans, tx, receipts, rows, jobs, unrecorded>>,
           \A q \in Keys : q # k => sent'[q] = sent[q],
           sent'[k] \in Nat, sent[k] <= sent'[k],
           ASSUME NEW e, e.step = step, e.reason = reason, e.delivery = delivery,
                  e.wanted = exec[k].wanted
           PROVE  /\ ExecutionFits(k, e, rows[k], sent'[k], unrecorded[k])
                  /\ RowFits(k, e, rows[k], jobs[k], sent'[k], unrecorded[k])
    PROVE  OutcomeInv'
<1>1. PICK e : e = exec'[k]
  OBVIOUS
<1>2. e.step = step /\ e.reason = reason /\ e.delivery = delivery /\ e.wanted = exec[k].wanted
  BY <1>1, GotoIs
<1>3. /\ ExecutionFits(k, exec'[k], rows'[k], sent'[k], unrecorded'[k])
      /\ RowFits(k, exec'[k], rows'[k], jobs'[k], sent'[k], unrecorded'[k])
  BY <1>1, <1>2
<1>4. \A q \in Keys : q # k => /\ exec'[q] = exec[q] /\ rows'[q] = rows[q] /\ jobs'[q] = jobs[q]
                              /\ sent'[q] = sent[q] /\ unrecorded'[q] = unrecorded[q]
  BY GotoIs
<1> QED BY <1>3, <1>4, ExecutionKeeps

(* A step that reads and decides.                                          *)
LEMMA ReadingKeeps ==
    ASSUME LoopInv, OutcomeInv, NEW k \in Keys,
           ReadPlan(k) \/ ReadTodo(k) \/ LoadDelivery(k) \/ ResolveChannel(k) \/ LoadForSuppression(k)
    PROVE  OutcomeInv'
<1>0. /\ UNCHANGED <<todo, plans, tx, receipts, rows, jobs, sent, unrecorded>>
      /\ sent'[k] \in Nat /\ sent[k] <= sent'[k] /\ exec[k].step # "idle"
  <2>1. sent[k] \in Nat
    BY Readings
  <2> QED BY <2>1 DEF ReadPlan, ReadTodo, LoadDelivery, ResolveChannel, LoadForSuppression, apiVars, history
<1>1. /\ ExecutionFits(k, exec[k], rows[k], sent[k], unrecorded[k])
      /\ RowFits(k, exec[k], rows[k], jobs[k], sent[k], unrecorded[k])
      /\ jobs[k].state = "running" /\ plans[VersionOf(k)] # "none" /\ LoadOrCreate(k) = rows[k]
      /\ rows[k].state # "absent" /\ rows[k] \in Deliveries
      /\ sent[k] \in Nat /\ unrecorded[k] \in Nat
  BY <1>0, Readings DEF OutcomeInv
<1>2. ASSUME NEW step, NEW reason, NEW delivery, Goto(k, step, reason, delivery),
             ASSUME NEW e, e.step = step, e.reason = reason, e.delivery = delivery,
                    e.wanted = exec[k].wanted
             PROVE  /\ ExecutionFits(k, e, rows[k], sent[k], unrecorded[k])
                    /\ RowFits(k, e, rows[k], jobs[k], sent[k], unrecorded[k])
      PROVE  OutcomeInv'
  BY <1>0, <1>2, GotoKeeps
<1>3. CASE ReadPlan(k)
  <2>1. plans[VersionOf(k)] \in {"planned", "revoked"}
    BY <1>1 DEF LoopInv, TypeOK, Keys, VersionOf
  <2>2. CASE plans[VersionOf(k)] = "revoked"
    <3>1. Goto(k, "suppress", "plan_revoked", NoRow)
      BY <1>3, <2>2 DEF ReadPlan, PlanVerdict
    <3>2. ReasonTrue(k, "plan_revoked", rows[k].attempts)
      BY <2>2 DEF ReasonTrue
    <3>3. ASSUME NEW e, e.step = "suppress", e.reason = "plan_revoked", e.delivery = NoRow,
                 e.wanted = exec[k].wanted
          PROVE  /\ ExecutionFits(k, e, rows[k], sent[k], unrecorded[k])
                 /\ RowFits(k, e, rows[k], jobs[k], sent[k], unrecorded[k])
      BY <1>1, <1>3, <3>2, <3>3 DEF ExecutionFits, RowFits, ReadPlan
    <3> QED BY <1>2, <3>1, <3>3
  <2>3. CASE plans[VersionOf(k)] = "planned"
    <3>1. Goto(k, "todo", "none", NoRow)
      BY <1>3, <2>3 DEF ReadPlan, PlanVerdict
    <3>2. ASSUME NEW e, e.step = "todo", e.reason = "none", e.delivery = NoRow,
                 e.wanted = exec[k].wanted
          PROVE  /\ ExecutionFits(k, e, rows[k], sent[k], unrecorded[k])
                 /\ RowFits(k, e, rows[k], jobs[k], sent[k], unrecorded[k])
      BY <1>1, <1>3, <3>2 DEF ExecutionFits, RowFits, ReadPlan
    <3> QED BY <1>2, <3>1, <3>2
  <2> QED BY <2>1, <2>2, <2>3
<1>4. CASE ReadTodo(k)
  <2>1. /\ todo.status \in {"pending", "completed", "deleted"} /\ VersionOf(k) <= todo.reminderVersion
        /\ VersionOf(k) \in Int /\ todo.reminderVersion \in Int
    <3>1. VersionOf(k) \in ReminderVersions /\ todo \in Todos
      BY DEF Keys, VersionOf, LoopInv, TypeOK
    <3> QED BY <1>1, <3>1 DEF LoopInv, FuturePlansUnwritten, Todos, Statuses, ReminderVersions
  <2>2. CASE TodoVerdict(VersionOf(k)) = "none"
    <3>1. Goto(k, "load", "none", NoRow) /\ Wanted(VersionOf(k))
      BY <1>4, <2>1, <2>2 DEF ReadTodo, TodoVerdict, Wanted
    <3>2. exec[k].wanted
      BY <1>1, <1>4, <3>1 DEF ExecutionFits, ReadTodo
    <3>3. ASSUME NEW e, e.step = "load", e.reason = "none", e.delivery = NoRow,
                 e.wanted = exec[k].wanted
          PROVE  /\ ExecutionFits(k, e, rows[k], sent[k], unrecorded[k])
                 /\ RowFits(k, e, rows[k], jobs[k], sent[k], unrecorded[k])
      BY <1>1, <1>4, <3>2, <3>3 DEF ExecutionFits, RowFits, ReadTodo
    <3> QED BY <1>2, <3>1, <3>3
  <2>3. ASSUME NEW reason, reason = TodoVerdict(VersionOf(k)), reason # "none"
        PROVE  OutcomeInv'
    <3>1. Goto(k, "suppress", reason, NoRow)
      BY <1>4, <2>3 DEF ReadTodo
    <3>2. reason # "channel_unavailable" /\ ReasonTrue(k, reason, rows[k].attempts)
      BY <2>1, <2>3 DEF TodoVerdict, ReasonTrue
    <3>3. ASSUME NEW e, e.step = "suppress", e.reason = reason, e.delivery = NoRow,
                 e.wanted = exec[k].wanted
          PROVE  /\ ExecutionFits(k, e, rows[k], sent[k], unrecorded[k])
                 /\ RowFits(k, e, rows[k], jobs[k], sent[k], unrecorded[k])
      BY <1>1, <1>4, <3>2, <3>3 DEF ExecutionFits, RowFits, ReadTodo
    <3> QED BY <1>2, <3>1, <3>3
  <2> QED BY <2>2, <2>3
<1>5. ASSUME IsFinal(rows[k]), Goto(k, "done", "none", NoRow) PROVE OutcomeInv'
  <2>1. ASSUME NEW e, e.step = "done"
        PROVE  /\ ExecutionFits(k, e, rows[k], sent[k], unrecorded[k])
               /\ RowFits(k, e, rows[k], jobs[k], sent[k], unrecorded[k])
    BY <1>1, <1>5, <2>1 DEF ExecutionFits, RowFits
  <2> QED BY <1>2, <1>5, <2>1
<1>6. CASE LoadDelivery(k)
  <2>1. CASE ~IsFinal(rows[k])
    <3>1. PICK d : d = MarkSending(rows[k])
      OBVIOUS
    <3>2. d.state = "sending" /\ d.attempts > 0 /\ d.receipt = "none"
      <4>1. rows[k].receipt = "none" /\ rows[k].attempts \in Nat
        BY <1>1, <2>1 DEF RowFits, IsFinal, FinalStates, Deliveries
      <4> QED BY <1>1, <3>1, <4>1 DEF MarkSending, Deliveries
    <3>3. Goto(k, "mark", "none", d)
      BY <1>1, <1>6, <2>1, <3>1 DEF LoadDelivery
    <3>4. exec[k].wanted /\ sent[k] <= unrecorded[k]
      BY <1>1, <1>6, <2>1 DEF ExecutionFits, RowFits, LoadDelivery
    <3>5. ASSUME NEW e, e.step = "mark", e.reason = "none", e.delivery = d, e.wanted = exec[k].wanted
          PROVE  /\ ExecutionFits(k, e, rows[k], sent[k], unrecorded[k])
                 /\ RowFits(k, e, rows[k], jobs[k], sent[k], unrecorded[k])
      BY <1>1, <3>2, <3>4, <3>5 DEF ExecutionFits, RowFits
    <3> QED BY <1>2, <3>3, <3>5
  <2>2. CASE IsFinal(rows[k])
    BY <1>1, <1>5, <1>6, <2>2 DEF LoadDelivery
  <2> QED BY <2>1, <2>2
<1>7. CASE ResolveChannel(k)
  <2>1. CASE Goto(k, "notify", "none", exec[k].delivery)
    <3>1. ASSUME NEW e, e.step = "notify", e.reason = "none", e.delivery = exec[k].delivery,
                 e.wanted = exec[k].wanted
          PROVE  /\ ExecutionFits(k, e, rows[k], sent[k], unrecorded[k])
                 /\ RowFits(k, e, rows[k], jobs[k], sent[k], unrecorded[k])
      BY <1>1, <1>7, <3>1 DEF ExecutionFits, RowFits, ResolveChannel
    <3> QED BY <1>2, <2>1, <3>1
  <2>2. CASE Goto(k, "suppress", "channel_unavailable", NoRow)
    <3>1. ASSUME NEW e, e.step = "suppress", e.reason = "channel_unavailable", e.delivery = NoRow,
                 e.wanted = exec[k].wanted
          PROVE  /\ ExecutionFits(k, e, rows[k], sent[k], unrecorded[k])
                 /\ RowFits(k, e, rows[k], jobs[k], sent[k], unrecorded[k])
      BY <1>1, <1>7, <3>1 DEF ExecutionFits, RowFits, ResolveChannel
    <3> QED BY <1>2, <2>2, <3>1
  <2> QED BY <1>7, <2>1, <2>2 DEF ResolveChannel
<1>8. CASE LoadForSuppression(k)
  <2>1. CASE ~IsFinal(rows[k])
    <3>1. PICK d : d = MarkSuppressed(rows[k], exec[k].reason)
      OBVIOUS
    <3>2. /\ d.state = "suppressed" /\ d.reason = exec[k].reason /\ d.attempts = rows[k].attempts
          /\ d.receipt = "none"
      <4>1. rows[k].receipt = "none"
        BY <1>1, <2>1 DEF RowFits, IsFinal, FinalStates, Deliveries
      <4> QED BY <1>1, <3>1, <4>1 DEF MarkSuppressed, Deliveries
    <3>3. Goto(k, "record", "none", d)
      BY <1>1, <1>8, <2>1, <3>1 DEF LoadForSuppression
    <3>4. ReasonTrue(k, exec[k].reason, rows[k].attempts)
      <4>1. CASE exec[k].reason = "channel_unavailable"
        BY <1>1, <1>8, <2>1, <4>1 DEF ExecutionFits, LoadForSuppression, Attempted, ReasonTrue
      <4>2. CASE exec[k].reason # "channel_unavailable"
        BY <1>1, <1>8, <4>2 DEF ExecutionFits, LoadForSuppression
      <4> QED BY <4>1, <4>2
    <3>5. IsFinal(d) /\ Says(k, d, sent[k]) /\ sent[k] <= unrecorded[k]
      BY <1>1, <1>8, <2>1, <3>2, <3>4 DEF IsFinal, FinalStates, Says, RowFits, LoadForSuppression
    <3>6. ASSUME NEW e, e.step = "record", e.reason = "none", e.delivery = d, e.wanted = exec[k].wanted
          PROVE  /\ ExecutionFits(k, e, rows[k], sent[k], unrecorded[k])
                 /\ RowFits(k, e, rows[k], jobs[k], sent[k], unrecorded[k])
      BY <1>1, <3>2, <3>5, <3>6 DEF ExecutionFits, RowFits
    <3> QED BY <1>2, <3>3, <3>6
  <2>2. CASE IsFinal(rows[k])
    BY <1>1, <1>5, <1>8, <2>2 DEF LoadForSuppression
  <2> QED BY <2>1, <2>2
<1> QED BY <1>3, <1>4, <1>6, <1>7, <1>8

(* The execution begins, or is done.                                       *)
LEMMA EndsKeep ==
    ASSUME LoopInv, OutcomeInv, NEW k \in Keys, Fetch(k) \/ CompleteExecution(k)
    PROVE  OutcomeInv'
<1>1. /\ ExecutionFits(k, exec[k], rows[k], sent[k], unrecorded[k])
      /\ RowFits(k, exec[k], rows[k], jobs[k], sent[k], unrecorded[k])
      /\ sent[k] \in Nat /\ jobs[k] \in Jobs
      /\ exec \in [Keys -> Executions] /\ jobs \in [Keys -> Jobs]
  BY Readings DEF OutcomeInv
<1>2. /\ UNCHANGED <<todo, plans, tx, receipts, rows, sent, unrecorded>>
      /\ sent'[k] \in Nat /\ sent[k] <= sent'[k]
  BY <1>1 DEF Fetch, CompleteExecution, apiVars, history
<1>3. \A q \in Keys : q # k => /\ exec'[q] = exec[q] /\ rows'[q] = rows[q] /\ jobs'[q] = jobs[q]
                              /\ sent'[q] = sent[q] /\ unrecorded'[q] = unrecorded[q]
  BY <1>1, <1>2 DEF Fetch, CompleteExecution
<1>4. ASSUME NEW e, NEW job, e = exec'[k], job = jobs'[k],
             ExecutionFits(k, e, rows[k], sent[k], unrecorded[k]),
             RowFits(k, e, rows[k], job, sent[k], unrecorded[k])
      PROVE  OutcomeInv'
  BY <1>2, <1>3, <1>4, ExecutionKeeps
<1>5. CASE Fetch(k)
  <2>1. PICK e, job : e = exec'[k] /\ job = jobs'[k]
    OBVIOUS
  <2>2. e.step = "plan" /\ e.wanted = Wanted(VersionOf(k)) /\ job.state = "running"
    <3>1. e = [NoExecution EXCEPT !.step = "plan", !.wanted = Wanted(VersionOf(k))]
      BY <1>1, <1>5, <2>1 DEF Fetch
    <3>2. job = FetchJob(jobs[k])
      BY <1>1, <1>5, <2>1 DEF Fetch
    <3>3. e.step = "plan" /\ e.wanted = Wanted(VersionOf(k))
      BY <3>1 DEF NoExecution
    <3> QED BY <1>1, <3>2, <3>3 DEF FetchJob, Jobs
  <2>3. exec[k].step = "idle"
    BY <1>5 DEF Fetch
  <2> QED BY <1>1, <1>4, <2>1, <2>2, <2>3 DEF ExecutionFits, RowFits
<1>6. CASE CompleteExecution(k)
  <2>1. PICK e, job : e = exec'[k] /\ job = jobs'[k]
    OBVIOUS
  <2>2. e.step = "idle"
    BY <1>1, <1>6, <2>1 DEF CompleteExecution, NoExecution
  <2>3. IsFinal(rows[k])
    BY <1>1, <1>6 DEF ExecutionFits, CompleteExecution
  <2> QED BY <1>1, <1>4, <2>1, <2>2, <2>3 DEF ExecutionFits, RowFits
<1> QED BY <1>5, <1>6

(* A step that writes the row.                                             *)
LEMMA SavingKeeps ==
    ASSUME LoopInv, OutcomeInv, NEW k \in Keys, SaveSending(k) \/ RecordOutcome(k)
    PROVE  OutcomeInv'
<1>1. /\ ExecutionFits(k, exec[k], rows[k], sent[k], unrecorded[k])
      /\ RowFits(k, exec[k], rows[k], jobs[k], sent[k], unrecorded[k])
      /\ sent[k] \in Nat /\ unrecorded[k] \in Nat /\ exec[k] \in Executions
      /\ exec \in [Keys -> Executions] /\ rows \in [Keys -> Deliveries]
  BY Readings DEF OutcomeInv
<1>2. jobs[k].state = "running"
  BY Readings DEF SaveSending, RecordOutcome
<1>3. /\ UNCHANGED <<todo, plans, tx, receipts, jobs, sent, unrecorded>>
      /\ sent'[k] \in Nat /\ sent[k] <= sent'[k]
      /\ rows' = [rows EXCEPT ![k] = exec[k].delivery]
  BY <1>1 DEF SaveSending, RecordOutcome, apiVars, history
<1>4. \A q \in Keys : q # k => exec'[q] = exec[q]
  BY <1>1, GotoIs DEF SaveSending, RecordOutcome
<1>5. \A q \in Keys : q # k => /\ exec'[q] = exec[q] /\ rows'[q] = rows[q] /\ jobs'[q] = jobs[q]
                              /\ sent'[q] = sent[q] /\ unrecorded'[q] = unrecorded[q]
  BY <1>1, <1>3, <1>4
<1>6. ASSUME NEW e, NEW row, e = exec'[k], row = exec[k].delivery,
             ExecutionFits(k, e, row, sent[k], unrecorded[k]),
             RowFits(k, e, row, jobs[k], sent[k], unrecorded[k])
      PROVE  OutcomeInv'
  <2>1. rows'[k] = row
    BY <1>1, <1>3, <1>6
  <2> QED BY <1>3, <1>5, <1>6, <2>1, ExecutionKeeps
<1>7. CASE SaveSending(k)
  <2>1. PICK e, row : e = exec'[k] /\ row = exec[k].delivery
    OBVIOUS
  <2>2. e.step = "resolve" /\ e.delivery = row /\ e.wanted = exec[k].wanted
    BY <1>1, <1>7, <2>1 DEF SaveSending, Executions
  <2>3. /\ row.state = "sending" /\ row.attempts > 0 /\ row.receipt = "none"
        /\ sent[k] <= unrecorded[k] /\ e.wanted
    BY <1>1, <1>7, <2>1, <2>2 DEF ExecutionFits, SaveSending
  <2>4. Attempted(row) /\ Says(k, row, sent[k])
    BY <2>3 DEF Attempted, Says
  <2> QED BY <1>1, <1>2, <1>6, <2>1, <2>2, <2>3, <2>4 DEF ExecutionFits, RowFits
<1>8. CASE RecordOutcome(k)
  <2>1. PICK e, row : e = exec'[k] /\ row = exec[k].delivery
    OBVIOUS
  <2>2. e.step = "done"
    BY <1>8, <2>1, GotoIs DEF RecordOutcome
  <2>3. IsFinal(row) /\ row.receipt = "none" /\ Says(k, row, sent[k])
    BY <1>1, <1>8, <2>1 DEF ExecutionFits, RecordOutcome
  <2>4. sent[k] <= unrecorded[k] + 1
    BY <1>1 DEF RowFits
  <2> QED BY <1>6, <2>1, <2>2, <2>3, <2>4 DEF ExecutionFits, RowFits
<1> QED BY <1>7, <1>8

(* The execution ends in an error, or its process dies; a send it holds is *)
(* lost.                                                                   *)
LEMMA AbortKeeps ==
    ASSUME LoopInv, OutcomeInv, NEW k \in Keys, UNCHANGED <<todo, plans, tx, receipts, rows, sent>>,
           exec[k].step # "idle",
           \A q \in Keys : q # k => exec'[q] = exec[q] /\ jobs'[q] = jobs[q],
           exec'[k].step \in {"idle", "dead"}, jobs'[k].state # "completed", ForgetSend(k)
    PROVE  OutcomeInv'
<1>1. /\ ExecutionFits(k, exec[k], rows[k], sent[k], unrecorded[k])
      /\ RowFits(k, exec[k], rows[k], jobs[k], sent[k], unrecorded[k])
      /\ sent[k] \in Nat /\ unrecorded[k] \in Nat /\ unrecorded \in [Keys -> Nat]
  BY Readings DEF OutcomeInv
<1>2. \A q \in Keys : q # k => unrecorded'[q] = unrecorded[q]
  BY <1>1 DEF ForgetSend
<1>3. PICK e, job, u : e = exec'[k] /\ job = jobs'[k] /\ u = unrecorded'[k]
  OBVIOUS
<1>4. u \in Nat /\ unrecorded[k] <= u /\ (IsFinal(rows[k]) \/ sent[k] <= u)
  <2>1. CASE HoldsUnrecordedSend(k)
    <3>1. u = unrecorded[k] + 1
      BY <1>1, <1>3, <2>1 DEF ForgetSend
    <3> QED BY <1>1, <3>1 DEF RowFits
  <2>2. CASE ~HoldsUnrecordedSend(k)
    <3>1. u = unrecorded[k]
      BY <1>1, <1>3, <2>2 DEF ForgetSend
    <3> QED BY <1>1, <2>2, <3>1 DEF RowFits, HoldsUnrecordedSend
  <2> QED BY <2>1, <2>2
<1>5. ExecutionFits(k, e, rows[k], sent[k], u) /\ RowFits(k, e, rows[k], job, sent[k], u)
  BY <1>1, <1>3, <1>4 DEF ExecutionFits, RowFits
<1>6. \A q \in Keys : q # k => /\ exec'[q] = exec[q] /\ rows'[q] = rows[q] /\ jobs'[q] = jobs[q]
                              /\ sent'[q] = sent[q] /\ unrecorded'[q] = unrecorded[q]
  BY <1>2
<1>7. sent'[k] \in Nat /\ sent[k] <= sent'[k] /\ rows'[k] = rows[k] /\ sent'[k] = sent[k]
  BY <1>1
<1> QED BY <1>3, <1>5, <1>6, <1>7, ExecutionKeeps

(* The provider's answers.                                                 *)
LEMMA NotifyKeeps ==
    ASSUME LoopInv, OutcomeInv, NEW k \in Keys, Notify(k)
    PROVE  OutcomeInv'
<1>1. /\ ExecutionFits(k, exec[k], rows[k], sent[k], unrecorded[k])
      /\ RowFits(k, exec[k], rows[k], jobs[k], sent[k], unrecorded[k])
      /\ sent[k] \in Nat /\ unrecorded[k] \in Nat /\ exec[k] \in Executions
      /\ sent \in [Keys -> Nat] /\ unrecorded \in [Keys -> Nat] /\ exec[k].delivery \in Deliveries
  BY Readings DEF OutcomeInv
<1>2. /\ exec[k].step = "notify" /\ jobs[k].state = "running"
      /\ UNCHANGED <<todo, plans, tx, receipts, rows>>
  BY Readings DEF Notify, NotifyAccepted, NotifyRefused, NotifyTransient, NotifyAnswerLost, apiVars
<1>3. exec[k].delivery.receipt = "none" /\ exec[k].delivery.state = "sending" /\ sent[k] <= unrecorded[k]
  BY <1>1, <1>2 DEF ExecutionFits
<1>4. PICK s, u : s = sent'[k] /\ u = unrecorded'[k]
  OBVIOUS
<1>5. ASSUME NEW d, Goto(k, "record", "none", d), UNCHANGED jobs,
             IsFinal(d), d.receipt = "none", Says(k, d, s), s \in Nat, sent[k] <= s,
             d.state = "succeeded" \/ s <= u, s <= u + 1,
             \A q \in Keys : q # k => sent'[q] = sent[q] /\ unrecorded'[q] = unrecorded[q]
      PROVE  OutcomeInv'
  <2>1. PICK e : e = exec'[k]
    OBVIOUS
  <2>2. e.step = "record" /\ e.delivery = d
    BY <1>5, <2>1, GotoIs
  <2>3. Says(k, rows[k], s)
    BY <1>1, <1>5 DEF RowFits, Says
  <2>4. ExecutionFits(k, e, rows[k], s, u) /\ RowFits(k, e, rows[k], jobs[k], s, u)
    BY <1>1, <1>2, <1>5, <2>2, <2>3 DEF ExecutionFits, RowFits
  <2>5. \A q \in Keys : q # k => /\ exec'[q] = exec[q] /\ rows'[q] = rows[q] /\ jobs'[q] = jobs[q]
                                /\ sent'[q] = sent[q] /\ unrecorded'[q] = unrecorded[q]
    BY <1>2, <1>5, GotoIs
  <2> QED BY <1>2, <1>4, <1>5, <2>1, <2>4, <2>5, ExecutionKeeps
<1>6. ASSUME s \in Nat, sent[k] <= s, s <= u, EndInError(k),
             \A q \in Keys : q # k => sent'[q] = sent[q] /\ unrecorded'[q] = unrecorded[q]
      PROVE  OutcomeInv'
  <2>1. PICK e, job : e = exec'[k] /\ job = jobs'[k]
    OBVIOUS
  <2>2. e.step = "idle" /\ job.state # "completed"
    BY <1>6, <2>1, EndIs
  <2>3. Says(k, rows[k], s) /\ s <= u + 1
    <3>1. u \in Nat
      BY <1>1, <1>4 DEF Notify, NotifyAccepted, NotifyRefused, NotifyTransient, NotifyAnswerLost, history
    <3> QED BY <1>1, <1>6, <3>1 DEF RowFits, Says
  <2>4. ExecutionFits(k, e, rows[k], s, u) /\ RowFits(k, e, rows[k], job, s, u)
    BY <1>1, <1>6, <2>2, <2>3 DEF ExecutionFits, RowFits
  <2>5. \A q \in Keys : q # k => /\ exec'[q] = exec[q] /\ rows'[q] = rows[q] /\ jobs'[q] = jobs[q]
                                /\ sent'[q] = sent[q] /\ unrecorded'[q] = unrecorded[q]
    BY <1>2, <1>6, EndIs
  <2> QED BY <1>2, <1>4, <1>6, <2>1, <2>4, <2>5, ExecutionKeeps
<1>7. PICK d : d = MarkFailed(exec[k].delivery)
  OBVIOUS
<1>8. d.state = "failed" /\ d.receipt = "none" /\ IsFinal(d) /\ \A n : Says(k, d, n)
  BY <1>1, <1>3, <1>7 DEF MarkFailed, Deliveries, IsFinal, FinalStates, Says
<1>9. CASE NotifyAccepted(k)
  <2>1. /\ s = sent[k] + 1 /\ u = unrecorded[k]
        /\ \A q \in Keys : q # k => sent'[q] = sent[q] /\ unrecorded'[q] = unrecorded[q]
    BY <1>1, <1>4, <1>9 DEF NotifyAccepted
  <2>2. PICK a : a = MarkSucceeded(exec[k].delivery)
    OBVIOUS
  <2>3. a.state = "succeeded" /\ a.message /\ a.receipt = "none"
    BY <1>1, <1>3, <2>2 DEF MarkSucceeded, Deliveries
  <2>4. IsFinal(a) /\ Says(k, a, s)
    BY <1>1, <2>1, <2>3 DEF IsFinal, FinalStates, Says
  <2>5. Goto(k, "record", "none", a) /\ UNCHANGED jobs
    BY <1>9, <2>2 DEF NotifyAccepted
  <2>6. s \in Nat /\ sent[k] <= s /\ s <= u + 1
    BY <1>1, <1>3, <2>1
  <2> QED BY <1>5, <2>1, <2>3, <2>4, <2>5, <2>6
<1>10. CASE NotifyRefused(k)
  <2>1. /\ s = sent[k] /\ u = unrecorded[k]
        /\ \A q \in Keys : q # k => sent'[q] = sent[q] /\ unrecorded'[q] = unrecorded[q]
    BY <1>4, <1>10 DEF NotifyRefused, history
  <2>2. Goto(k, "record", "none", d) /\ UNCHANGED jobs
    BY <1>7, <1>10 DEF NotifyRefused
  <2>3. s \in Nat /\ sent[k] <= s /\ s <= u /\ s <= u + 1
    BY <1>1, <1>3, <2>1
  <2> QED BY <1>5, <1>8, <2>1, <2>2, <2>3
<1>11. ASSUME TransientFailure(k), s \in Nat, sent[k] <= s, s <= u, s <= u + 1,
              \A q \in Keys : q # k => sent'[q] = sent[q] /\ unrecorded'[q] = unrecorded[q]
       PROVE  OutcomeInv'
  BY <1>5, <1>6, <1>7, <1>8, <1>11 DEF TransientFailure
<1>12. CASE NotifyTransient(k)
  <2>1. s = sent[k] /\ u = unrecorded[k] /\ TransientFailure(k)
        /\ \A q \in Keys : q # k => sent'[q] = sent[q] /\ unrecorded'[q] = unrecorded[q]
    BY <1>4, <1>12 DEF NotifyTransient, history
  <2>2. s \in Nat /\ sent[k] <= s /\ s <= u /\ s <= u + 1
    BY <1>1, <1>3, <2>1
  <2> QED BY <1>11, <2>1, <2>2
<1>13. CASE NotifyAnswerLost(k)
  <2>1. s = sent[k] + 1 /\ u = unrecorded[k] + 1 /\ TransientFailure(k)
        /\ \A q \in Keys : q # k => sent'[q] = sent[q] /\ unrecorded'[q] = unrecorded[q]
    BY <1>1, <1>4, <1>13 DEF NotifyAnswerLost
  <2>2. s \in Nat /\ sent[k] <= s /\ s <= u /\ s <= u + 1
    BY <1>1, <1>3, <2>1
  <2> QED BY <1>11, <2>1, <2>2
<1> QED BY <1>9, <1>10, <1>12, <1>13 DEF Notify

(* No step of the Worker, of River or of the provider breaks OutcomeInv.   *)
LEMMA WorkerKeepsOutcome ==
    ASSUME LoopInv, OutcomeInv, NEW k \in Keys,
           \/ Fetch(k) \/ ExecutionStep(k) \/ RescueJob(k)
           \/ StatementFails(k) \/ ExecutionDies(k)
    PROVE  OutcomeInv'
<1>1. CASE StatementFails(k)
  <2>1. EndInError(k) /\ ForgetSend(k) /\ exec[k].step # "idle"
        /\ UNCHANGED <<todo, plans, tx, receipts, rows, sent>>
    BY <1>1 DEF StatementFails, apiVars
  <2> QED BY <2>1, EndIs, AbortKeeps
<1>2. CASE ExecutionDies(k)
  <2>1. /\ UNCHANGED <<todo, plans, tx, receipts, rows, sent, jobs>> /\ ForgetSend(k)
        /\ exec[k].step # "idle" /\ exec' = [exec EXCEPT ![k] = [NoExecution EXCEPT !.step = "dead"]]
    BY <1>2 DEF ExecutionDies, apiVars
  <2>2. exec'[k].step = "dead" /\ \A q \in Keys : q # k => exec'[q] = exec[q]
    BY <2>1, Readings DEF NoExecution
  <2>3. jobs'[k].state # "completed"
    BY <2>1, Readings
  <2> QED BY <2>1, <2>2, <2>3, AbortKeeps
<1>3. CASE RescueJob(k)
  <2>1. EndInError(k) /\ exec[k].step = "dead"
        /\ UNCHANGED <<todo, plans, tx, receipts, rows, sent, unrecorded>>
    BY <1>3 DEF RescueJob, apiVars, history
  <2>2. ForgetSend(k)
    BY <2>1 DEF ForgetSend, HoldsUnrecordedSend
  <2> QED BY <2>1, <2>2, EndIs, AbortKeeps
<1> QED BY <1>1, <1>2, <1>3, ReadingKeeps, EndsKeep, SavingKeeps, NotifyKeeps DEF ExecutionStep

-------------------------------------------------------------------------------
(* The API and the webhook: rows stay, are overwritten by final ones that  *)
(* say what is true, or are new.                                           *)

(* A row that a webhook call or a commit writes over keeps telling the     *)
(* truth,                                                                  *)
Overwritten(k) ==
    /\ IsFinal(rows'[k]) /\ Says(k, rows[k], sent[k])'
    /\ rows'[k].receipt # "none" => rows'[k].state = "succeeded"
    /\ jobs'[k].state = "completed" => jobs[k].state = "completed"

(* or it is a new one.                                                     *)
Fresh(k) ==
    /\ rows[k].state = "absent" /\ rows'[k].state = "scheduled" /\ rows'[k].receipt = "none"
    /\ jobs'[k].state # "completed"

(* Executions and rows fit while only rows and jobs change, each in one of *)
(* these ways.                                                             *)
LEMMA RowsKeep ==
    ASSUME LoopInv, OutcomeInv, [Next]_vars, UNCHANGED <<exec, sent, unrecorded>>, NEW k \in Keys,
           \/ /\ rows'[k] = rows[k]
              /\ jobs'[k].state = "completed" => jobs[k].state = "completed"
           \/ Overwritten(k)
           \/ Fresh(k)
    PROVE  /\ ExecutionFits(k, exec[k], rows[k], sent[k], unrecorded[k])'
           /\ RowFits(k, exec[k], rows[k], jobs[k], sent[k], unrecorded[k])'
<1>1. PICK e, row, job, s, u : e = exec[k] /\ row = rows[k] /\ job = jobs[k] /\ s = sent[k] /\ u = unrecorded[k]
  OBVIOUS
<1>2. PICK new, job2 : new = rows'[k] /\ job2 = jobs'[k]
  OBVIOUS
<1>3. /\ ExecutionFits(k, e, row, s, u) /\ RowFits(k, e, row, job, s, u)
      /\ e = exec'[k] /\ s = sent'[k] /\ u = unrecorded'[k]
      /\ e.step # "idle" => row.state # "absent" /\ plans[VersionOf(k)] # "none"
      /\ row.state # "absent" => plans[VersionOf(k)] # "none"
      /\ s \in Nat /\ u \in Nat
  BY <1>1, Readings DEF OutcomeInv, LoopInv, RowsMatchJobs
<1>4. ASSUME row.state # "absent"
      PROVE  /\ \A reason, attempts : ReasonTrue(k, reason, attempts) => ReasonTrue(k, reason, attempts)'
             /\ Wanted(VersionOf(k))' => Wanted(VersionOf(k))
  BY <1>3, <1>4, ReadingsLast
<1>5. ASSUME NEW d, row.state # "absent", Says(k, d, s) PROVE Says(k, d, s)'
  BY <1>4, <1>5 DEF Says
<1>6. CASE new = row /\ (job2.state = "completed" => job.state = "completed")
  <2>1. CASE row.state = "absent"
    <3>1. ExecutionFits(k, e, row, s, u)'
      BY <1>3, <2>1 DEF ExecutionFits
    <3>2. RowFits(k, e, row, job2, s, u)'
      BY <1>3, <1>6, <2>1 DEF RowFits, Says, IsFinal, FinalStates
    <3> QED BY <1>1, <1>2, <1>3, <1>6, <3>1, <3>2
  <2>2. CASE row.state # "absent"
    <3>1. ExecutionFits(k, e, row, s, u)'
      BY <1>3, <1>4, <1>5, <2>2 DEF ExecutionFits
    <3>2. RowFits(k, e, row, job2, s, u)'
      BY <1>3, <1>5, <1>6, <2>2 DEF RowFits
    <3> QED BY <1>1, <1>2, <1>3, <1>6, <3>1, <3>2
  <2> QED BY <2>1, <2>2
<1>7. CASE Overwritten(k)
  <2>1. /\ IsFinal(new) /\ Says(k, new, s)'
        /\ new.receipt # "none" => new.state = "succeeded"
    <3>1. Says(k, new, s)'
      BY <1>1, <1>2, <1>3, <1>7 DEF Overwritten
    <3> QED BY <1>2, <1>7, <3>1 DEF Overwritten
  <2>2. ExecutionFits(k, e, new, s, u)'
    <3>1. CASE e.step = "idle"
      BY <3>1 DEF ExecutionFits
    <3>2. CASE e.step # "idle"
      <4>1. Attempted(new)
        BY <2>1 DEF Attempted
      <4>2. \A reason : reason # "channel_unavailable" /\ ReasonTrue(k, reason, row.attempts) =>
                            ReasonTrue(k, reason, new.attempts)
        BY DEF ReasonTrue
      <4> QED BY <1>3, <1>4, <1>5, <2>1, <3>2, <4>1, <4>2 DEF ExecutionFits
    <3> QED BY <3>1, <3>2
  <2>3. RowFits(k, e, new, job2, s, u)'
    BY <1>3, <2>1 DEF RowFits
  <2> QED BY <1>2, <1>3, <2>2, <2>3
<1>8. CASE Fresh(k)
  <2>1. e.step = "idle" /\ new.state = "scheduled" /\ new.receipt = "none" /\ job2.state # "completed"
        /\ row.state = "absent"
    BY <1>1, <1>2, <1>3, <1>8 DEF Fresh
  <2>2. ExecutionFits(k, e, new, s, u)'
    BY <2>1 DEF ExecutionFits
  <2>3. RowFits(k, e, new, job2, s, u)'
    BY <1>3, <2>1 DEF RowFits, Says, IsFinal, FinalStates
  <2> QED BY <1>2, <1>3, <2>2, <2>3
<1> QED BY <1>1, <1>2, <1>6, <1>7, <1>8

(* The receipt webhook.                                                    *)
LEMMA ReceiptKeepsOutcome ==
    ASSUME LoopInv, OutcomeInv, [Next]_vars, NEW r \in Receivers,
           \/ \E k \in Keys, verdict \in ReceiptStates : ReceiveReceipt(r, k, verdict)
           \/ SaveReceipt(r) \/ ReceiptFails(r)
    PROVE  OutcomeInv'
<1>1. /\ UNCHANGED <<todo, plans, tx, exec, jobs, sent, unrecorded>>
      /\ receipts \in [Receivers -> ReceiptCalls] /\ rows \in [Keys -> Deliveries]
      /\ TxFits' /\ NoReceipt.step = "idle"
  BY DEF ReceiveReceipt, SaveReceipt, ReceiptFails, apiVars, history, LoopInv, TypeOK, OutcomeInv,
         TxFits, NoReceipt
<1>2. \A call : ReceiptFits(call) => ReceiptFits(call)'
  <2> SUFFICES ASSUME NEW call, call.step = "save", call.delivery.state = "succeeded",
                      Says(call.key, call.delivery, sent[call.key])
               PROVE  ReceiptFits(call)'
    BY DEF ReceiptFits
  <2> QED BY <1>1 DEF ReceiptFits, Says
<1>3. ASSUME NEW call, receipts' = [receipts EXCEPT ![r] = call], ReceiptFits(call)'
      PROVE  \A v \in Receivers : ReceiptFits(receipts[v])'
  <2> TAKE v \in Receivers
  <2>1. PICK c : c = receipts'[v]
    OBVIOUS
  <2>2. c = call \/ c = receipts[v]
    BY <1>1, <1>3, <2>1
  <2>3. ReceiptFits(c)'
    BY <1>2, <1>3, <2>2 DEF OutcomeInv
  <2> QED BY <2>1, <2>3
<1>4. CASE ReceiptFails(r)
  <2>1. ReceiptFits(NoReceipt)'
    BY <1>1 DEF ReceiptFits
  <2>2. UNCHANGED <<rows, jobs>> /\ receipts' = [receipts EXCEPT ![r] = NoReceipt]
    BY <1>4 DEF ReceiptFails
  <2>3. \A v \in Receivers : ReceiptFits(receipts[v])'
    BY <1>3, <2>1, <2>2
  <2>4. \A k \in Keys : /\ ExecutionFits(k, exec[k], rows[k], sent[k], unrecorded[k])'
                       /\ RowFits(k, exec[k], rows[k], jobs[k], sent[k], unrecorded[k])'
    BY <1>1, <2>2, RowsKeep
  <2> QED BY <1>1, <2>3, <2>4 DEF OutcomeInv
<1>5. ASSUME NEW k \in Keys, NEW verdict \in ReceiptStates, ReceiveReceipt(r, k, verdict)
      PROVE  OutcomeInv'
  <2>1. PICK d : d = ApplyReceipt(rows[k], verdict)
    OBVIOUS
  <2>2. d.state = "succeeded" /\ d.message /\ sent[k] > 0
    <3>1. rows[k].state = "succeeded" /\ sent[k] > 0 /\ rows[k].message
      BY <1>5 DEF ReceiveReceipt, OutcomeInv, RowFits, Says
    <3>2. rows[k] \in Deliveries
      BY <1>1
    <3> QED BY <2>1, <3>1, <3>2 DEF ApplyReceipt, Deliveries
  <2>3. PICK call : call = [step |-> "save", key |-> k, delivery |-> d]
    OBVIOUS
  <2>4. ReceiptFits(call)'
    BY <1>1, <2>2, <2>3 DEF ReceiptFits, Says
  <2>5. UNCHANGED <<rows, jobs>> /\ receipts' = [receipts EXCEPT ![r] = call]
    BY <1>5, <2>1, <2>3 DEF ReceiveReceipt
  <2>6. \A v \in Receivers : ReceiptFits(receipts[v])'
    BY <1>3, <2>4, <2>5
  <2>7. \A q \in Keys : /\ ExecutionFits(q, exec[q], rows[q], sent[q], unrecorded[q])'
                       /\ RowFits(q, exec[q], rows[q], jobs[q], sent[q], unrecorded[q])'
    BY <1>1, <2>5, RowsKeep
  <2> QED BY <1>1, <2>6, <2>7 DEF OutcomeInv
<1>6. CASE SaveReceipt(r)
  <2>1. PICK k, d : k = receipts[r].key /\ d = receipts[r].delivery
    OBVIOUS
  <2>2. k \in Keys /\ d.state = "succeeded" /\ d.message /\ sent[k] > 0
    BY <1>6, <2>1 DEF SaveReceipt, OutcomeInv, ReceiptFits, Says, LoopInv, CopiesBacked
  <2>3. rows' = [rows EXCEPT ![k] = d] /\ receipts' = [receipts EXCEPT ![r] = NoReceipt]
    BY <1>6, <2>1 DEF SaveReceipt
  <2>4. \A v \in Receivers : ReceiptFits(receipts[v])'
    <3>1. ReceiptFits(NoReceipt)'
      BY <1>1 DEF ReceiptFits
    <3> QED BY <1>3, <2>3, <3>1
  <2>5. Overwritten(k)
    <3>1. rows'[k] = d
      BY <1>1, <2>2, <2>3
    <3>2. Says(k, d, sent[k])'
      BY <1>1, <2>2 DEF Says
    <3> QED BY <1>1, <2>2, <3>1, <3>2 DEF Overwritten, IsFinal, FinalStates
  <2>6. \A q \in Keys : q # k => rows'[q] = rows[q]
    BY <1>1, <2>3
  <2>7. \A q \in Keys : /\ ExecutionFits(q, exec[q], rows[q], sent[q], unrecorded[q])'
                       /\ RowFits(q, exec[q], rows[q], jobs[q], sent[q], unrecorded[q])'
    BY <1>1, <2>5, <2>6, RowsKeep
  <2> QED BY <1>1, <2>4, <2>7 DEF OutcomeInv
<1> QED BY <1>4, <1>5, <1>6

(* A command begins, or a transaction goes on without committing.          *)
LEMMA UncommittedKeepsOutcome ==
    ASSUME LoopInv, OutcomeInv, [Next]_vars, UNCHANGED <<rows, exec, receipts, sent, unrecorded>>,
           \A k \in Keys : jobs'[k].state = "completed" => jobs[k].state = "completed",
           TxFits'
    PROVE  OutcomeInv'
<1>1. \A k \in Keys : /\ ExecutionFits(k, exec[k], rows[k], sent[k], unrecorded[k])'
                     /\ RowFits(k, exec[k], rows[k], jobs[k], sent[k], unrecorded[k])'
  BY RowsKeep
<1>2. ASSUME NEW r \in Receivers PROVE ReceiptFits(receipts[r])'
  <2>1. ReceiptFits(receipts[r])
    BY DEF OutcomeInv
  <2> QED BY <2>1 DEF ReceiptFits, Says
<1> QED BY <1>1, <1>2 DEF OutcomeInv

(* A command begins.                                                       *)
LEMMA CommandKeepsOutcome ==
    ASSUME LoopInv, OutcomeInv, [Next]_vars, Command
    PROVE  OutcomeInv'
<1>1. ASSUME NEW op \in {"create", "update", "complete", "delete"}, NEW t, NEW upTo, NEW reason, NEW step,
             Begin(op, t, upTo, reason, step),
             op = "update" => reason = "version_stale", op = "complete" => reason = "todo_completed",
             op = "delete" => reason = "todo_deleted"
      PROVE  OutcomeInv'
  <2>1. tx'.op = op /\ tx'.reason = reason /\ tx'.read = {}
    BY <1>1 DEF Begin, NoTx
  <2>2. TxFits'
    BY <1>1, <2>1 DEF TxFits
  <2>3. UNCHANGED <<rows, jobs, exec, receipts, sent, unrecorded>>
    BY <1>1 DEF Begin, history
  <2> QED BY <2>2, <2>3, UncommittedKeepsOutcome
<1>2. ASSUME NEW due \in Dues, CreateTodo(due) PROVE OutcomeInv'
  BY <1>1, <1>2 DEF CreateTodo
<1>3. ASSUME NEW due \in Dues, UpdateTodo(due) PROVE OutcomeInv'
  BY <1>1, <1>3 DEF UpdateTodo
<1>4. CASE CompleteTodo
  BY <1>1, <1>4 DEF CompleteTodo
<1>5. CASE DeleteTodo
  BY <1>1, <1>5 DEF DeleteTodo
<1> QED BY <1>2, <1>3, <1>4, <1>5 DEF Command

(* A command's transaction goes on, or is rolled back.                     *)
LEMMA OpenTxKeepsOutcome ==
    ASSUME LoopInv, OutcomeInv, [Next]_vars,
           \/ CancelJobs \/ ReadScheduled \/ EndRevoke \/ PlanReminder \/ Rollback
           \/ \E k \in Keys : SuppressRow(k)
    PROVE  OutcomeInv'
<1>1. /\ UNCHANGED <<rows, exec, receipts, sent, unrecorded>> /\ tx \in Transactions /\ TxFits
      /\ jobs \in [Keys -> Jobs]
  BY DEF CancelJobs, ReadScheduled, EndRevoke, PlanReminder, Rollback, SuppressRow, history,
         LoopInv, TypeOK, OutcomeInv
<1>2. ASSUME NEW k \in Keys, jobs'[k].state = "completed" PROVE jobs[k].state = "completed"
  <2>1. CASE CancelJobs
    <3>1. jobs'[k] = CancelJob(jobs[k]) \/ jobs'[k] = jobs[k]
      BY <2>1 DEF CancelJobs
    <3>2. jobs[k] \in Jobs
      BY <1>1
    <3> QED BY <1>2, <3>1, <3>2 DEF CancelJob, Jobs
  <2>2. CASE jobs' = jobs
    BY <1>2, <2>2
  <2> QED BY <2>1, <2>2 DEF ReadScheduled, EndRevoke, PlanReminder, Rollback, SuppressRow
<1>3. ASSUME tx'.op = tx.op, tx'.reason = tx.reason, tx'.upTo = tx.upTo, tx'.read = tx.read
      PROVE  OutcomeInv'
  <2>1. TxFits'
    BY <1>1, <1>3 DEF TxFits
  <2> QED BY <1>1, <1>2, <2>1, UncommittedKeepsOutcome
<1>4. CASE ReadScheduled
  <2>1. tx'.op = tx.op /\ tx'.reason = tx.reason /\ tx'.upTo = tx.upTo /\ tx'.read = ScheduledForSuppression
    BY <1>1, <1>4 DEF ReadScheduled, Transactions
  <2>2. ScheduledForSuppression = {} \/ tx.op \notin {"create", "none"}
    <3>1. tx.op = "create" => tx.upTo = 0
      BY DEF LoopInv, TxCoherent
    <3>2. tx.op # "none"
      BY <1>4 DEF ReadScheduled, LoopInv, TxCoherent, NoTx
    <3>3. \A k \in Keys : VersionOf(k) > 0 /\ VersionOf(k) \in Int
      BY DEF Keys, VersionOf, ReminderVersions
    <3> QED BY <3>1, <3>2, <3>3 DEF ScheduledForSuppression
  <2>3. \A k \in ScheduledForSuppression : VersionOf(k) <= tx.upTo
    BY DEF ScheduledForSuppression
  <2>4. TxFits'
    BY <1>1, <2>1, <2>2, <2>3 DEF TxFits
  <2> QED BY <1>1, <1>2, <2>4, UncommittedKeepsOutcome
<1>5. CASE Rollback
  <2>1. TxFits'
    BY <1>5 DEF Rollback, TxFits, NoTx
  <2> QED BY <1>1, <1>2, <2>1, UncommittedKeepsOutcome
<1>6. CASE CancelJobs \/ EndRevoke \/ PlanReminder \/ \E k \in Keys : SuppressRow(k)
  <2>1. tx'.op = tx.op /\ tx'.reason = tx.reason /\ tx'.upTo = tx.upTo /\ tx'.read = tx.read
    BY <1>1, <1>6 DEF CancelJobs, EndRevoke, PlanReminder, SuppressRow, Transactions
  <2> QED BY <1>3, <2>1
<1> QED BY <1>4, <1>5, <1>6

(* It is committed.                                                        *)
LEMMA CommitKeepsOutcome ==
    ASSUME LoopInv, OutcomeInv, [Next]_vars, Commit
    PROVE  OutcomeInv'
<1>1. /\ UNCHANGED <<exec, receipts, sent, unrecorded>> /\ tx' = NoTx /\ TxFits /\ TxCoherent
      /\ tx \in Transactions /\ todo \in Todos
      /\ tx.op \in {"create", "update", "complete", "delete"}
  BY CommitIntent DEF Commit, history, OutcomeInv, LoopInv
<1>2. TxFits'
  BY <1>1 DEF TxFits, NoTx
<1>3. PICK d : d = SuppressedCopy
  OBVIOUS
<1>4. d.state = "suppressed" /\ d.reason = tx.reason /\ d.receipt = "none"
  <2>1. PICK n : n = NewDelivery
    OBVIOUS
  <2>2. n.receipt = "none" /\ n \in Deliveries
    BY <2>1, DeliveryTypes DEF NewDelivery, NoRow, Deliveries
  <2>3. d = [n EXCEPT !.state = "suppressed", !.reason = tx.reason]
    BY <1>3, <2>1 DEF SuppressedCopy, MarkSuppressed
  <2> QED BY <2>2, <2>3 DEF Deliveries
<1>5. ASSUME NEW k \in Keys, k \in tx.written PROVE Overwritten(k)
  <2>1. rows'[k] = d
    <3>1. k \notin tx.planned
      BY <1>1, <1>5, PlannedIsFresh DEF TxCoherent
    <3> QED BY <1>3, <1>5, <3>1 DEF Commit
  <2>2. tx.op # "create" /\ VersionOf(k) <= tx.upTo
    BY <1>1, <1>5 DEF TxFits, TxCoherent
  <2>3. VersionOf(k) \in Int /\ todo.reminderVersion \in Int
    BY <1>1 DEF Keys, VersionOf, ReminderVersions, Todos
  <2>4. ReasonTrue(k, d.reason, d.attempts)'
    <3>1. CASE tx.op = "update"
      <4>1. todo'.reminderVersion = todo.reminderVersion + 1 /\ tx.upTo = todo.reminderVersion
        BY <1>1, <3>1, CommandMoves DEF TxCoherent
      <4>2. todo'.reminderVersion > VersionOf(k)
        BY <2>2, <2>3, <4>1
      <4> QED BY <1>1, <1>4, <3>1, <4>2 DEF TxFits, ReasonTrue
    <3>2. CASE tx.op = "complete"
      BY <1>1, <1>4, <3>2, CommandMoves DEF TxFits, ReasonTrue
    <3>3. CASE tx.op = "delete"
      BY <1>1, <1>4, <3>3, CommandMoves DEF TxFits, ReasonTrue
    <3> QED BY <1>1, <2>2, <3>1, <3>2, <3>3
  <2>5. Says(k, rows[k], sent[k])'
    BY <1>4, <2>1, <2>4 DEF Says
  <2>6. jobs'[k].state = "completed" => jobs[k].state = "completed"
    BY DEF Commit, InsertJob, NoJob
  <2> QED BY <1>4, <2>1, <2>5, <2>6 DEF Overwritten, IsFinal, FinalStates
<1>6. ASSUME NEW k \in Keys, k \notin tx.written, k \in tx.planned PROVE Fresh(k)
  <2>1. rows'[k] = NewDelivery /\ jobs'[k] = InsertJob
    BY <1>6 DEF Commit
  <2>2. rows[k].state = "absent"
    BY <1>1, <1>6, PlannedIsFresh DEF TxCoherent
  <2>3. NewDelivery.state = "scheduled" /\ NewDelivery.receipt = "none" /\ InsertJob.state # "completed"
    BY DEF NewDelivery, NoRow, InsertJob, NoJob
  <2> QED BY <2>1, <2>2, <2>3 DEF Fresh
<1>7. ASSUME NEW k \in Keys, k \notin tx.written, k \notin tx.planned
      PROVE  rows'[k] = rows[k] /\ jobs'[k] = jobs[k]
  BY <1>7 DEF Commit
<1>8. \A k \in Keys : /\ ExecutionFits(k, exec[k], rows[k], sent[k], unrecorded[k])'
                     /\ RowFits(k, exec[k], rows[k], jobs[k], sent[k], unrecorded[k])'
  BY <1>1, <1>5, <1>6, <1>7, RowsKeep
<1>9. ASSUME NEW r \in Receivers PROVE ReceiptFits(receipts[r])'
  <2>1. ReceiptFits(receipts[r])
    BY DEF OutcomeInv
  <2> QED BY <1>1, <2>1 DEF ReceiptFits, Says
<1> QED BY <1>2, <1>8, <1>9 DEF OutcomeInv

-------------------------------------------------------------------------------
(* What executions, transactions and webhook calls know of the rows they   *)
(* have read stays true, whatever they race with.                          *)
THEOREM OutcomeInvariance == Spec => []OutcomeInv
<1>1. Init => OutcomeInv
  <2> SUFFICES ASSUME Init PROVE OutcomeInv
    OBVIOUS
  <2>1. \A k \in Keys : /\ exec[k].step = "idle" /\ rows[k].state = "absent" /\ rows[k].receipt = "none"
                       /\ jobs[k].state = "absent" /\ sent[k] = 0 /\ unrecorded[k] = 0
    BY DEF Init, NoExecution, NoRow, NoJob
  <2>2. \A k \in Keys : /\ ExecutionFits(k, exec[k], rows[k], sent[k], unrecorded[k])
                       /\ RowFits(k, exec[k], rows[k], jobs[k], sent[k], unrecorded[k])
    BY <2>1 DEF ExecutionFits, RowFits, Says
  <2>3. TxFits
    BY DEF Init, NoTx, TxFits
  <2>4. \A r \in Receivers : ReceiptFits(receipts[r])
    BY DEF Init, NoReceipt, ReceiptFits
  <2> QED BY <2>2, <2>3, <2>4 DEF OutcomeInv
<1>2. LoopInv /\ OutcomeInv /\ [Next]_vars => OutcomeInv'
  <2> SUFFICES ASSUME LoopInv, OutcomeInv, [Next]_vars PROVE OutcomeInv'
    OBVIOUS
  <2>1. CASE TxStep
    BY <2>1, OpenTxKeepsOutcome, CommitKeepsOutcome DEF TxStep
  <2>2. ASSUME NEW k \in Keys,
               \/ Fetch(k) \/ ExecutionStep(k) \/ RescueJob(k)
               \/ StatementFails(k) \/ ExecutionDies(k)
        PROVE  OutcomeInv'
    BY <2>2, WorkerKeepsOutcome
  <2>3. CASE Receipt
    BY <2>3, ReceiptKeepsOutcome DEF Receipt
  <2>4. CASE UNCHANGED vars
    <3>1. TxFits'
      BY <2>4 DEF vars, TxFits, OutcomeInv
    <3> QED BY <2>4, <3>1, UncommittedKeepsOutcome DEF vars
  <2> QED BY <2>1, <2>2, <2>3, <2>4, CommandKeepsOutcome DEF Next
<1> QED BY <1>1, <1>2, LoopInvariance, PTL DEF Spec

(* The suppression reason a row shows is the truth about the committed     *)
(* todo and plan, also when the command that suppressed it raced a send or *)
(* the execution decided on earlier reads.                                 *)
THEOREM SuppressionsAreTrue == Spec => []SuppressionTruthful
<1>1. OutcomeInv => SuppressionTruthful
  BY DEF OutcomeInv, RowFits, Says, ReasonTrue, SuppressionTruthful
<1> QED BY <1>1, OutcomeInvariance, PTL

(* An execution that starts after the todo was completed, deleted or       *)
(* rescheduled never reaches the provider.                                 *)
THEOREM StaleRemindersStop == Spec => []StaleNeverNotifies
<1>1. OutcomeInv => StaleNeverNotifies
  BY DEF OutcomeInv, ExecutionFits, StaleNeverNotifies
<1> QED BY <1>1, OutcomeInvariance, PTL

(* Neither retries, nor rescued jobs, nor commands that overwrite the row  *)
(* repeat a send that a row has recorded.                                  *)
THEOREM RecordedSendsAreFinal == Spec => []OnceUnlessUnrecorded
<1>1. OutcomeInv => OnceUnlessUnrecorded
  BY DEF OutcomeInv, RowFits, OnceUnlessUnrecorded
<1> QED BY <1>1, OutcomeInvariance, PTL

(* No early return of the handler, and no racing command, leaves a         *)
(* completed job with an unfinished delivery.                              *)
THEOREM CompletedJobsAreSettled == Spec => []CompletedJobSettled
<1>1. OutcomeInv => CompletedJobSettled
  BY DEF OutcomeInv, RowFits, CompletedJobSettled
<1> QED BY <1>1, OutcomeInvariance, PTL

(* A receipt stands on a succeeded row with its message id, and a          *)
(* succeeded row was accepted by the provider, also when a stale copy was  *)
(* written back over it.                                                   *)
THEOREM ReceiptsStandOnSends == Spec => []ReceiptsBelong
<1>1. OutcomeInv => ReceiptsBelong
  BY DEF OutcomeInv, RowFits, Says, ReceiptsBelong
<1> QED BY <1>1, OutcomeInvariance, PTL

===============================================================================
