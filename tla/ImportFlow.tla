------------------------------ MODULE ImportFlow ------------------------------
(***************************************************************************)
(* The import half of the Portability context                              *)
(* (backend/internal/modules/portability): a bundle is uploaded and        *)
(* previewed, and later confirmed.  A confirm reads what was imported      *)
(* before, decides on every record, and then writes all of it in one       *)
(* transaction; what it read may be stale by then, because other imports   *)
(* of the same source are confirmed and sessions are deleted meanwhile.    *)
(*                                                                         *)
(* One owner and one source instance: the source records are keyed by      *)
(* both.  A record is its source id; the ids of the conversation records   *)
(* carry their kind in the key, so ids never clash across kinds.           *)
(***************************************************************************)
EXTENDS Integers, FiniteSets

CONSTANTS
    Records,        \* the source record ids
    Kind,           \* the kind of each record
    Parent,         \* the todo of a delivery, the session of a message, or None
    Legacy,         \* records registered before registrations had an owner
    Fingerprints,   \* the contents a record may have
    Bundles,        \* the bundles: functions from some records to contents
    Imports,        \* import ids
    Calls,          \* concurrent confirm requests
    None

ASSUME RecordAssumption ==
    /\ None \notin Records \cup Fingerprints \cup Imports \cup {"legacy"}
    /\ Kind \in [Records -> {"channel", "todo", "delivery", "session", "message"}]
    /\ Legacy \subseteq {r \in Records : Kind[r] \in {"channel", "todo", "delivery"}}
    /\ Parent \in [Records -> Records \cup {None}]
    /\ \A r \in Records :
          CASE Kind[r] = "delivery" -> Parent[r] \in Records /\ Kind[Parent[r]] = "todo"
            [] Kind[r] = "message"  -> Parent[r] \in Records => Kind[Parent[r]] = "session"
            [] OTHER                -> Parent[r] = None

(* "malformed" stands for a record that its validation rejects, a session  *)
(* or message with a duplicated id included.                               *)
ASSUME BundleAssumption ==
    \A b \in Bundles : /\ DOMAIN b \subseteq Records
                       /\ \A r \in DOMAIN b : b[r] \in Fingerprints \cup {"malformed"}

VARIABLES
    imports,    \* the rows of portability_imports
    sources,    \* the content each registered record had, None if unregistered
    rows,       \* the rows imports have created: [record, by, parent]
    channels,   \* channel addresses (as records) the user added himself
    calls       \* the confirm requests

vars == <<imports, sources, rows, channels, calls>>

-------------------------------------------------------------------------------
Outcomes == {"new", "skipped", "conflict", "invalid"}
Decisions == [Records -> Outcomes \cup {"none"}]   \* "none": not in the bundle

EmptyBundle == [r \in {} |-> None]

ImportRows ==
    [state : {"absent", "pending", "committed"}, expired : BOOLEAN,
     bundle : Bundles \cup {EmptyBundle}, preview : Decisions, report : Decisions]
NoDecisions == [r \in Records |-> "none"]
NoImport == [state |-> "absent", expired |-> FALSE, bundle |-> EmptyBundle,
             preview |-> NoDecisions, report |-> NoDecisions]

(***************************************************************************)
(* classifyBundle over the fingerprints lookup found.  A record without a  *)
(* registration is new; the same content is skipped, any other and a       *)
(* legacy registration conflict.  A message needs its session in the same  *)
(* bundle.                                                                 *)
(***************************************************************************)
Decide(content, stored) ==
    CASE stored = None    -> "new"
      [] stored = content -> "skipped"
      [] OTHER            -> "conflict"

Stored(r) == IF sources[r] = None /\ r \in Legacy THEN "legacy" ELSE sources[r]

(* Fault: nothing is validated.                                            *)
ValidUnchecked(b, r) == TRUE
Valid(b, r) ==
    /\ b[r] # "malformed"
    /\ Kind[r] = "message" /\ Parent[r] # None =>
          Parent[r] \in DOMAIN b /\ b[Parent[r]] # "malformed"

Classify(b) ==
    [r \in Records |->
        IF r \notin DOMAIN b THEN "none"
        ELSE IF Valid(b, r) THEN Decide(b[r], Stored(r)) ELSE "invalid"]

-------------------------------------------------------------------------------
(* A confirm request.  decisions is the plan execution may revise, targets *)
(* the records whose rows children may attach to, todo the records not yet *)
(* executed, mine the rows the open transaction has written, registered    *)
(* the source records it has registered.                                   *)
CallStates ==
    [step : {"idle", "decide", "targets", "execute"},
     import : Imports \cup {None},
     decisions : Decisions,
     targets : SUBSET Records,
     todo : SUBSET Records,
     mine : SUBSET Records,
     registered : SUBSET Records]
NoCall == [step |-> "idle", import |-> None, decisions |-> NoDecisions, targets |-> {},
           todo |-> {}, mine |-> {}, registered |-> {}]

BundleOf(p) == imports[calls[p].import].bundle

Init ==
    /\ imports = [i \in Imports |-> NoImport]
    /\ sources = [r \in Records |-> None]
    /\ rows = {}
    /\ channels = {}
    /\ calls = [p \in Calls |-> NoCall]

RowOf(r) == {x \in rows : x.record = r}

-------------------------------------------------------------------------------
(* Upload: parse, classify, store.  Parsing refuses a bundle as a whole.   *)
Upload(i, b) ==
    /\ imports[i].state = "absent"
    /\ imports' = [imports EXCEPT ![i] = [NoImport EXCEPT !.state = "pending", !.bundle = b,
                                                        !.preview = Classify(b)]]
    /\ UNCHANGED <<sources, rows, channels, calls>>

(* The pending row's age passes ImportTTL; nothing is written.             *)
Expire(i) ==
    /\ imports[i].state = "pending" /\ ~imports[i].expired
    /\ imports' = [imports EXCEPT ![i].expired = TRUE]
    /\ UNCHANGED <<sources, rows, channels, calls>>

(* The user's own doings: a channel with the address of a record is added, *)
(* an imported session is deleted with its messages.                       *)
AddChannel(r) ==
    /\ Kind[r] = "channel" /\ r \notin channels /\ RowOf(r) = {}
    /\ \A p \in Calls : r \notin calls[p].mine
    /\ channels' = channels \cup {r}
    /\ UNCHANGED <<imports, sources, rows, calls>>

(* The delete waits for the key-share lock a message's insert holds.       *)
DeleteSession(r) ==
    /\ Kind[r] = "session" /\ RowOf(r) # {}
    /\ \A p \in Calls, m \in Records : m \in calls[p].mine => Parent[m] # r
    /\ rows' = {x \in rows : x.record # r /\ Parent[x.record] # r}
    /\ UNCHANGED <<imports, sources, channels, calls>>

-------------------------------------------------------------------------------
(* ConfirmImportHandler.Handle up to the transaction.                      *)
StartConfirm(p, i) ==
    /\ calls[p] = NoCall
    /\ imports[i].state = "pending" /\ ~imports[i].expired
    /\ calls' = [calls EXCEPT ![p] = [NoCall EXCEPT !.step = "decide", !.import = i]]
    /\ UNCHANGED <<imports, sources, rows, channels>>

(* The stored preview is not used: everything is decided again.            *)
DecideAgain(p) ==
    /\ calls[p].step = "decide"
    /\ calls' = [calls EXCEPT ![p].step = "targets", ![p].decisions = Classify(BundleOf(p))]
    /\ UNCHANGED <<imports, sources, rows, channels>>

(* previouslyImportedTodoIDs: the todos the valid deliveries refer to, as  *)
(* registered now.  Only new records are executed.  Fault: all valid ones. *)
ReadTargetsExecuteAll(p) ==
    LET b == BundleOf(p) IN
    /\ calls[p].step = "targets"
    /\ calls' = [calls EXCEPT ![p].step = "execute", ![p].todo = {r \in DOMAIN b : Valid(b, r)}]
    /\ UNCHANGED <<imports, sources, rows, channels>>
ReadTargets(p) ==
    LET b == BundleOf(p) IN
    /\ calls[p].step = "targets"
    /\ calls' = [calls EXCEPT
          ![p].step = "execute",
          ![p].todo = {r \in DOMAIN b : calls[p].decisions[r] = "new"},
          ![p].targets = {t \in Records : /\ Kind[t] = "todo" /\ sources[t] # None
                                          /\ \E d \in DOMAIN b : Parent[d] = t /\ Valid(b, d)}]
    /\ UNCHANGED <<imports, sources, rows, channels>>

-------------------------------------------------------------------------------
(***************************************************************************)
(* The transaction: channels, todos, deliveries, sessions, messages.       *)
(* Register inserts under a unique key: it waits while another open        *)
(* transaction has inserted it and fails once that one has committed.      *)
(***************************************************************************)
Rank == [channel |-> 1, todo |-> 2, delivery |-> 3, session |-> 4, message |-> 5]

IsNext(p, r) ==
    /\ calls[p].step = "execute"
    /\ r \in calls[p].todo
    /\ \A q \in calls[p].todo : Rank[Kind[r]] <= Rank[Kind[q]]

(* Fault: the key is not unique.                                           *)
CanRegisterTwice(p, r) == TRUE
CanRegister(p, r) ==
    /\ sources[r] = None
    /\ \A q \in Calls \ {p} : r \notin calls[q].registered

Executed(p, r) == [calls[p] EXCEPT !.todo = @ \ {r}]

(* The row is written and registered.                                      *)
WriteRow(p, r) ==
    /\ CanRegister(p, r)
    /\ calls' = [calls EXCEPT ![p] =
                    [Executed(p, r) EXCEPT !.mine = @ \cup {r}, !.registered = @ \cup {r}]]
    /\ UNCHANGED <<imports, sources, rows, channels>>

(* The record is not written and the plan says why.                        *)
Revise(p, r, outcome) ==
    /\ calls' = [calls EXCEPT ![p] = [Executed(p, r) EXCEPT !.decisions[r] = outcome]]
    /\ UNCHANGED <<imports, sources, rows, channels>>

(* A channel with the record's address: the user's own, or the row an      *)
(* earlier import made of it.                                              *)
ChannelExists(r) == r \in channels \/ RowOf(r) # {}

(* An existing channel downgrades the record to skipped and is registered  *)
(* as its target.                                                          *)
ImportChannel(p, r) ==
    /\ IsNext(p, r) /\ Kind[r] = "channel"
    /\ IF ChannelExists(r)
       THEN /\ CanRegister(p, r)
            /\ calls' = [calls EXCEPT ![p] = [Executed(p, r) EXCEPT
                            !.decisions[r] = "skipped", !.registered = @ \cup {r}]]
            /\ UNCHANGED <<imports, sources, rows, channels>>
       ELSE WriteRow(p, r)

ImportTodo(p, r) ==
    /\ IsNext(p, r) /\ Kind[r] = "todo"
    /\ WriteRow(p, r)

(* Its todo is one this transaction created or a previous import did.      *)
HasTodo(p, r) == Parent[r] \in calls[p].mine \cup calls[p].targets
(* Fault: an orphan is written all the same.                               *)
ImportDeliveryOrphaned(p, r) ==
    /\ IsNext(p, r) /\ Kind[r] = "delivery"
    /\ WriteRow(p, r)
ImportDelivery(p, r) ==
    /\ IsNext(p, r) /\ Kind[r] = "delivery"
    /\ IF HasTodo(p, r) THEN WriteRow(p, r) ELSE Revise(p, r, "invalid")

ImportSession(p, r) ==
    /\ IsNext(p, r) /\ Kind[r] = "session"
    /\ WriteRow(p, r)

(***************************************************************************)
(* A message goes to the session this transaction created, or to the row   *)
(* of a skipped session if that still exists; a session in conflict takes  *)
(* no new messages.                                                        *)
(***************************************************************************)
HasSession(p, r) ==
    \/ Parent[r] = None
    \/ Parent[r] \in calls[p].mine
    \/ calls[p].decisions[Parent[r]] = "skipped" /\ RowOf(Parent[r]) # {}

ImportMessage(p, r) ==
    /\ IsNext(p, r) /\ Kind[r] = "message"
    /\ IF HasSession(p, r) THEN WriteRow(p, r) ELSE Revise(p, r, "invalid")

(* Imports.Commit is conditional on the pending state; then the            *)
(* transaction's rows and registrations become visible with the report.    *)
(* Fault: unconditional.                                                   *)
StillPendingIgnored(p) == TRUE
StillPending(p) == imports[calls[p].import].state = "pending"

Commit(p) ==
    LET i == calls[p].import IN
    /\ calls[p].step = "execute" /\ calls[p].todo = {}
    /\ StillPending(p)
    /\ imports' = [imports EXCEPT ![i].state = "committed", ![i].report = calls[p].decisions]
    /\ sources' = [r \in Records |-> IF r \in calls[p].registered THEN BundleOf(p)[r]
                                                                  ELSE sources[r]]
    /\ rows' = rows \cup {[record |-> r, by |-> i, parent |-> Parent[r]] : r \in calls[p].mine}
    /\ calls' = [calls EXCEPT ![p] = NoCall]
    /\ UNCHANGED channels

(* A statement fails (a registration that is taken, a commit of a row no   *)
(* longer pending, an insert the target context refuses, a deadlock) or    *)
(* the client hung up: the transaction leaves nothing, the import pending. *)
Fail(p) ==
    /\ calls[p].step # "idle"
    /\ calls' = [calls EXCEPT ![p] = NoCall]
    /\ UNCHANGED <<imports, sources, rows, channels>>

-------------------------------------------------------------------------------
Execute(p, r) ==
    \/ ImportChannel(p, r) \/ ImportTodo(p, r) \/ ImportDelivery(p, r)
    \/ ImportSession(p, r) \/ ImportMessage(p, r)

Next ==
    \/ \E i \in Imports, b \in Bundles : Upload(i, b)
    \/ \E i \in Imports : Expire(i)
    \/ \E r \in Records : AddChannel(r) \/ DeleteSession(r)
    \/ \E p \in Calls, i \in Imports : StartConfirm(p, i)
    \/ \E p \in Calls : DecideAgain(p) \/ ReadTargets(p) \/ Commit(p) \/ Fail(p)
    \/ \E p \in Calls, r \in Records : Execute(p, r)

Spec == Init /\ [][Next]_vars

-------------------------------------------------------------------------------
(* The variables have the types of the rows and structs they stand for.    *)
TypeOK ==
    /\ imports \in [Imports -> ImportRows]
    /\ sources \in [Records -> Fingerprints \cup {None}]
    /\ rows \subseteq [record : Records, by : Imports, parent : Records \cup {None}]
    /\ channels \subseteq Records
    /\ calls \in [Calls -> CallStates]

(***************************************************************************)
(* A source record becomes at most one row, however often bundles that     *)
(* hold it are uploaded and confirmed, side by side or one after the       *)
(* other, and every such row is registered as its record's                 *)
(* (SourceRecordStore.Register).                                           *)
(***************************************************************************)
ImportedOnce ==
    \A r \in Records : /\ Cardinality(RowOf(r)) <= 1
                       /\ RowOf(r) # {} => sources[r] # None

(***************************************************************************)
(* The report of a committed import is the truth: the rows it created are  *)
(* exactly the records it reports as new (a later deletion of a session    *)
(* apart), what it reports as skipped or in conflict is registered, and an *)
(* import that is not committed created nothing (buildReport after         *)
(* execute's revisions).                                                   *)
(***************************************************************************)
CreatedBy(i) == {x.record : x \in {y \in rows : y.by = i}}
ReportedAs(i, outcome) == {r \in Records : imports[i].report[r] = outcome}

ReportTruthful ==
    \A i \in Imports :
        /\ CreatedBy(i) \subseteq ReportedAs(i, "new")
        /\ \A r \in ReportedAs(i, "new") \ CreatedBy(i) : Kind[r] \in {"session", "message"}
        /\ \A r \in ReportedAs(i, "skipped") \cup ReportedAs(i, "conflict") :
              Stored(r) # None
        /\ imports[i].state # "committed" => CreatedBy(i) = {}

(***************************************************************************)
(* Every imported delivery belongs to an imported todo and every imported  *)
(* message to a session that exists, although parents were looked up       *)
(* before the transaction, sessions are deleted at any time, and a parent  *)
(* may have come with another import.                                      *)
(***************************************************************************)
ParentsExist == \A x \in rows : x.parent # None => RowOf(x.parent) # {}

(***************************************************************************)
(* A confirm never imports what the user was told would be left alone: a   *)
(* record previewed as skipped, in conflict or invalid is reported so.     *)
(***************************************************************************)
PreviewKept ==
    \A i \in Imports, r \in Records :
        imports[i].state = "committed" /\ imports[i].preview[r] \in {"skipped", "conflict", "invalid"}
            => imports[i].report[r] = imports[i].preview[r]

===============================================================================
