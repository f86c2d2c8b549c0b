----------------------------- MODULE Conversations -----------------------------
(***************************************************************************)
(* The Conversation context beside the todos it commands                   *)
(* (backend/internal/modules/conversation): sessions with their            *)
(* transcripts, the turns of ProcessMessageHandler, and the confirmations  *)
(* through which alone a todo is deleted.                                  *)
(*                                                                         *)
(* A turn reads its session, waits for the model, searches for candidates, *)
(* and only then opens the transaction that writes its effect and its      *)
(* transcript.  That transaction inserts fresh rows and meets the others   *)
(* in one place, the session it refers to, so it is one step.  The         *)
(* transaction of ConfirmActionHandler updates rows others update too and  *)
(* is modelled statement by statement, with PostgreSQL's row locks (read   *)
(* committed).  One workspace and user: every statement is scoped by both. *)
(***************************************************************************)
EXTENDS Integers, FiniteSets

CONSTANTS
    TodoIds,           \* ids todos are created with
    SessionIds,        \* ids sessions are created with
    ConfirmationIds,   \* ids confirmations are created with
    Turns,             \* POST /conversation/messages calls
    Confirms,          \* POST /confirmations/{id}/confirm calls
    None,              \* no session, todo, confirmation, turn, proposal or intent
    MaxSelectable,     \* maxSelectableCandidates
    MaxVersion         \* bound: edits explored per todo

ASSUME VersionBound == MaxSelectable \in Nat \ {0} /\ MaxVersion \in Nat \ {0, 1}
ASSUME NoneIsNone == None \notin TodoIds \cup SessionIds \cup ConfirmationIds \cup Turns
ASSUME CallsApart == Turns \cap Confirms = {}

VARIABLES
    todos,           \* the committed rows of todo.todos
    sessions,        \* the state of each session id
    transcript,      \* the committed rows of conversation.messages
    confirmations,   \* conversation.confirmation_requests, with unsaved drafts
    turns,           \* the turns
    confirms         \* the confirm calls

vars == <<todos, sessions, transcript, confirmations, turns, confirms>>

-------------------------------------------------------------------------------
Versions == 1 .. MaxVersion

(* by is history: the turn that created the todo, None for the todo API.   *)
TodoRows == [status : {"absent", "pending", "completed", "deleted"},
             version : Versions, by : Turns \cup {None}]
NoTodo == [status |-> "absent", version |-> 1, by |-> None]

Live(t) == todos[t].status \in {"pending", "completed"}
Inserted(t, by) == [todos EXCEPT ![t] = [NoTodo EXCEPT !.status = "pending", !.by = by]]
Candidates == {t \in TodoIds : todos[t].status = "pending"}

Found(s) == sessions[s] = "open"
Opened(s) == [sessions EXCEPT ![s] = "open"]

(***************************************************************************)
(* What the model answers, as far as its validation tells answers apart.   *)
(* wellFormed: the exact keys, the schema version and the types are right. *)
(* arguments: "none" lacks a title or a keyword; "wrong" has an unknown    *)
(* key, a value of the wrong type or one out of bounds.                    *)
(***************************************************************************)
Intents == {"todo.create", "todo.delete", "todo.list"}

RawProposals ==
    [wellFormed : BOOLEAN, intent : Intents \cup {"unknown", "unregistered"},
     arguments : {"right", "none", "wrong"}, confidence : {"high", "low", "out"},
     missingFields : BOOLEAN]
RawTurns == [wellFormed : BOOLEAN, proposal : RawProposals \cup {None}]

ASSUME NoneIsNoProposal == None \notin RawProposals

validArguments(p) ==
    /\ p.arguments # "wrong"
    /\ p.intent = "todo.delete" => p.arguments = "right"

ValidProposal(p) ==
    /\ p.wellFormed
    /\ p.intent \in Intents \cup {"unknown"}
    /\ p.confidence # "out"
    /\ p.intent # "unknown" => validArguments(p)

ValidModelTurn(raw) ==
    /\ raw.wellFormed
    /\ raw.proposal # None => ValidProposal(raw.proposal)

Supports(intent) == intent \in Intents

(* A proposal the user is asked about before anything else is done.        *)
Unclear(p) ==
    \/ p.missingFields
    \/ p.confidence = "low"
    \/ p.intent = "todo.create" /\ p.arguments = "none"

(* The intent the transcript records: what becomes of the answer.          *)
ResolvedIntent(raw) ==
    CASE ~ValidModelTurn(raw) -> "unsupported"
      [] ValidModelTurn(raw) /\ raw.proposal = None -> "chat"
      [] ValidModelTurn(raw) /\ raw.proposal # None ->
            IF ~Supports(raw.proposal.intent) THEN "chat"
            ELSE IF Unclear(raw.proposal) THEN "clarification"
            ELSE raw.proposal.intent
ResolvedIntents == {ResolvedIntent(raw) : raw \in RawTurns}

(* A transcript row; from names the call that wrote it.                    *)
MessageRows ==
    [session : SessionIds, role : {"user", "assistant"}, from : Turns \cup Confirms,
     intent : ResolvedIntents \cup {None}]

(***************************************************************************)
(* A draft has been built by a handler and not been saved yet; by is the   *)
(* turn that holds it, None for CreateConfirmationHandler.                 *)
(***************************************************************************)
ConfirmationRows ==
    [state : {"absent", "draft", "open", "consumed"}, todo : TodoIds \cup {None},
     version : Versions, expired : BOOLEAN, by : Turns \cup {None}]
NoConfirmation == [state |-> "absent", todo |-> None, version |-> 1,
                   expired |-> FALSE, by |-> None]

NewConfirmationRequest(t, by) ==
    [state |-> "draft", todo |-> t, version |-> todos[t].version,
     expired |-> FALSE, by |-> by]

(* effect is what the transaction will write beside the transcript.        *)
TurnStates ==
    [step : {"idle", "model", "search", "write", "ok", "error"},
     session : SessionIds \cup {None},
     intent : ResolvedIntents \cup {None},
     effect : {"none", "create", "confirmation"},
     confirmation : ConfirmationIds \cup {None}]
NoTurn == [step |-> "idle", session |-> None, intent |-> None, effect |-> "none",
           confirmation |-> None]

(* inTime is the comparison of h.Now() with ExpiresAt; a step names the    *)
(* next statement.  late is history: the call came after ExpiresAt.        *)
ConfirmStates ==
    [step : {"idle", "get", "consume", "check", "delete", "append", "commit"},
     confirmation : ConfirmationIds \cup {None},
     session : SessionIds \cup {None},
     inTime : BOOLEAN, late : BOOLEAN]
NoConfirm == [step |-> "idle", confirmation |-> None, session |-> None,
              inTime |-> FALSE, late |-> FALSE]

(* The row locks an open confirm transaction holds.                        *)
LocksConfirmation(c) ==
    \E p \in Confirms : confirms[p].confirmation = c
                     /\ confirms[p].step \in {"check", "delete", "append", "commit"}
LocksTodo(t) ==
    \E p \in Confirms : /\ confirms[p].step \in {"append", "commit"}
                        /\ confirmations[confirms[p].confirmation].todo = t
LocksSession(s) ==
    \E p \in Confirms : confirms[p].step = "commit" /\ confirms[p].session = s

Init ==
    /\ todos = [t \in TodoIds |-> NoTodo]
    /\ sessions = [s \in SessionIds |-> "absent"]
    /\ transcript = {}
    /\ confirmations = [c \in ConfirmationIds |-> NoConfirmation]
    /\ turns = [u \in Turns |-> NoTurn]
    /\ confirms = [p \in Confirms |-> NoConfirm]

-------------------------------------------------------------------------------
(* The todo API, as far as it moves what a confirmation is bound to.  An   *)
(* update waits for the row lock of a confirm's delete and then fails.     *)
CreateTodo(t) ==
    /\ todos[t].status = "absent"
    /\ todos' = Inserted(t, None)
    /\ UNCHANGED <<sessions, transcript, confirmations, turns, confirms>>

UpdateTodo(t) ==
    /\ Live(t) /\ ~LocksTodo(t)
    /\ todos[t].version + 1 < MaxVersion
    /\ todos' = [todos EXCEPT ![t].version = @ + 1]
    /\ UNCHANGED <<sessions, transcript, confirmations, turns, confirms>>

CompleteTodo(t) ==
    /\ todos[t].status = "pending" /\ ~LocksTodo(t)
    /\ todos[t].version + 1 < MaxVersion
    /\ todos' = [todos EXCEPT ![t].version = @ + 1, ![t].status = "completed"]
    /\ UNCHANGED <<sessions, transcript, confirmations, turns, confirms>>

(* Sessions.  A delete takes the transcript with it (ON DELETE CASCADE);   *)
(* it waits for the key-share lock of a transaction that refers to it.     *)
CreateSession(s) ==
    /\ sessions[s] = "absent"
    /\ sessions' = Opened(s)
    /\ UNCHANGED <<todos, transcript, confirmations, turns, confirms>>

(* Fault: the transcript stays behind.                                     *)
DeleteSessionOnly(s) ==
    /\ Found(s) /\ ~LocksSession(s)
    /\ sessions' = [sessions EXCEPT ![s] = "deleted"]
    /\ UNCHANGED <<todos, transcript, confirmations, turns, confirms>>
DeleteSession(s) ==
    /\ Found(s) /\ ~LocksSession(s)
    /\ sessions' = [sessions EXCEPT ![s] = "deleted"]
    /\ transcript' = {m \in transcript : m.session # s}
    /\ UNCHANGED <<todos, confirmations, turns, confirms>>

-------------------------------------------------------------------------------
(***************************************************************************)
(* A turn.  An explicit session must exist when the turn starts; without   *)
(* one the session is created with the transcript.  The history window     *)
(* read next only feeds the model, whose answer may be anything.           *)
(***************************************************************************)
StartTurn(u, s) ==
    /\ turns[u] = NoTurn
    /\ s \in SessionIds => sessions[s] # "absent"
    /\ turns' = [turns EXCEPT ![u].session = s,
                              ![u].step = IF s \in SessionIds => Found(s) THEN "model" ELSE "error"]
    /\ UNCHANGED <<todos, sessions, transcript, confirmations, confirms>>

(* The model's turn, validated and dispatched: all but a create and a      *)
(* delete only talk, a list after it has read the todos.                   *)
ModelAnswers(u) ==
    /\ turns[u].step = "model"
    /\ \E intent \in ResolvedIntents :
          turns' = [turns EXCEPT ![u].step = IF intent = "todo.delete" THEN "search" ELSE "write",
                                 ![u].effect = IF intent = "todo.create" THEN "create" ELSE "none",
                                 ![u].intent = intent]
    /\ UNCHANGED <<todos, sessions, transcript, confirmations, confirms>>

(* One candidate is bound to a confirmation with the version just read;    *)
(* none or several are only talked about, too many as a clarification.     *)
SearchCandidates(u) ==
    /\ turns[u].step = "search"
    /\ \E found \in SUBSET Candidates :
          \/ /\ Cardinality(found) # 1
             /\ turns' = [turns EXCEPT ![u].step = "write",
                    ![u].intent = IF Cardinality(found) > MaxSelectable THEN "clarification" ELSE @]
             /\ UNCHANGED confirmations
          \/ \E t \in found, c \in ConfirmationIds :
                /\ found = {t}
                /\ confirmations[c] = NoConfirmation
                /\ turns' = [turns EXCEPT ![u].step = "write", ![u].effect = "confirmation",
                                          ![u].confirmation = c]
                /\ confirmations' = [confirmations EXCEPT ![c] = NewConfirmationRequest(t, u)]
    /\ UNCHANGED <<todos, sessions, transcript, confirms>>

(***************************************************************************)
(* The turn's transaction: its effect, the session when there is none, and *)
(* transcribeInside's two rows.  It goes through only if the session is    *)
(* still there: the transcript's foreign key refuses rows of a deleted one.*)
(* Fault: the rows carry the requested session id, not the resolved one.   *)
(***************************************************************************)
Rows(u, s) ==
    {[session |-> s, role |-> "user", from |-> u, intent |-> turns[u].intent],
     [session |-> s, role |-> "assistant", from |-> u, intent |-> None]}
TranscriptUnresolved(u, s) == Rows(u, turns[u].session)
Transcript(u, s) == Rows(u, s)

Saved(c) == [confirmations EXCEPT ![c].state = "open"]

WriteEffect(u) ==
    CASE turns[u].effect = "none" -> UNCHANGED <<todos, confirmations>>
      [] turns[u].effect = "create" ->
            /\ \E t \in TodoIds : todos[t].status = "absent" /\ todos' = Inserted(t, u)
            /\ UNCHANGED confirmations
      [] turns[u].effect = "confirmation" ->
            confirmations' = Saved(turns[u].confirmation) /\ UNCHANGED todos

CommitTurn(u) ==
    /\ turns[u].step = "write"
    /\ \E s \in SessionIds :
          /\ IF turns[u].session = None THEN sessions[s] = "absent"
                                        ELSE s = turns[u].session /\ Found(s)
          /\ sessions' = Opened(s)
          /\ transcript' = transcript \cup Transcript(u, s)
          /\ turns' = [turns EXCEPT ![u].step = "ok", ![u].session = s]
    /\ WriteEffect(u)
    /\ UNCHANGED confirms

Dropped(u) ==
    [c \in ConfirmationIds |->
        IF c = turns[u].confirmation THEN NoConfirmation ELSE confirmations[c]]

(* The model or a statement fails, the session is gone, or the client hung *)
(* up: the handler returns an error and the transaction leaves nothing.    *)
(* Fault: the created todo was written outside the transaction.            *)
TurnFailsAfterCreate(u) ==
    /\ turns[u].step \in {"model", "search", "write"}
    /\ IF turns[u].effect = "create" THEN WriteEffect(u)
       ELSE UNCHANGED todos /\ confirmations' = Dropped(u)
    /\ turns' = [turns EXCEPT ![u].step = "error"]
    /\ UNCHANGED <<sessions, transcript, confirms>>
TurnFails(u) ==
    /\ turns[u].step \in {"model", "search", "write"}
    /\ turns' = [turns EXCEPT ![u].step = "error"]
    /\ confirmations' = Dropped(u)
    /\ UNCHANGED <<todos, sessions, transcript, confirms>>

-------------------------------------------------------------------------------
(* CreateConfirmationHandler: the manual delete's entry reads the todo and *)
(* then saves, outside a transaction.                                      *)
DraftConfirmation(c, t) ==
    /\ confirmations[c] = NoConfirmation
    /\ Live(t)
    /\ confirmations' = [confirmations EXCEPT ![c] = NewConfirmationRequest(t, None)]
    /\ UNCHANGED <<todos, sessions, transcript, turns, confirms>>

SaveConfirmation(c) ==
    /\ confirmations[c].state = "draft" /\ confirmations[c].by = None
    /\ \/ confirmations' = Saved(c)
       \/ confirmations' = [confirmations EXCEPT ![c] = NoConfirmation]   \* the insert fails
    /\ UNCHANGED <<todos, sessions, transcript, turns, confirms>>

(* Time passes a confirmation's ExpiresAt.                                 *)
Expire(c) ==
    /\ confirmations[c].state \in {"draft", "open"} /\ ~confirmations[c].expired
    /\ confirmations' = [confirmations EXCEPT ![c].expired = TRUE]
    /\ UNCHANGED <<todos, sessions, transcript, turns, confirms>>

-------------------------------------------------------------------------------
(* ConfirmActionHandler.HandleWithSession.                                 *)
Advance(p, step) == confirms' = [confirms EXCEPT ![p].step = step]

StartConfirm(p, c, s) ==
    /\ confirms[p] = NoConfirm
    /\ confirmations[c].state \in {"open", "consumed"}
    /\ s \in SessionIds => Found(s)
    /\ confirms' = [confirms EXCEPT ![p] = [NoConfirm EXCEPT !.step = "get",
                                               !.confirmation = c, !.session = s,
                                               !.late = confirmations[c].expired]]
    /\ UNCHANGED <<todos, sessions, transcript, confirmations, turns>>

(* The row is read and the clock taken for Consume.                        *)
GetConfirmation(p) ==
    /\ confirms[p].step = "get"
    /\ confirms' = [confirms EXCEPT ![p].step = "consume",
                       ![p].inTime = ~confirmations[confirms[p].confirmation].expired]
    /\ UNCHANGED <<todos, sessions, transcript, confirmations, turns>>

(* The conditional update: it waits for a concurrent confirm of the same   *)
(* row, then looks at the row that one left.  Fault: whoever has waited is *)
(* only asked whether the row is still open.                               *)
ConsumeUntimed(p) ==
    LET c == confirms[p].confirmation IN
    /\ confirms[p].step = "consume"
    /\ ~LocksConfirmation(c)
    /\ confirmations[c].state = "open"
    /\ Advance(p, "check")
    /\ UNCHANGED <<todos, sessions, transcript, confirmations, turns>>
Consume(p) ==
    LET c == confirms[p].confirmation IN
    /\ confirms[p].step = "consume"
    /\ ~LocksConfirmation(c)
    /\ confirmations[c].state = "open" /\ confirms[p].inTime
    /\ Advance(p, "check")
    /\ UNCHANGED <<todos, sessions, transcript, confirmations, turns>>

(* GetTodo and the version re-check.                                       *)
CheckTodo(p) ==
    LET c == confirmations[confirms[p].confirmation] IN
    /\ confirms[p].step = "check"
    /\ Live(c.todo) /\ todos[c.todo].version = c.version
    /\ Advance(p, "delete")
    /\ UNCHANGED <<todos, sessions, transcript, confirmations, turns>>

(* DeleteTodoHandler in the same transaction: its update is conditional on *)
(* the version and waits for the row's lock.  Fault: not conditional.      *)
AfterDelete(p) == IF confirms[p].session = None THEN "commit" ELSE "append"
DeleteTodoUnversioned(p) ==
    /\ confirms[p].step = "delete"
    /\ ~LocksTodo(confirmations[confirms[p].confirmation].todo)
    /\ Advance(p, AfterDelete(p))
    /\ UNCHANGED <<todos, sessions, transcript, confirmations, turns>>
DeleteTodo(p) ==
    LET c == confirmations[confirms[p].confirmation] IN
    /\ confirms[p].step = "delete"
    /\ ~LocksTodo(c.todo)
    /\ Live(c.todo) /\ todos[c.todo].version = c.version
    /\ Advance(p, AfterDelete(p))
    /\ UNCHANGED <<todos, sessions, transcript, confirmations, turns>>

AppendOutcome(p) ==
    /\ confirms[p].step = "append"
    /\ Found(confirms[p].session)
    /\ Advance(p, "commit")
    /\ UNCHANGED <<todos, sessions, transcript, confirmations, turns>>

CommitConfirm(p) ==
    LET c == confirms[p].confirmation
        s == confirms[p].session IN
    /\ confirms[p].step = "commit"
    /\ confirmations' = [confirmations EXCEPT ![c].state = "consumed"]
    /\ todos' = [todos EXCEPT ![confirmations[c].todo].status = "deleted",
                              ![confirmations[c].todo].version = @ + 1]
    /\ transcript' = transcript \cup
          {[session |-> x, role |-> "assistant", from |-> p, intent |-> None] : x \in {s} \cap SessionIds}
    /\ confirms' = [confirms EXCEPT ![p] = NoConfirm]
    /\ UNCHANGED <<sessions, turns>>

(* A condition above does not hold, a statement fails or the client hung   *)
(* up: the transaction rolls back and the confirmation is unconsumed.      *)
ConfirmFails(p) ==
    /\ confirms[p].step # "idle"
    /\ confirms' = [confirms EXCEPT ![p] = NoConfirm]
    /\ UNCHANGED <<todos, sessions, transcript, confirmations, turns>>

-------------------------------------------------------------------------------
TodoApi == \E t \in TodoIds : CreateTodo(t) \/ UpdateTodo(t) \/ CompleteTodo(t)

SessionApi == \E s \in SessionIds : CreateSession(s) \/ DeleteSession(s)

TurnStep(u) ==
    \/ ModelAnswers(u) \/ SearchCandidates(u) \/ CommitTurn(u) \/ TurnFails(u)

ConfirmationStep(c) ==
    \/ \E t \in TodoIds : DraftConfirmation(c, t)
    \/ SaveConfirmation(c)
    \/ Expire(c)

ConfirmStep(p) ==
    \/ GetConfirmation(p) \/ Consume(p) \/ CheckTodo(p) \/ DeleteTodo(p)
    \/ AppendOutcome(p) \/ CommitConfirm(p) \/ ConfirmFails(p)

Next ==
    \/ TodoApi
    \/ SessionApi
    \/ \E u \in Turns, s \in SessionIds \cup {None} : StartTurn(u, s)
    \/ \E u \in Turns : TurnStep(u)
    \/ \E c \in ConfirmationIds : ConfirmationStep(c)
    \/ \E p \in Confirms, c \in ConfirmationIds, s \in SessionIds \cup {None} :
          StartConfirm(p, c, s)
    \/ \E p \in Confirms : ConfirmStep(p)

Spec == Init /\ [][Next]_vars

-------------------------------------------------------------------------------
(* The variables have the types of the rows and structs they stand for.    *)
TypeOK ==
    /\ todos \in [TodoIds -> TodoRows]
    /\ sessions \in [SessionIds -> {"absent", "open", "deleted"}]
    /\ transcript \subseteq MessageRows
    /\ confirmations \in [ConfirmationIds -> ConfirmationRows]
    /\ turns \in [Turns -> TurnStates]
    /\ confirms \in [Confirms -> ConfirmStates]

(***************************************************************************)
(* Every deletion was confirmed, once: a todo is deleted exactly when one  *)
(* confirmation of it is consumed, and that confirmation was bound to the  *)
(* very version the delete replaced.  However many confirmations of one    *)
(* todo and calls for each of them race, and whichever roll back           *)
(* (ConfirmActionHandler).                                                 *)
(***************************************************************************)
ConsumedFor(t) ==
    {c \in ConfirmationIds : confirmations[c].state = "consumed" /\ confirmations[c].todo = t}

DeletionsConfirmed ==
    \A t \in TodoIds :
        IF todos[t].status = "deleted"
        THEN \E c \in ConfirmationIds : /\ ConsumedFor(t) = {c}
                                        /\ todos[t].version = confirmations[c].version + 1
        ELSE ConsumedFor(t) = {}

(***************************************************************************)
(* A confirm that comes after the confirmation has expired consumes and    *)
(* deletes nothing, however long it waits for the row while others take    *)
(* it and roll back (ConfirmationStore.Consume).  One that came in time    *)
(* may do so after the expiry: its clock was read before it waited.        *)
(***************************************************************************)
LateNeverDeletes ==
    \A p \in Confirms : confirms[p].late => confirms[p].step \in {"get", "consume"}

(***************************************************************************)
(* A turn is all or nothing: one that answered has both its transcript     *)
(* rows, unless its session was deleted since, and did what they record, a *)
(* todo for a create and a confirmation for nothing but a delete; one that *)
(* failed left no row, no todo and no confirmation                         *)
(* (ProcessMessageHandler), although its session may have gone away while  *)
(* the model was thinking.                                                 *)
(***************************************************************************)
TurnsAtomic ==
    \A u \in Turns :
        /\ turns[u].step = "ok" =>
              /\ \/ Rows(u, turns[u].session) \subseteq transcript
                 \/ sessions[turns[u].session] = "deleted"
              /\ turns[u].intent = "todo.create" <=> \E t \in TodoIds : todos[t].by = u
              /\ \A c \in ConfirmationIds :
                    confirmations[c].by = u => turns[u].intent = "todo.delete"
        /\ turns[u].step # "ok" =>
              /\ \A m \in transcript : m.from # u
              /\ \A t \in TodoIds : todos[t].by # u
              /\ \A c \in ConfirmationIds :
                    confirmations[c].by = u => confirmations[c].state = "draft"

(***************************************************************************)
(* No transcript outlives its session and none refers to one that was      *)
(* never created, also when the session is deleted between a turn's read   *)
(* of it and its write, or under an open confirm.                          *)
(***************************************************************************)
TranscriptsAnchored == \A m \in transcript : sessions[m.session] = "open"

===============================================================================
