-------------------------- MODULE ConversationsProofs --------------------------
(***************************************************************************)
(* Theorems about Conversations, for any todos, sessions, confirmations,   *)
(* turns and confirm calls.                                                *)
(***************************************************************************)
EXTENDS Conversations, TLAPS

-------------------------------------------------------------------------------
(* The inductive invariant.                                                *)

(* A todo that is not deleted can be; what a turn created, it recorded.    *)
TodoSound(t) ==
    LET by == todos[t].by IN
    /\ todos[t].status # "deleted" => todos[t].version < MaxVersion
    /\ todos[t].status = "absent" => by = None
    /\ by # None => turns[by].step = "ok" /\ turns[by].intent = "todo.create"

MessageSound(m) ==
    /\ sessions[m.session] = "open"
    /\ m.from \in Turns => turns[m.from].step = "ok"

(* A turn's confirmation is its draft until the turn is written.           *)
Holds(u, c) ==
    turns[u].step = "write" /\ turns[u].effect = "confirmation" /\ turns[u].confirmation = c

ConfirmationSound(c) ==
    LET r == confirmations[c] IN
    /\ r.state # "absent" => r.todo \in TodoIds
    /\ r.by # None =>
          \/ r.state = "draft" /\ Holds(r.by, c)
          \/ /\ r.state \in {"open", "consumed"}
             /\ turns[r.by].step = "ok" /\ turns[r.by].intent = "todo.delete"

(* A turn knows what it will write, and its rows stay with their session.  *)
TurnSound(u) ==
    LET r == turns[u] IN
    /\ r.step \in {"idle", "model", "search"} => r.effect = "none" /\ r.confirmation = None
    /\ r.step = "search" => r.intent = "todo.delete"
    /\ r.step = "write" =>
          /\ r.effect = "create" <=> r.intent = "todo.create"
          /\ r.effect # "confirmation" => r.confirmation = None
          /\ r.effect = "confirmation" =>
                /\ r.confirmation \in ConfirmationIds /\ r.intent = "todo.delete"
                /\ confirmations[r.confirmation].by = u
                /\ confirmations[r.confirmation].state = "draft"
    /\ r.step = "ok" =>
          /\ r.session \in SessionIds
          /\ Rows(u, r.session) \subseteq transcript \/ sessions[r.session] = "deleted"
          /\ r.intent = "todo.create" => \E t \in TodoIds : todos[t].by = u

Consuming == {"check", "delete", "append", "commit"}
Deleting == {"append", "commit"}

(* What a confirm has checked stays so while it holds the rows' locks.     *)
ConfirmSound(p) ==
    LET r == confirms[p]
        c == confirmations[r.confirmation] IN
    /\ r.step # "idle" => r.confirmation \in ConfirmationIds /\ c.state \in {"open", "consumed"}
    /\ r.step \in Consuming => c.state = "open"
    /\ r.step \in Deleting => Live(c.todo) /\ todos[c.todo].version = c.version
    /\ r.step = "append" => r.session # None
    /\ r.step = "commit" /\ r.session # None => Found(r.session)

(* The locks are held by one call each.                                    *)
Exclusive(p, q) ==
    /\ confirms[p].step \in Consuming /\ confirms[q].step \in Consuming
       /\ confirms[p].confirmation = confirms[q].confirmation => p = q
    /\ confirms[p].step \in Deleting /\ confirms[q].step \in Deleting
       /\ confirmations[confirms[p].confirmation].todo = confirmations[confirms[q].confirmation].todo
          => p = q

ConversationInv ==
    /\ TypeOK
    /\ \A t \in TodoIds : TodoSound(t)
    /\ \A m \in transcript : MessageSound(m)
    /\ \A c \in ConfirmationIds : ConfirmationSound(c)
    /\ \A u \in Turns : TurnSound(u)
    /\ \A p \in Confirms : ConfirmSound(p)
    /\ \A p, q \in Confirms : Exclusive(p, q)
    /\ DeletionsConfirmed

-------------------------------------------------------------------------------
(* The model's answers: a clarification is one of them.                    *)
LEMMA Clarifies == "clarification" \in ResolvedIntents
<1> DEFINE p == [wellFormed |-> TRUE, intent |-> "todo.list", arguments |-> "right",
                 confidence |-> "low", missingFields |-> FALSE]
           raw == [wellFormed |-> TRUE, proposal |-> p]
<1>1. p \in RawProposals /\ p # None
  <2>1. /\ TRUE \in BOOLEAN /\ FALSE \in BOOLEAN /\ "low" \in {"high", "low", "out"}
        /\ "todo.list" \in Intents \cup {"unknown", "unregistered"}
        /\ "right" \in {"right", "none", "wrong"}
    BY DEF Intents
  <2>2. p \in RawProposals
    BY <2>1, Zenon DEF RawProposals
  <2> HIDE DEF p
  <2> QED BY <2>2, NoneIsNoProposal
<1>2. raw \in RawTurns
  BY <1>1 DEF RawTurns
<1>3. ValidProposal(p) /\ Supports(p.intent) /\ Unclear(p)
  BY DEF ValidProposal, validArguments, Intents, Supports, Unclear
<1>4. raw.proposal = p /\ ValidModelTurn(raw)
  BY <1>3 DEF ValidModelTurn
<1> HIDE DEF p, raw
<1>5. ResolvedIntent(raw) = "clarification"
  BY <1>1, <1>3, <1>4 DEF ResolvedIntent
<1> QED BY <1>2, <1>5 DEF ResolvedIntents

(* Initially there is nothing.                                             *)
LEMMA InitSound == Init => ConversationInv
<1> SUFFICES ASSUME Init PROVE ConversationInv
  OBVIOUS
<1>1. NoTodo \in TodoRows /\ NoConfirmation \in ConfirmationRows /\ NoTurn \in TurnStates
      /\ NoConfirm \in ConfirmStates
  BY VersionBound DEF NoTodo, TodoRows, NoConfirmation, ConfirmationRows, NoTurn, TurnStates,
                      NoConfirm, ConfirmStates, Versions
<1>2. TypeOK
  BY <1>1 DEF Init, TypeOK
<1>3. \A t \in TodoIds : TodoSound(t)
  BY VersionBound DEF Init, TodoSound, NoTodo
<1>4. \A c \in ConfirmationIds : ConfirmationSound(c)
  BY DEF Init, ConfirmationSound, NoConfirmation
<1>5. \A u \in Turns : TurnSound(u)
  BY DEF Init, TurnSound, NoTurn
<1>6. \A p \in Confirms : ConfirmSound(p)
  BY DEF Init, ConfirmSound, NoConfirm, Consuming, Deleting
<1>7. \A p, q \in Confirms : Exclusive(p, q)
  BY DEF Init, Exclusive, NoConfirm, Consuming, Deleting
<1>8. DeletionsConfirmed
  BY DEF Init, DeletionsConfirmed, ConsumedFor, NoTodo, NoConfirmation
<1>9. \A m \in transcript : MessageSound(m)
  BY DEF Init
<1> QED BY <1>2, <1>3, <1>4, <1>5, <1>6, <1>7, <1>8, <1>9 DEF ConversationInv

-------------------------------------------------------------------------------
(* The todo API: a row that no confirm has locked gets a new version.      *)
LEMMA TodoChange ==
    ASSUME ConversationInv, NEW t \in TodoIds, NEW row \in TodoRows,
           row.by = todos[t].by, row.status \in {"pending", "completed"}, row.version < MaxVersion,
           todos[t].status # "deleted", ~LocksTodo(t),
           todos' = [todos EXCEPT ![t] = row],
           UNCHANGED <<sessions, transcript, confirmations, turns, confirms>>
    PROVE  ConversationInv'
<1>0. TypeOK
  BY DEF ConversationInv
<1>1. TypeOK'
  BY <1>0 DEF TypeOK
<1>2. \A x \in TodoIds : todos'[x] = IF x = t THEN row ELSE todos[x]
  BY <1>0 DEF TypeOK
<1>3. \A x \in TodoIds : todos'[x].by = todos[x].by
  BY <1>2
<1>4. \A x \in TodoIds : TodoSound(x)'
  BY <1>2 DEF ConversationInv, TodoSound
<1>5. (\A m \in transcript : MessageSound(m))' /\ \A c \in ConfirmationIds : ConfirmationSound(c)'
  BY DEF ConversationInv, MessageSound, ConfirmationSound, Holds
<1>6. \A u \in Turns : TurnSound(u)'
  BY <1>3 DEF ConversationInv, TurnSound, Rows
<1>7. ASSUME NEW p \in Confirms PROVE ConfirmSound(p)'
  <2> DEFINE r == confirms[p]
             c == confirmations[r.confirmation]
  <2>1. ConfirmSound(p)
    BY DEF ConversationInv
  <2>2. r.step \in Deleting => c.todo \in TodoIds /\ c.todo # t
    BY <2>1 DEF ConversationInv, ConfirmationSound, ConfirmSound, LocksTodo, Deleting
  <2> QED BY <1>2, <2>1, <2>2 DEF ConfirmSound, Live, Found
<1>8. \A p, q \in Confirms : Exclusive(p, q)'
  BY DEF ConversationInv, Exclusive
<1>9. DeletionsConfirmed'
  BY <1>2 DEF ConversationInv, DeletionsConfirmed, ConsumedFor
<1> QED BY <1>1, <1>4, <1>5, <1>6, <1>7, <1>8, <1>9 DEF ConversationInv

(* A row just inserted.                                                    *)
LEMMA NewTodo ==
    ASSUME NEW by \in Turns \cup {None}, NEW row,
           row = [NoTodo EXCEPT !.status = "pending", !.by = by]
    PROVE  /\ row \in TodoRows /\ row.by = by /\ row.status = "pending"
           /\ row.version = 1 /\ row.version < MaxVersion
<1>1. /\ NoTodo \in TodoRows
      /\ row.by = by /\ row.status = "pending" /\ row.version = NoTodo.version
  <2>1. NoTodo \in TodoRows
    BY VersionBound DEF NoTodo, TodoRows, Versions
  <2> QED BY <2>1 DEF TodoRows
<1>2. row \in TodoRows
  <2>1. "pending" \in {"absent", "pending", "completed", "deleted"}
    OBVIOUS
  <2> QED BY <1>1, <2>1, Zenon DEF TodoRows
<1>3. NoTodo.version = 1 /\ 1 < MaxVersion
  BY VersionBound DEF NoTodo
<1> QED BY <1>1, <1>2, <1>3

(* So the todo API keeps the invariant.                                    *)
LEMMA TodoApiKeeps == ConversationInv /\ TodoApi => ConversationInv'
<1> SUFFICES ASSUME ConversationInv, NEW t \in TodoIds,
                    CreateTodo(t) \/ UpdateTodo(t) \/ CompleteTodo(t)
             PROVE  ConversationInv'
  BY DEF TodoApi
<1>0. /\ todos[t] \in TodoRows /\ TodoSound(t) /\ MaxVersion \in Nat \ {0, 1}
      /\ todos[t].version \in Nat /\ todos \in [TodoIds -> TodoRows]
  BY VersionBound DEF ConversationInv, TypeOK, TodoRows, Versions
<1>1. CASE CreateTodo(t)
  <2>1. PICK row : row = [NoTodo EXCEPT !.status = "pending", !.by = None]
    OBVIOUS
  <2>2. ~LocksTodo(t)
    BY <1>1 DEF CreateTodo, LocksTodo, ConversationInv, ConfirmSound, Deleting, Live
  <2>3. todos[t].by = None
    BY <1>0, <1>1 DEF CreateTodo, TodoSound
  <2>4. todos' = [todos EXCEPT ![t] = row]
    BY <1>1, <2>1 DEF CreateTodo, Inserted
  <2>5. /\ row \in TodoRows /\ row.by = None /\ row.status = "pending"
        /\ row.version < MaxVersion
    BY <2>1, NewTodo
  <2> QED BY <1>1, <2>2, <2>3, <2>4, <2>5, TodoChange DEF CreateTodo
<1>2. CASE UpdateTodo(t)
  <2> DEFINE row == [todos[t] EXCEPT !.version = @ + 1]
  <2>1. /\ row \in TodoRows /\ row.by = todos[t].by /\ row.status = todos[t].status
        /\ row.version < MaxVersion
    BY <1>0, <1>2 DEF UpdateTodo, TodoRows, Versions
  <2>2. todos' = [todos EXCEPT ![t] = row]
    BY <1>0, <1>2 DEF UpdateTodo
  <2> HIDE DEF row
  <2> QED BY <1>2, <2>1, <2>2, TodoChange DEF UpdateTodo, Live
<1>3. CASE CompleteTodo(t)
  <2> DEFINE row == [todos[t] EXCEPT !.version = @ + 1, !.status = "completed"]
  <2>1. /\ row \in TodoRows /\ row.by = todos[t].by /\ row.status = "completed"
        /\ row.version < MaxVersion
    BY <1>0, <1>3 DEF CompleteTodo, TodoRows, Versions
  <2>2. todos' = [todos EXCEPT ![t] = row]
    BY <1>0, <1>3 DEF CompleteTodo
  <2> HIDE DEF row
  <2> QED BY <1>3, <2>1, <2>2, TodoChange DEF CompleteTodo
<1> QED BY <1>1, <1>2, <1>3

-------------------------------------------------------------------------------
(* Sessions come, and go with their transcript and not under a lock.       *)
LEMMA SessionApiKeeps == ConversationInv /\ SessionApi => ConversationInv'
<1> SUFFICES ASSUME ConversationInv, NEW s \in SessionIds, CreateSession(s) \/ DeleteSession(s)
             PROVE  ConversationInv'
  BY DEF SessionApi
<1>0. TypeOK /\ UNCHANGED <<todos, confirmations, turns, confirms>>
  BY DEF ConversationInv, CreateSession, DeleteSession
<1>1. TypeOK'
  BY <1>0 DEF TypeOK, CreateSession, DeleteSession, Opened
<1>2. /\ \A t \in TodoIds : TodoSound(t)'
      /\ \A c \in ConfirmationIds : ConfirmationSound(c)'
      /\ \A p, q \in Confirms : Exclusive(p, q)'
      /\ DeletionsConfirmed'
  BY <1>0 DEF ConversationInv, TodoSound, ConfirmationSound, Holds, Exclusive, DeletionsConfirmed,
              ConsumedFor
<1>3. CASE CreateSession(s)
  <2>1. \A x \in SessionIds : sessions'[x] = IF x = s THEN "open" ELSE sessions[x]
    BY <1>0, <1>3 DEF TypeOK, CreateSession, Opened
  <2>2. sessions[s] = "absent" /\ transcript' = transcript
    BY <1>3 DEF CreateSession
  <2>3. (\A m \in transcript : MessageSound(m))'
    BY <1>0, <2>1, <2>2 DEF ConversationInv, MessageSound, TypeOK, MessageRows
  <2>4. ASSUME NEW u \in Turns PROVE TurnSound(u)'
    <3>1. TurnSound(u)
      BY DEF ConversationInv
    <3> QED BY <1>0, <2>1, <2>2, <3>1 DEF TurnSound, Rows
  <2>5. ASSUME NEW p \in Confirms PROVE ConfirmSound(p)'
    <3>1. ConfirmSound(p) /\ confirms[p].session \in SessionIds \cup {None}
      BY <1>0 DEF ConversationInv, TypeOK, ConfirmStates
    <3> QED BY <1>0, <2>1, <2>2, <3>1 DEF ConfirmSound, Live, Found
  <2> QED BY <1>1, <1>2, <2>3, <2>4, <2>5 DEF ConversationInv
<1>4. CASE DeleteSession(s)
  <2>1. \A x \in SessionIds : sessions'[x] = IF x = s THEN "deleted" ELSE sessions[x]
    BY <1>0, <1>4 DEF TypeOK, DeleteSession
  <2>2. ~LocksSession(s) /\ transcript' = {m \in transcript : m.session # s}
    BY <1>4 DEF DeleteSession
  <2>3. (\A m \in transcript : MessageSound(m))'
    BY <1>0, <2>1, <2>2 DEF ConversationInv, MessageSound, TypeOK, MessageRows
  <2>4. ASSUME NEW u \in Turns PROVE TurnSound(u)'
    <3>1. TurnSound(u)
      BY DEF ConversationInv
    <3>2. CASE turns[u].step = "ok" /\ turns[u].session # s
      <4>1. Rows(u, turns[u].session) \subseteq transcript
            => Rows(u, turns[u].session) \subseteq transcript'
        BY <2>2, <3>2 DEF Rows
      <4>2. Rows(u, turns[u].session)' = Rows(u, turns[u].session)
        BY <1>0 DEF Rows
      <4> QED BY <1>0, <2>1, <3>1, <3>2, <4>1, <4>2 DEF TurnSound
    <3>3. CASE turns[u].step = "ok" /\ turns[u].session = s
      BY <1>0, <2>1, <3>1, <3>3 DEF TurnSound
    <3>4. CASE turns[u].step # "ok"
      BY <1>0, <3>1, <3>4 DEF TurnSound
    <3> QED BY <3>2, <3>3, <3>4
  <2>5. ASSUME NEW p \in Confirms PROVE ConfirmSound(p)'
    <3>1. ConfirmSound(p) /\ confirms[p].session \in SessionIds \cup {None}
      BY <1>0 DEF ConversationInv, TypeOK, ConfirmStates
    <3>2. confirms[p].step = "commit" => confirms[p].session # s
      BY <2>2 DEF LocksSession
    <3> QED BY <1>0, <2>1, <3>1, <3>2 DEF ConfirmSound, Live, Found
  <2> QED BY <1>1, <1>2, <2>3, <2>4, <2>5 DEF ConversationInv
<1> QED BY <1>3, <1>4

-------------------------------------------------------------------------------
(* A confirmation outside a transaction: only what has not been saved can  *)
(* become another.                                                         *)
LEMMA ConfirmationChange ==
    ASSUME ConversationInv, NEW c \in ConfirmationIds, NEW row \in ConfirmationRows,
           row.by = confirmations[c].by,
           row.state # "absent" => row.todo \in TodoIds,
           row.state = "consumed" => confirmations[c].state = "consumed",
           confirmations[c].state \in {"open", "consumed"} =>
               /\ row.state = confirmations[c].state
               /\ row.todo = confirmations[c].todo
               /\ row.version = confirmations[c].version,
           confirmations[c].state = "draft" /\ confirmations[c].by # None => row.state = "draft",
           confirmations' = [confirmations EXCEPT ![c] = row],
           UNCHANGED <<todos, sessions, transcript, turns, confirms>>
    PROVE  ConversationInv'
<1>0. TypeOK
  BY DEF ConversationInv
<1>1. TypeOK'
  BY <1>0 DEF TypeOK
<1>2. \A x \in ConfirmationIds : confirmations'[x] = IF x = c THEN row ELSE confirmations[x]
  BY <1>0 DEF TypeOK
<1>3. (\A t \in TodoIds : TodoSound(t)') /\ (\A m \in transcript : MessageSound(m))'
  BY DEF ConversationInv, TodoSound, MessageSound
<1>4. ASSUME NEW x \in ConfirmationIds PROVE ConfirmationSound(x)'
  <2>1. ConfirmationSound(x)
    BY DEF ConversationInv
  <2> QED BY <1>2, <2>1 DEF ConfirmationSound, Holds
<1>5. ASSUME NEW u \in Turns PROVE TurnSound(u)'
  <2>1. TurnSound(u) /\ u # None
    BY NoneIsNone DEF ConversationInv
  <2> QED BY <1>2, <2>1 DEF TurnSound, Rows
<1>6. ASSUME NEW p \in Confirms PROVE ConfirmSound(p)'
  <2>1. ConfirmSound(p)
    BY DEF ConversationInv
  <2>2. CASE confirms[p].step = "idle"
    BY <2>2 DEF ConfirmSound, Consuming, Deleting
  <2>3. CASE confirms[p].step # "idle"
    <3> DEFINE x == confirms[p].confirmation
    <3>1. /\ x \in ConfirmationIds
          /\ confirmations'[x].state = confirmations[x].state
          /\ confirmations'[x].todo = confirmations[x].todo
          /\ confirmations'[x].version = confirmations[x].version
      BY <1>2, <2>1, <2>3 DEF ConfirmSound
    <3> QED BY <2>1, <2>3, <3>1 DEF ConfirmSound, Live, Found
  <2> QED BY <2>2, <2>3
<1>7. ASSUME NEW p \in Confirms, NEW q \in Confirms PROVE Exclusive(p, q)'
  <2>1. Exclusive(p, q) /\ ConfirmSound(p) /\ ConfirmSound(q)
    BY DEF ConversationInv
  <2>2. \A r \in {p, q} : confirms[r].step \in Deleting =>
           confirmations'[confirms[r].confirmation].todo = confirmations[confirms[r].confirmation].todo
    BY <1>2, <2>1 DEF ConfirmSound, Deleting, Consuming
  <2> QED BY <2>1, <2>2 DEF Exclusive
<1>8. DeletionsConfirmed'
  <2>1. \A t \in TodoIds : ConsumedFor(t)' = ConsumedFor(t)
    BY <1>2 DEF ConsumedFor
  <2>2. \A t \in TodoIds : \A x \in ConsumedFor(t) : confirmations'[x].version = confirmations[x].version
    BY <1>2 DEF ConsumedFor
  <2> QED BY <2>1, <2>2 DEF ConversationInv, DeletionsConfirmed
<1> QED BY <1>1, <1>3, <1>4, <1>5, <1>6, <1>7, <1>8 DEF ConversationInv

(* The manual delete's entry and the clock.                                *)
LEMMA ConfirmationStepKeeps ==
    ASSUME ConversationInv, NEW c \in ConfirmationIds, ConfirmationStep(c)
    PROVE  ConversationInv'
<1>0. /\ confirmations[c] \in ConfirmationRows /\ ConfirmationSound(c)
      /\ confirmations \in [ConfirmationIds -> ConfirmationRows]
      /\ NoConfirmation \in ConfirmationRows
  <2>1. NoConfirmation \in ConfirmationRows
    BY VersionBound DEF NoConfirmation, ConfirmationRows, Versions
  <2> QED BY <2>1 DEF ConversationInv, TypeOK
<1>1. ASSUME NEW t \in TodoIds, DraftConfirmation(c, t) PROVE ConversationInv'
  <2> DEFINE row == [state |-> "draft", todo |-> t, version |-> todos[t].version,
                     expired |-> FALSE, by |-> None]
  <2>1. row \in ConfirmationRows
    <3>1. todos[t].version \in Versions
      BY DEF ConversationInv, TypeOK, TodoRows
    <3> QED BY <3>1 DEF ConfirmationRows
  <2>2. confirmations' = [confirmations EXCEPT ![c] = row]
    BY <1>1 DEF DraftConfirmation, NewConfirmationRequest
  <2>3. confirmations[c].state = "absent" /\ confirmations[c].by = None
    BY <1>1 DEF DraftConfirmation, NoConfirmation
  <2>4. row.by = None /\ row.state = "draft" /\ row.todo \in TodoIds
    OBVIOUS
  <2> HIDE DEF row
  <2> QED BY <1>1, <2>1, <2>2, <2>3, <2>4, ConfirmationChange DEF DraftConfirmation
<1>2. CASE SaveConfirmation(c)
  <2>1. CASE confirmations' = Saved(c)
    <3> DEFINE row == [confirmations[c] EXCEPT !.state = "open"]
    <3>1. /\ row \in ConfirmationRows /\ row.by = confirmations[c].by
          /\ row.todo = confirmations[c].todo /\ row.state = "open"
      BY <1>0 DEF ConfirmationRows
    <3>2. confirmations' = [confirmations EXCEPT ![c] = row]
      BY <1>0, <2>1 DEF Saved
    <3> HIDE DEF row
    <3> QED BY <1>0, <1>2, <3>1, <3>2, ConfirmationChange DEF SaveConfirmation, ConfirmationSound
  <2>2. CASE confirmations' = [confirmations EXCEPT ![c] = NoConfirmation]
    <3>1. NoConfirmation.by = None /\ NoConfirmation.state = "absent"
      BY DEF NoConfirmation
    <3> QED BY <1>0, <1>2, <2>2, <3>1, ConfirmationChange DEF SaveConfirmation
  <2> QED BY <1>2, <2>1, <2>2 DEF SaveConfirmation
<1>3. CASE Expire(c)
  <2> DEFINE row == [confirmations[c] EXCEPT !.expired = TRUE]
  <2>1. /\ row \in ConfirmationRows /\ row.by = confirmations[c].by
        /\ row.todo = confirmations[c].todo /\ row.state = confirmations[c].state
        /\ row.version = confirmations[c].version
    BY <1>0 DEF ConfirmationRows
  <2>2. confirmations' = [confirmations EXCEPT ![c] = row]
    BY <1>0, <1>3 DEF Expire
  <2> HIDE DEF row
  <2> QED BY <1>0, <1>3, <2>1, <2>2, ConfirmationChange DEF Expire, ConfirmationSound
<1> QED BY <1>1, <1>2, <1>3 DEF ConfirmationStep

-------------------------------------------------------------------------------
(* A confirm's statement: it holds what it checks, and alone.              *)
LEMMA ConfirmChange ==
    ASSUME ConversationInv, NEW p \in Confirms, NEW row \in ConfirmStates,
           confirms' = [confirms EXCEPT ![p] = row],
           UNCHANGED <<todos, sessions, transcript, confirmations, turns>>,
           ConfirmSound(p)',
           row.step \in Consuming => confirms[p].confirmation = row.confirmation
                                     \/ confirms[p].step = "idle",
           row.step \in Consuming /\ confirms[p].step \notin Consuming =>
               ~LocksConfirmation(row.confirmation),
           row.step \in Deleting /\ confirms[p].step \notin Deleting =>
               ~LocksTodo(confirmations[row.confirmation].todo)
    PROVE  ConversationInv'
<1>0. TypeOK /\ \A q \in Confirms : confirms'[q] = IF q = p THEN row ELSE confirms[q]
  BY DEF ConversationInv, TypeOK
<1>1. TypeOK'
  BY <1>0 DEF TypeOK
<1>2. /\ (\A t \in TodoIds : TodoSound(t)') /\ (\A m \in transcript : MessageSound(m))'
      /\ (\A c \in ConfirmationIds : ConfirmationSound(c)') /\ (\A u \in Turns : TurnSound(u)')
      /\ DeletionsConfirmed'
  <2>1. (\A t \in TodoIds : TodoSound(t)') /\ DeletionsConfirmed'
    BY DEF ConversationInv, TodoSound, DeletionsConfirmed, ConsumedFor
  <2>2. (\A m \in transcript : MessageSound(m))' /\ \A c \in ConfirmationIds : ConfirmationSound(c)'
    BY DEF ConversationInv, MessageSound, ConfirmationSound, Holds
  <2>3. \A u \in Turns : TurnSound(u)'
    BY DEF ConversationInv, TurnSound, Rows
  <2> QED BY <2>1, <2>2, <2>3
<1>3. ASSUME NEW q \in Confirms PROVE ConfirmSound(q)'
  <2>1. CASE q = p
    BY <2>1
  <2>2. CASE q # p
    BY <1>0, <2>2 DEF ConversationInv, ConfirmSound, Live, Found
  <2> QED BY <2>1, <2>2
<1>4. ASSUME NEW q \in Confirms, q # p PROVE Exclusive(p, q)' /\ Exclusive(q, p)'
  <2>1. Exclusive(p, q) /\ confirms'[p] = row /\ confirms'[q] = confirms[q]
    BY <1>0, <1>4 DEF ConversationInv
  <2>2. ~(/\ row.step \in Consuming /\ confirms[q].step \in Consuming
          /\ row.confirmation = confirms[q].confirmation)
    BY <1>4, <2>1 DEF Exclusive, LocksConfirmation, Consuming
  <2>3. ~(/\ row.step \in Deleting /\ confirms[q].step \in Deleting
          /\ confirmations[row.confirmation].todo = confirmations[confirms[q].confirmation].todo)
    BY <1>4, <2>1 DEF Exclusive, LocksTodo, Deleting, Consuming
  <2> QED BY <2>1, <2>2, <2>3 DEF Exclusive
<1>5. ASSUME NEW q \in Confirms, NEW r \in Confirms PROVE Exclusive(q, r)'
  <2>1. CASE q = p /\ r = p
    BY <2>1 DEF Exclusive
  <2>2. CASE q # p /\ r # p
    BY <1>0, <2>2 DEF ConversationInv, Exclusive
  <2> QED BY <1>4, <2>1, <2>2
<1> QED BY <1>1, <1>2, <1>3, <1>5 DEF ConversationInv

(* The same for a call that only goes on, or ends.                         *)
LEMMA AdvanceRow ==
    ASSUME ConversationInv, NEW p \in Confirms,
           NEW step \in {"check", "delete", "append", "commit"}, Advance(p, step)
    PROVE  \E row \in ConfirmStates :
              /\ confirms' = [confirms EXCEPT ![p] = row] /\ confirms'[p] = row
              /\ row.step = step /\ row.confirmation = confirms[p].confirmation
              /\ row.session = confirms[p].session
<1> DEFINE row == [confirms[p] EXCEPT !.step = step]
<1>1. /\ confirms[p] \in ConfirmStates /\ confirms \in [Confirms -> ConfirmStates]
  BY DEF ConversationInv, TypeOK
<1>2. row.step = step /\ row.confirmation = confirms[p].confirmation
      /\ row.session = confirms[p].session
  BY <1>1 DEF ConfirmStates
<1>3. row \in ConfirmStates
  <2>1. step \in {"idle", "get", "consume", "check", "delete", "append", "commit"}
    OBVIOUS
  <2> QED BY <1>1, <2>1, Zenon DEF ConfirmStates
<1>4. confirms' = [confirms EXCEPT ![p] = row]
  BY <1>1 DEF Advance
<1> HIDE DEF row
<1> QED BY <1>1, <1>2, <1>3, <1>4

(* A call that has ended.                                                  *)
LEMMA IdleConfirm == NoConfirm \in ConfirmStates /\ NoConfirm.step = "idle"
BY DEF NoConfirm, ConfirmStates

(* A confirm up to its commit.                                             *)
LEMMA ConfirmGoesOn ==
    ASSUME ConversationInv, NEW p \in Confirms,
           \/ \E c \in ConfirmationIds, s \in SessionIds \cup {None} : StartConfirm(p, c, s)
           \/ GetConfirmation(p) \/ Consume(p) \/ CheckTodo(p) \/ DeleteTodo(p)
           \/ AppendOutcome(p) \/ ConfirmFails(p)
    PROVE  ConversationInv'
<1>0. ConfirmSound(p) /\ confirms[p] \in ConfirmStates /\ confirms \in [Confirms -> ConfirmStates]
  BY DEF ConversationInv, TypeOK
<1>1. ASSUME NEW c \in ConfirmationIds, NEW s \in SessionIds \cup {None}, StartConfirm(p, c, s)
      PROVE  ConversationInv'
  <2>1. PICK row : row = [NoConfirm EXCEPT !.step = "get", !.confirmation = c, !.session = s,
                                          !.late = confirmations[c].expired]
    OBVIOUS
  <2>2. row.step = "get" /\ row.confirmation = c /\ row.session = s
    BY <2>1, IdleConfirm DEF ConfirmStates
  <2>3. row \in ConfirmStates
    <3>1. /\ "get" \in {"idle", "get", "consume", "check", "delete", "append", "commit"}
          /\ confirmations[c].expired \in BOOLEAN
      BY DEF ConversationInv, TypeOK, ConfirmationRows
    <3> QED BY <2>1, <3>1, IdleConfirm, Zenon DEF ConfirmStates
  <2>4. confirms' = [confirms EXCEPT ![p] = row] /\ confirms'[p] = row
    BY <1>0, <1>1, <2>1 DEF StartConfirm
  <2>5. ConfirmSound(p)'
    BY <1>1, <2>2, <2>4 DEF StartConfirm, ConfirmSound, Consuming, Deleting
  <2> QED BY <1>1, <2>2, <2>3, <2>4, <2>5, ConfirmChange DEF StartConfirm, Consuming, Deleting
<1>2. CASE GetConfirmation(p)
  <2>1. PICK row : row = [confirms[p] EXCEPT !.step = "consume",
                             !.inTime = ~confirmations[confirms[p].confirmation].expired]
    OBVIOUS
  <2>2. row.step = "consume" /\ row.confirmation = confirms[p].confirmation
    BY <1>0, <2>1 DEF ConfirmStates
  <2>3. row \in ConfirmStates
    <3>1. "consume" \in {"idle", "get", "consume", "check", "delete", "append", "commit"}
          /\ (~confirmations[confirms[p].confirmation].expired) \in BOOLEAN
      OBVIOUS
    <3> QED BY <1>0, <2>1, <3>1, Zenon DEF ConfirmStates
  <2>4. confirms' = [confirms EXCEPT ![p] = row] /\ confirms'[p] = row
    BY <1>0, <1>2, <2>1 DEF GetConfirmation
  <2>5. ConfirmSound(p)'
    BY <1>0, <1>2, <2>2, <2>4 DEF GetConfirmation, ConfirmSound, Consuming, Deleting
  <2> QED BY <1>2, <2>2, <2>3, <2>4, <2>5, ConfirmChange DEF GetConfirmation, Consuming, Deleting
<1>3. CASE Consume(p)
  <2>1. PICK row \in ConfirmStates :
              /\ confirms' = [confirms EXCEPT ![p] = row] /\ confirms'[p] = row
              /\ row.step = "check" /\ row.confirmation = confirms[p].confirmation
    BY <1>3, AdvanceRow DEF Consume
  <2>2. ConfirmSound(p)'
    BY <1>0, <1>3, <2>1 DEF Consume, ConfirmSound, Consuming, Deleting
  <2> QED BY <1>3, <2>1, <2>2, ConfirmChange DEF Consume, Consuming, Deleting
<1>4. CASE CheckTodo(p)
  <2>1. PICK row \in ConfirmStates :
              /\ confirms' = [confirms EXCEPT ![p] = row] /\ confirms'[p] = row
              /\ row.step = "delete" /\ row.confirmation = confirms[p].confirmation
    BY <1>4, AdvanceRow DEF CheckTodo
  <2>2. ConfirmSound(p)'
    BY <1>0, <1>4, <2>1 DEF CheckTodo, ConfirmSound, Consuming, Deleting
  <2> QED BY <1>4, <2>1, <2>2, ConfirmChange DEF CheckTodo, Consuming, Deleting
<1>5. CASE DeleteTodo(p)
  <2>1. PICK row \in ConfirmStates :
              /\ confirms' = [confirms EXCEPT ![p] = row] /\ confirms'[p] = row
              /\ row.step = AfterDelete(p) /\ row.confirmation = confirms[p].confirmation
              /\ row.session = confirms[p].session
    BY <1>5, AdvanceRow DEF DeleteTodo, AfterDelete
  <2>2. ConfirmSound(p)'
    BY <1>0, <1>5, <2>1 DEF DeleteTodo, AfterDelete, ConfirmSound, Live, Consuming, Deleting
  <2> QED BY <1>5, <2>1, <2>2, ConfirmChange DEF DeleteTodo, Consuming, Deleting
<1>6. CASE AppendOutcome(p)
  <2>1. PICK row \in ConfirmStates :
              /\ confirms' = [confirms EXCEPT ![p] = row] /\ confirms'[p] = row
              /\ row.step = "commit" /\ row.confirmation = confirms[p].confirmation
              /\ row.session = confirms[p].session
    BY <1>6, AdvanceRow DEF AppendOutcome
  <2>2. ConfirmSound(p)'
    BY <1>0, <1>6, <2>1 DEF AppendOutcome, ConfirmSound, Live, Found, Consuming, Deleting
  <2> QED BY <1>6, <2>1, <2>2, ConfirmChange DEF AppendOutcome, Consuming, Deleting
<1>7. CASE ConfirmFails(p)
  <2>1. confirms' = [confirms EXCEPT ![p] = NoConfirm] /\ confirms'[p] = NoConfirm
    BY <1>0, <1>7 DEF ConfirmFails
  <2>2. ConfirmSound(p)'
    BY <2>1, IdleConfirm DEF ConfirmSound, Consuming, Deleting
  <2> QED BY <1>7, <2>1, <2>2, IdleConfirm, ConfirmChange DEF ConfirmFails, Consuming, Deleting
<1> QED BY <1>1, <1>2, <1>3, <1>4, <1>5, <1>6, <1>7

(* The commit of a confirm: its todo was live at the confirmation's        *)
(* version, and no other call had consumed this confirmation or checked    *)
(* another of the same todo.                                               *)
LEMMA CommitKeeps ==
    ASSUME ConversationInv, NEW p \in Confirms, CommitConfirm(p)
    PROVE  ConversationInv'
<1>0. TypeOK /\ ConfirmSound(p) /\ confirms[p].step = "commit" /\ confirms[p] \in ConfirmStates
  BY DEF ConversationInv, CommitConfirm, TypeOK
<1>1. PICK C \in ConfirmationIds, S \in SessionIds \cup {None} :
         C = confirms[p].confirmation /\ S = confirms[p].session
  BY <1>0 DEF ConfirmSound, ConfirmStates
<1>2. ConfirmationSound(C) /\ confirmations[C].state = "open"
  BY <1>0, <1>1 DEF ConversationInv, ConfirmSound, Consuming
<1>3. PICK T \in TodoIds : T = confirmations[C].todo
  BY <1>2 DEF ConfirmationSound
<1>4. /\ confirmations[C].state = "open" /\ T = confirmations[C].todo
      /\ Live(T) /\ todos[T].version = confirmations[C].version
      /\ S # None => Found(S)
  BY <1>0, <1>1, <1>2, <1>3 DEF ConfirmSound, Consuming, Deleting
<1>5. /\ TodoSound(T) /\ todos[T].version \in Nat /\ todos[T].status # "deleted"
      /\ todos[T].version + 1 \in Versions
  BY <1>0, <1>4, VersionBound DEF ConversationInv, TypeOK, TodoRows, Versions, TodoSound, Live
<1>6. /\ confirmations' = [confirmations EXCEPT ![C].state = "consumed"]
       /\ todos' = [todos EXCEPT ![T].status = "deleted", ![T].version = @ + 1]
  BY <1>1, <1>3, Zenon DEF CommitConfirm
<1>7. /\ \A x \in TodoIds : x # T => todos'[x] = todos[x]
      /\ todos'[T] \in TodoRows
      /\ todos'[T].status = "deleted" /\ todos'[T].version = todos[T].version + 1
      /\ todos'[T].by = todos[T].by /\ todos' \in [TodoIds -> TodoRows]
  BY <1>0, <1>5, <1>6 DEF TypeOK, TodoRows
<1>8. /\ \A x \in ConfirmationIds : x # C => confirmations'[x] = confirmations[x]
      /\ confirmations'[C].state = "consumed" /\ confirmations'[C].todo = T
      /\ confirmations'[C].version = confirmations[C].version
      /\ confirmations'[C].by = confirmations[C].by
      /\ confirmations' \in [ConfirmationIds -> ConfirmationRows]
  <2>1. confirmations[C] \in ConfirmationRows /\ confirmations \in [ConfirmationIds -> ConfirmationRows]
    BY <1>0 DEF TypeOK
  <2>2. PICK row : row = [confirmations[C] EXCEPT !.state = "consumed"]
    OBVIOUS
  <2>3. row.state = "consumed" /\ row.todo = T /\ row.version = confirmations[C].version
        /\ row.by = confirmations[C].by
    BY <1>3, <2>1, <2>2 DEF ConfirmationRows
  <2>4. row \in ConfirmationRows
    <3>1. "consumed" \in {"absent", "draft", "open", "consumed"}
      OBVIOUS
    <3> QED BY <2>1, <2>2, <3>1, Zenon DEF ConfirmationRows
  <2>5. confirmations' = [confirmations EXCEPT ![C] = row]
    BY <1>6, <2>1, <2>2
  <2> QED BY <2>1, <2>3, <2>4, <2>5
<1>9. /\ \A q \in Confirms : confirms'[q] = IF q = p THEN NoConfirm ELSE confirms[q]
      /\ confirms' \in [Confirms -> ConfirmStates]
      /\ UNCHANGED <<sessions, turns>> /\ transcript \subseteq transcript'
  BY <1>0, IdleConfirm DEF CommitConfirm, TypeOK
<1>10. \A m \in transcript' : m \in transcript \/ /\ m \in MessageRows /\ m.from = p
                                                  /\ m.session = S /\ S # None
  <2>1. transcript' = transcript \cup
           {[session |-> x, role |-> "assistant", from |-> p, intent |-> None] : x \in {S} \cap SessionIds}
    BY <1>1, Zenon DEF CommitConfirm
  <2> SUFFICES ASSUME NEW x \in {S} \cap SessionIds,
                      NEW m, m = [session |-> x, role |-> "assistant", from |-> p, intent |-> None]
               PROVE  m \in MessageRows /\ m.from = p /\ m.session = S /\ S # None
    BY <2>1, Zenon
  <2>2. m \in MessageRows
    BY DEF MessageRows
  <2> QED BY <2>2, NoneIsNone
<1>11. TypeOK'
  BY <1>0, <1>7, <1>8, <1>9, <1>10 DEF TypeOK
<1>12. \A x \in TodoIds : TodoSound(x)'
  <2> TAKE x \in TodoIds
  <2>1. TodoSound(x)
    BY DEF ConversationInv
  <2>2. todos[T].status # "absent"
    BY <1>4, <1>1 DEF Live
  <2> QED BY <1>7, <1>9, <2>1, <2>2 DEF TodoSound
<1>13. (\A m \in transcript : MessageSound(m))'
  <2>1. ASSUME NEW m \in transcript' PROVE MessageSound(m)'
    <3>1. CASE m \in transcript
      BY <1>9, <3>1 DEF ConversationInv, MessageSound
    <3>2. CASE m \notin transcript
      <4>1. m.from = p /\ m.session = S /\ sessions[S] = "open"
        BY <1>4, <1>1, <1>10, <3>2 DEF Found
      <4> QED BY <1>9, <4>1, CallsApart DEF MessageSound
    <3> QED BY <3>1, <3>2
  <2> QED BY <2>1
<1>14. \A x \in ConfirmationIds : ConfirmationSound(x)'
  <2> TAKE x \in ConfirmationIds
  <2>1. ConfirmationSound(x) /\ confirmations[C].state = "open"
    BY <1>4, <1>1 DEF ConversationInv
  <2> QED BY <1>8, <1>9, <2>1 DEF ConfirmationSound, Holds
<1>15. \A u \in Turns : TurnSound(u)'
  <2> TAKE u \in Turns
  <2>1. TurnSound(u) /\ confirmations[C].state = "open"
    BY <1>4, <1>1 DEF ConversationInv
  <2>2. \A x \in TodoIds : todos'[x].by = todos[x].by
    BY <1>7
  <2>3. Rows(u, turns[u].session)' = Rows(u, turns[u].session)
    BY <1>9 DEF Rows
  <2>4. turns[u].step = "ok" =>
           Rows(u, turns[u].session) \subseteq transcript' \/ sessions[turns[u].session] = "deleted"
    BY <1>9, <2>1 DEF TurnSound
  <2> QED BY <1>8, <1>9, <2>1, <2>2, <2>3, <2>4 DEF TurnSound
<1>16. \A q \in Confirms : ConfirmSound(q)'
  <2> TAKE q \in Confirms
  <2>1. CASE q = p
    BY <1>9, <2>1, IdleConfirm DEF ConfirmSound, Consuming, Deleting
  <2>2. CASE q # p
    <3>1. ConfirmSound(q) /\ Exclusive(p, q) /\ confirms'[q] = confirms[q]
      BY <1>9, <2>2 DEF ConversationInv
    <3>2. confirms[q].step \in Consuming => confirms[q].confirmation # C
      BY <1>0, <1>1, <2>2, <3>1 DEF Exclusive, Consuming
    <3>3. confirms[q].step \in Deleting => confirmations[confirms[q].confirmation].todo # T
      BY <1>0, <1>1, <1>3, <2>2, <3>1 DEF Exclusive, Deleting
    <3>4. confirms[q].step \in Deleting =>
             confirmations[confirms[q].confirmation].todo \in TodoIds
      BY <3>1 DEF ConversationInv, ConfirmationSound, ConfirmSound, Deleting
    <3> QED BY <1>7, <1>8, <1>9, <3>1, <3>2, <3>3, <3>4
            DEF ConfirmSound, Live, Found, Consuming, Deleting
  <2> QED BY <2>1, <2>2
<1>17. \A q, r \in Confirms : Exclusive(q, r)'
  <2> TAKE q, r \in Confirms
  <2>1. CASE q # p /\ r # p
    <3>1. Exclusive(q, r) /\ ConfirmSound(q) /\ ConfirmSound(r)
          /\ confirms'[q] = confirms[q] /\ confirms'[r] = confirms[r]
      BY <1>9, <2>1 DEF ConversationInv
    <3>2. \A v \in {q, r} : confirms[v].step \in Deleting =>
             confirmations'[confirms[v].confirmation].todo = confirmations[confirms[v].confirmation].todo
      BY <1>1, <1>8, <1>3, <3>1 DEF ConfirmSound, Deleting
    <3> QED BY <3>1, <3>2 DEF Exclusive
  <2>2. CASE q = p \/ r = p
    BY <1>9, <2>2, IdleConfirm DEF Exclusive, Consuming, Deleting
  <2> QED BY <2>1, <2>2
<1>18. DeletionsConfirmed'
  <2>1. ConsumedFor(T) = {}
    BY <1>5, <1>1 DEF ConversationInv, DeletionsConfirmed
  <2>2. ConsumedFor(T)' = {C}
    BY <1>1, <1>8, <2>1 DEF ConsumedFor
  <2>3. \A x \in TodoIds : x # T => ConsumedFor(x)' = ConsumedFor(x)
    BY <1>4, <1>1, <1>8 DEF ConsumedFor
  <2>4. todos'[T].version = confirmations'[C].version + 1
    BY <1>4, <1>1, <1>7, <1>8
  <2>5. \A x \in TodoIds : x # T => \A y \in ConsumedFor(x) : confirmations'[y] = confirmations[y]
    BY <1>4, <1>1, <1>8 DEF ConsumedFor
  <2>6. ASSUME NEW x \in TodoIds, x # T
        PROVE  IF todos'[x].status = "deleted"
               THEN \E y \in ConfirmationIds : /\ ConsumedFor(x)' = {y}
                                               /\ todos'[x].version = confirmations'[y].version + 1
               ELSE ConsumedFor(x)' = {}
    BY <1>7, <2>3, <2>5, <2>6 DEF ConversationInv, DeletionsConfirmed
  <2> QED BY <1>7, <2>2, <2>4, <2>6 DEF DeletionsConfirmed
<1> QED BY <1>11, <1>12, <1>13, <1>14, <1>15, <1>16, <1>17, <1>18 DEF ConversationInv

-------------------------------------------------------------------------------
(* A turn before its transaction: it only drafts a confirmation or drops   *)
(* its draft, which no other call can have seen.                           *)
LEMMA TurnGoesOn ==
    ASSUME ConversationInv, NEW u \in Turns, NEW row \in TurnStates,
           turns' = [turns EXCEPT ![u] = row], turns[u].step # "ok", row.step # "ok",
           confirmations' \in [ConfirmationIds -> ConfirmationRows],
           \A c \in ConfirmationIds : confirmations'[c] # confirmations[c] =>
              /\ \/ confirmations[c].state = "absent"
                 \/ confirmations[c].state = "draft" /\ confirmations[c].by = u
              /\ confirmations'[c].state \in {"absent", "draft"}
              /\ confirmations'[c].state = "draft" => confirmations'[c].todo \in TodoIds
              /\ confirmations'[c].by \in {None, u},
           \A c \in ConfirmationIds : confirmations'[c].by = u =>
              confirmations'[c].state = "draft" /\ Holds(u, c)',
           TurnSound(u)',
           UNCHANGED <<todos, sessions, transcript, confirms>>
    PROVE  ConversationInv'
<1>1. TypeOK /\ u # None
  BY NoneIsNone DEF ConversationInv
<1>2. TypeOK' /\ \A v \in Turns : turns'[v] = IF v = u THEN row ELSE turns[v]
  BY <1>1 DEF TypeOK
<1>3. (\A t \in TodoIds : TodoSound(t)') /\ (\A m \in transcript : MessageSound(m))'
  <2>1. \A t \in TodoIds : todos[t].by \in Turns \cup {None} /\ TodoSound(t)
    BY <1>1 DEF ConversationInv, TypeOK, TodoRows
  <2>2. \A t \in TodoIds : TodoSound(t)'
    BY <1>2, <2>1 DEF TodoSound
  <2>3. (\A m \in transcript : MessageSound(m))'
    BY <1>2 DEF ConversationInv, MessageSound
  <2> QED BY <2>2, <2>3
<1>4. ASSUME NEW c \in ConfirmationIds PROVE ConfirmationSound(c)'
  <2>1. /\ ConfirmationSound(c) /\ confirmations[c].by \in Turns \cup {None}
        /\ confirmations'[c].by \in Turns \cup {None}
    BY <1>1, <1>2 DEF ConversationInv, TypeOK, ConfirmationRows
  <2>2. CASE confirmations'[c] # confirmations[c]
    BY <1>1, <2>2 DEF ConfirmationSound
  <2>3. CASE confirmations'[c] = confirmations[c] /\ confirmations'[c].by = u
    BY <2>1, <2>3 DEF ConfirmationSound
  <2>4. CASE confirmations'[c] = confirmations[c] /\ confirmations'[c].by # u
    BY <1>2, <2>1, <2>4 DEF ConfirmationSound, Holds
  <2> QED BY <2>2, <2>3, <2>4
<1>5. ASSUME NEW v \in Turns PROVE TurnSound(v)'
  <2>1. CASE v = u
    BY <2>1
  <2>2. CASE v # u
    <3>1. TurnSound(v) /\ turns'[v] = turns[v]
      BY <1>2, <2>2 DEF ConversationInv
    <3>2. Rows(v, turns[v].session)' = Rows(v, turns[v].session)
      BY <3>1 DEF Rows
    <3> QED BY <2>2, <3>1, <3>2 DEF TurnSound
  <2> QED BY <2>1, <2>2
<1>6. \A c \in ConfirmationIds :
         /\ confirmations[c].state \in {"open", "consumed"} => confirmations'[c] = confirmations[c]
         /\ confirmations'[c].state = "consumed" => confirmations'[c] = confirmations[c]
  OBVIOUS
<1>7. \A p \in Confirms : ConfirmSound(p)'
  BY <1>6 DEF ConversationInv, ConfirmSound, Live, Found, Consuming, Deleting
<1>8. \A p, q \in Confirms : Exclusive(p, q)'
  <2> TAKE p, q \in Confirms
  <2>1. Exclusive(p, q) /\ ConfirmSound(p) /\ ConfirmSound(q)
    BY DEF ConversationInv
  <2> QED BY <1>6, <2>1 DEF Exclusive, ConfirmSound, Deleting
<1>9. DeletionsConfirmed'
  <2>1. \A t \in TodoIds : ConsumedFor(t)' = ConsumedFor(t)
    BY <1>6 DEF ConsumedFor
  <2> QED BY <1>6, <2>1 DEF ConversationInv, DeletionsConfirmed, ConsumedFor
<1> QED BY <1>2, <1>3, <1>4, <1>5, <1>7, <1>8, <1>9 DEF ConversationInv

(* Where a turn stands before its transaction; None is no confirmation.    *)
LEMMA TurnFacts ==
    ASSUME ConversationInv, NEW u \in Turns
    PROVE  /\ turns[u] \in TurnStates /\ turns \in [Turns -> TurnStates] /\ TurnSound(u)
           /\ u # None /\ None \notin ConfirmationIds
           /\ confirmations \in [ConfirmationIds -> ConfirmationRows]
           /\ \A c \in ConfirmationIds : ConfirmationSound(c)
           /\ \A c \in ConfirmationIds : turns[u].step # "ok" /\ confirmations[c].by = u =>
                 confirmations[c].state = "draft" /\ Holds(u, c)
BY NoneIsNone DEF ConversationInv, TypeOK, ConfirmationSound

(* A turn's row.                                                           *)
LEMMA TurnTyped == ASSUME ConversationInv, NEW u \in Turns PROVE turns[u] \in TurnStates
BY DEF ConversationInv, TypeOK

(* A turn starts.                                                          *)
LEMMA StartKeeps ==
    ASSUME ConversationInv, NEW u \in Turns, NEW s \in SessionIds \cup {None}, StartTurn(u, s)
    PROVE  ConversationInv'
<1>1. PICK step \in {"model", "error"} :
         turns' = [turns EXCEPT ![u].session = s, ![u].step = step]
  BY DEF StartTurn
<1>2. PICK row : row = [turns[u] EXCEPT !.session = s, !.step = step]
  OBVIOUS
<1>3. /\ row.step = step /\ row.intent = turns[u].intent /\ row.effect = turns[u].effect
      /\ row.confirmation = turns[u].confirmation
  BY <1>2, TurnFacts DEF TurnStates
<1>4. row \in TurnStates
  <2>1. /\ step \in {"idle", "model", "search", "write", "ok", "error"}
        /\ s \in SessionIds \cup {None}
    OBVIOUS
  <2> QED BY <1>2, <2>1, TurnTyped, ZenonT(30) DEF TurnStates
<1>5. turns' = [turns EXCEPT ![u] = row] /\ turns'[u] = row
  BY <1>1, <1>2, TurnFacts
<1>6. turns[u].step = "idle" /\ turns[u].effect = "none" /\ turns[u].confirmation = None
  BY DEF StartTurn, NoTurn
<1>7. \A c \in ConfirmationIds : confirmations[c].by # u
  BY <1>6, TurnFacts DEF Holds
<1>8. TurnSound(u)'
  BY <1>3, <1>5, <1>6 DEF TurnSound
<1> QED BY <1>3, <1>4, <1>5, <1>6, <1>7, <1>8, TurnFacts, TurnGoesOn DEF StartTurn

(* The model answers.                                                      *)
LEMMA AnswerKeeps ==
    ASSUME ConversationInv, NEW u \in Turns, ModelAnswers(u)
    PROVE  ConversationInv'
<1>1. PICK intent \in ResolvedIntents, step \in {"search", "write"}, effect \in {"create", "none"} :
         /\ turns' = [turns EXCEPT ![u].step = step, ![u].effect = effect, ![u].intent = intent]
         /\ step = "search" <=> intent = "todo.delete"
         /\ effect = "create" <=> intent = "todo.create"
  BY DEF ModelAnswers
<1>2. PICK row : row = [turns[u] EXCEPT !.step = step, !.effect = effect, !.intent = intent]
  OBVIOUS
<1>3. /\ row.step = step /\ row.intent = intent /\ row.effect = effect
      /\ row.confirmation = turns[u].confirmation
  BY <1>2, TurnFacts DEF TurnStates
<1>4. row \in TurnStates
  <2>1. /\ step \in {"idle", "model", "search", "write", "ok", "error"}
        /\ effect \in {"none", "create", "confirmation"} /\ intent \in ResolvedIntents \cup {None}
    OBVIOUS
  <2> QED BY <1>2, <2>1, TurnTyped, ZenonT(30) DEF TurnStates
<1>5. turns' = [turns EXCEPT ![u] = row] /\ turns'[u] = row
  BY <1>1, <1>2, TurnFacts
<1>6. turns[u].step = "model" /\ turns[u].effect = "none" /\ turns[u].confirmation = None
  BY TurnFacts DEF ModelAnswers, TurnSound
<1>7. \A c \in ConfirmationIds : confirmations[c].by # u
  BY <1>6, TurnFacts DEF Holds
<1>8. TurnSound(u)'
  BY <1>1, <1>3, <1>5, <1>6 DEF TurnSound
<1> QED BY <1>3, <1>4, <1>5, <1>6, <1>7, <1>8, TurnFacts, TurnGoesOn DEF ModelAnswers

(* A turn ends with an error and drops its draft.                          *)
LEMMA FailureKeeps ==
    ASSUME ConversationInv, NEW u \in Turns, TurnFails(u)
    PROVE  ConversationInv'
<1>1. PICK row : row = [turns[u] EXCEPT !.step = "error"]
  OBVIOUS
<1>2. /\ row.step = "error" /\ row.intent = turns[u].intent
  BY <1>1, TurnFacts DEF TurnStates
<1>3. row \in TurnStates
  <2>1. "error" \in {"idle", "model", "search", "write", "ok", "error"}
    OBVIOUS
  <2> QED BY <1>1, <2>1, TurnTyped, ZenonT(30) DEF TurnStates
<1>4. turns' = [turns EXCEPT ![u] = row] /\ turns'[u] = row
  BY <1>1, TurnFacts DEF TurnFails
<1>5. /\ \A c \in ConfirmationIds :
            confirmations'[c] = IF c = turns[u].confirmation THEN NoConfirmation ELSE confirmations[c]
      /\ NoConfirmation \in ConfirmationRows
      /\ confirmations' \in [ConfirmationIds -> ConfirmationRows]
  <2>1. NoConfirmation \in ConfirmationRows
    BY VersionBound DEF NoConfirmation, ConfirmationRows, Versions
  <2> QED BY <2>1, TurnFacts DEF TurnFails, Dropped
<1>6. turns[u].confirmation \in ConfirmationIds =>
         /\ confirmations[turns[u].confirmation].by = u
         /\ confirmations[turns[u].confirmation].state = "draft"
  BY TurnFacts DEF TurnFails, TurnSound
<1>7. \A c \in ConfirmationIds : confirmations'[c].by # u
  BY <1>5, TurnFacts DEF NoConfirmation, Holds, TurnFails
<1>8. TurnSound(u)'
  BY <1>2, <1>4 DEF TurnSound
<1>9. \A c \in ConfirmationIds : confirmations'[c] # confirmations[c] =>
         /\ confirmations[c].state = "draft" /\ confirmations[c].by = u
         /\ confirmations'[c].state = "absent" /\ confirmations'[c].by = None
  BY <1>5, <1>6 DEF NoConfirmation
<1> QED BY <1>2, <1>3, <1>4, <1>5, <1>7, <1>8, <1>9, TurnGoesOn DEF TurnFails

(* A turn that looks for the todo to delete.                               *)
LEMMA SearchKeeps ==
    ASSUME ConversationInv, NEW u \in Turns, SearchCandidates(u)
    PROVE  ConversationInv'
<1>1. /\ turns[u].step = "search" /\ turns[u].intent = "todo.delete"
      /\ turns[u].effect = "none" /\ turns[u].confirmation = None
  BY TurnFacts DEF SearchCandidates, TurnSound
<1>2. \A c \in ConfirmationIds : confirmations[c].by # u
  BY <1>1, TurnFacts DEF Holds
<1>3. ASSUME NEW intent \in {"todo.delete", "clarification"}, UNCHANGED confirmations,
             turns' = [turns EXCEPT ![u].step = "write", ![u].intent = intent]
      PROVE  ConversationInv'
  <2>1. PICK row : row = [turns[u] EXCEPT !.step = "write", !.intent = intent]
    OBVIOUS
  <2>2. /\ row.step = "write" /\ row.intent = intent /\ row.effect = "none"
        /\ row.confirmation = None
    BY <1>1, <2>1, TurnFacts DEF TurnStates
  <2>3. row \in TurnStates
    <3>1. /\ "write" \in {"idle", "model", "search", "write", "ok", "error"}
          /\ intent \in ResolvedIntents \cup {None}
      BY <1>1, TurnFacts, Clarifies DEF TurnStates
    <3> QED BY <2>1, <3>1, TurnTyped, ZenonT(30) DEF TurnStates
  <2>4. turns' = [turns EXCEPT ![u] = row] /\ turns'[u] = row
    BY <1>3, <2>1, TurnFacts
  <2>5. TurnSound(u)'
    BY <2>2, <2>4 DEF TurnSound
  <2>6. /\ confirmations' \in [ConfirmationIds -> ConfirmationRows]
        /\ \A c \in ConfirmationIds : confirmations'[c].by # u
        /\ UNCHANGED <<todos, sessions, transcript, confirms>>
    BY <1>2, <1>3, TurnFacts DEF SearchCandidates
  <2> QED BY <1>1, <1>3, <2>2, <2>3, <2>4, <2>5, <2>6, TurnGoesOn
<1>4. ASSUME NEW t \in TodoIds, NEW c \in ConfirmationIds, confirmations[c] = NoConfirmation,
             turns' = [turns EXCEPT ![u].step = "write", ![u].effect = "confirmation",
                                    ![u].confirmation = c],
             confirmations' = [confirmations EXCEPT ![c] = NewConfirmationRequest(t, u)]
      PROVE  ConversationInv'
  <2>1. PICK row : row = [turns[u] EXCEPT !.step = "write", !.effect = "confirmation",
                                          !.confirmation = c]
    OBVIOUS
  <2>2. /\ row.step = "write" /\ row.intent = "todo.delete" /\ row.effect = "confirmation"
        /\ row.confirmation = c
    BY <1>1, <2>1, TurnFacts DEF TurnStates
  <2>3. row \in TurnStates
    <3>1. /\ "write" \in {"idle", "model", "search", "write", "ok", "error"}
          /\ "confirmation" \in {"none", "create", "confirmation"}
          /\ c \in ConfirmationIds \cup {None}
      OBVIOUS
    <3> QED BY <2>1, <3>1, TurnTyped, ZenonT(30) DEF TurnStates
  <2>4. turns' = [turns EXCEPT ![u] = row] /\ turns'[u] = row
    BY <1>4, <2>1, TurnFacts
  <2>5. PICK draft : draft = NewConfirmationRequest(t, u)
    OBVIOUS
  <2>6. /\ draft.state = "draft" /\ draft.todo = t /\ draft.by = u
        /\ draft \in ConfirmationRows
    <3>1. todos[t].version \in Versions
      BY DEF ConversationInv, TypeOK, TodoRows
    <3> QED BY <2>5, <3>1 DEF NewConfirmationRequest, ConfirmationRows
  <2>7. /\ \A x \in ConfirmationIds : confirmations'[x] = IF x = c THEN draft ELSE confirmations[x]
        /\ confirmations' \in [ConfirmationIds -> ConfirmationRows]
    BY <1>4, <2>5, <2>6, TurnFacts
  <2>8. TurnSound(u)'
    BY <2>2, <2>4, <2>6, <2>7 DEF TurnSound
  <2>9. confirmations[c].state = "absent" /\ UNCHANGED <<todos, sessions, transcript, confirms>>
    BY <1>4 DEF SearchCandidates, NoConfirmation
  <2>10. \A x \in ConfirmationIds : confirmations'[x].by = u =>
            confirmations'[x].state = "draft" /\ Holds(u, x)'
    BY <1>2, <2>2, <2>4, <2>6, <2>7 DEF Holds
  <2>11. \A x \in ConfirmationIds : confirmations'[x] # confirmations[x] =>
            /\ confirmations[x].state = "absent"
            /\ confirmations'[x].state = "draft" /\ confirmations'[x].todo \in TodoIds
            /\ confirmations'[x].by = u
    BY <2>6, <2>7, <2>9
  <2> QED BY <1>1, <2>2, <2>3, <2>4, <2>7, <2>8, <2>9, <2>10, <2>11, TurnGoesOn
<1>5. PICK found \in SUBSET Candidates :
         \/ /\ turns' = [turns EXCEPT ![u].step = "write",
                   ![u].intent = IF Cardinality(found) > MaxSelectable THEN "clarification" ELSE @]
            /\ UNCHANGED confirmations
         \/ \E t \in found, c \in ConfirmationIds :
               /\ confirmations[c] = NoConfirmation
               /\ turns' = [turns EXCEPT ![u].step = "write", ![u].effect = "confirmation",
                                         ![u].confirmation = c]
               /\ confirmations' = [confirmations EXCEPT ![c] = NewConfirmationRequest(t, u)]
  BY DEF SearchCandidates
<1>6. \A t \in found : t \in TodoIds
  BY DEF Candidates
<1>7. CASE UNCHANGED confirmations
           /\ turns' = [turns EXCEPT ![u].step = "write",
                 ![u].intent = IF Cardinality(found) > MaxSelectable THEN "clarification" ELSE @]
  <2>1. PICK intent \in {"todo.delete", "clarification"} :
           intent = IF Cardinality(found) > MaxSelectable THEN "clarification" ELSE "todo.delete"
    OBVIOUS
  <2>2. turns' = [turns EXCEPT ![u].step = "write", ![u].intent = intent]
    BY <1>1, <1>7, <2>1, TurnFacts
  <2> QED BY <1>3, <1>7, <2>2
<1> QED BY <1>4, <1>5, <1>6, <1>7

(* What a turn's transaction leaves of todos and confirmations.            *)
LEMMA EffectFacts ==
    ASSUME ConversationInv, NEW u \in Turns, turns[u].step = "write", WriteEffect(u)
    PROVE  /\ todos' \in [TodoIds -> TodoRows]
           /\ \A t \in TodoIds : todos'[t] # todos[t] =>
                 /\ todos[t].status = "absent" /\ todos'[t].status = "pending"
                 /\ todos'[t].version < MaxVersion /\ todos'[t].by = u
                 /\ turns[u].intent = "todo.create"
           /\ turns[u].intent = "todo.create" => \E t \in TodoIds : todos'[t].by = u
           /\ confirmations' \in [ConfirmationIds -> ConfirmationRows]
           /\ \A c \in ConfirmationIds : confirmations'[c] # confirmations[c] =>
                 /\ confirmations[c].state = "draft" /\ confirmations[c].by = u
                 /\ confirmations'[c].state = "open" /\ confirmations'[c].by = u
                 /\ confirmations'[c].todo = confirmations[c].todo
           /\ \A c \in ConfirmationIds : confirmations'[c].by = u =>
                 confirmations'[c].state = "open" /\ turns[u].intent = "todo.delete"
<1>0. TypeOK
  BY DEF ConversationInv
<1>1. /\ turns[u].effect = "create" <=> turns[u].intent = "todo.create"
      /\ turns[u].effect \in {"none", "create", "confirmation"}
      /\ turns[u].effect = "confirmation" =>
            /\ turns[u].confirmation \in ConfirmationIds /\ turns[u].intent = "todo.delete"
            /\ confirmations[turns[u].confirmation].by = u
            /\ confirmations[turns[u].confirmation].state = "draft"
      /\ \A c \in ConfirmationIds : confirmations[c].by = u =>
            turns[u].effect = "confirmation" /\ turns[u].confirmation = c
  BY TurnFacts DEF TurnSound, Holds, TurnStates
<1>2. CASE turns[u].effect = "none"
  BY <1>0, <1>1, <1>2 DEF WriteEffect, TypeOK
<1>3. CASE turns[u].effect = "create"
  <2>1. PICK t \in TodoIds : todos[t].status = "absent" /\ todos' = Inserted(t, u)
    BY <1>3 DEF WriteEffect
  <2>2. confirmations' = confirmations
    BY <1>3 DEF WriteEffect
  <2>3. PICK row : row = [NoTodo EXCEPT !.status = "pending", !.by = u]
    OBVIOUS
  <2>4. /\ row \in TodoRows /\ row.by = u /\ row.status = "pending" /\ row.version < MaxVersion
    BY <2>3, NewTodo
  <2>5. todos' = [todos EXCEPT ![t] = row]
    BY <2>1, <2>3 DEF Inserted
  <2>6. /\ \A x \in TodoIds : todos'[x] = IF x = t THEN row ELSE todos[x]
        /\ todos' \in [TodoIds -> TodoRows]
    BY <1>0, <2>4, <2>5 DEF TypeOK
  <2>7. \A c \in ConfirmationIds : confirmations'[c].by # u
    BY <1>1, <1>3, <2>2
  <2> QED BY <1>0, <1>1, <1>3, <2>1, <2>2, <2>4, <2>6, <2>7 DEF TypeOK
<1>4. CASE turns[u].effect = "confirmation"
  <2>1. PICK c \in ConfirmationIds : c = turns[u].confirmation
    BY <1>1, <1>4
  <2>2. todos' = todos /\ confirmations' = [confirmations EXCEPT ![c].state = "open"]
    BY <1>4, <2>1 DEF WriteEffect, Saved
  <2>3. PICK row : row = [confirmations[c] EXCEPT !.state = "open"]
    OBVIOUS
  <2>4. confirmations[c] \in ConfirmationRows /\ confirmations \in [ConfirmationIds -> ConfirmationRows]
    BY <1>0 DEF TypeOK
  <2>5. row.state = "open" /\ row.todo = confirmations[c].todo /\ row.by = u
    BY <1>1, <1>4, <2>1, <2>3, <2>4 DEF ConfirmationRows
  <2>6. row \in ConfirmationRows
    <3>1. "open" \in {"absent", "draft", "open", "consumed"}
      OBVIOUS
    <3> QED BY <2>3, <2>4, <3>1, Zenon DEF ConfirmationRows
  <2>7. confirmations' = [confirmations EXCEPT ![c] = row]
    BY <2>2, <2>3, <2>4
  <2>8. /\ \A x \in ConfirmationIds : confirmations'[x] = IF x = c THEN row ELSE confirmations[x]
        /\ confirmations' \in [ConfirmationIds -> ConfirmationRows]
    BY <2>4, <2>6, <2>7
  <2> QED BY <1>0, <1>1, <1>4, <2>1, <2>2, <2>5, <2>8 DEF TypeOK
<1> QED BY <1>1, <1>2, <1>3, <1>4

(* A turn's transaction.                                                   *)
LEMMA TurnKeeps ==
    ASSUME ConversationInv, NEW u \in Turns, CommitTurn(u)
    PROVE  ConversationInv'
<1>0. TypeOK /\ turns[u].step = "write" /\ confirms' = confirms /\ u # None
  BY TurnFacts DEF ConversationInv, CommitTurn
<1>1. PICK S \in SessionIds :
         /\ sessions[S] \in {"absent", "open"}
         /\ sessions' = Opened(S)
         /\ transcript' = transcript \cup Rows(u, S)
         /\ turns' = [turns EXCEPT ![u].step = "ok", ![u].session = S]
  BY DEF CommitTurn, Found, Transcript
<1>2. /\ \A x \in SessionIds : sessions'[x] = IF x = S THEN "open" ELSE sessions[x]
      /\ sessions' \in [SessionIds -> {"absent", "open", "deleted"}]
  BY <1>0, <1>1 DEF TypeOK, Opened
<1>3. PICK row : row = [turns[u] EXCEPT !.step = "ok", !.session = S]
  OBVIOUS
<1>4. row.step = "ok" /\ row.session = S /\ row.intent = turns[u].intent
  BY <1>3, TurnFacts DEF TurnStates
<1>5. row \in TurnStates
  <2>1. /\ "ok" \in {"idle", "model", "search", "write", "ok", "error"}
        /\ S \in SessionIds \cup {None}
    OBVIOUS
  <2> QED BY <1>3, <2>1, TurnTyped, ZenonT(30) DEF TurnStates
<1>6. turns' = [turns EXCEPT ![u] = row]
  BY <1>1, <1>3, TurnFacts
<1>7. /\ \A v \in Turns : turns'[v] = IF v = u THEN row ELSE turns[v]
      /\ turns' \in [Turns -> TurnStates]
  BY <1>5, <1>6, TurnFacts
<1>8. /\ Rows(u, S) \subseteq MessageRows
      /\ \A m \in Rows(u, S) : m.session = S /\ m.from = u
      /\ transcript \subseteq transcript'
  <2>1. turns[u].intent \in ResolvedIntents \cup {None}
    BY TurnFacts DEF TurnStates
  <2> QED BY <1>1, <2>1 DEF Rows, MessageRows
<1>9. /\ todos' \in [TodoIds -> TodoRows]
      /\ \A t \in TodoIds : todos'[t] # todos[t] =>
            /\ todos[t].status = "absent" /\ todos'[t].status = "pending"
            /\ todos'[t].version < MaxVersion /\ todos'[t].by = u
            /\ turns[u].intent = "todo.create"
      /\ turns[u].intent = "todo.create" => \E t \in TodoIds : todos'[t].by = u
  BY <1>0, EffectFacts DEF CommitTurn
<1>10. /\ confirmations' \in [ConfirmationIds -> ConfirmationRows]
       /\ \A c \in ConfirmationIds : confirmations'[c] # confirmations[c] =>
             /\ confirmations[c].state = "draft" /\ confirmations[c].by = u
             /\ confirmations'[c].state = "open" /\ confirmations'[c].by = u
             /\ confirmations'[c].todo = confirmations[c].todo
       /\ \A c \in ConfirmationIds : confirmations'[c].by = u =>
             confirmations'[c].state = "open" /\ turns[u].intent = "todo.delete"
  BY <1>0, EffectFacts DEF CommitTurn
<1>11. TypeOK'
  BY <1>0, <1>1, <1>2, <1>7, <1>8, <1>9, <1>10 DEF TypeOK
<1>12. ASSUME NEW t \in TodoIds PROVE TodoSound(t)'
  <2>1. TodoSound(t) /\ todos[t].by \in Turns \cup {None}
    BY <1>0 DEF ConversationInv, TypeOK, TodoRows
  <2>2. CASE todos'[t] = todos[t]
    BY <1>0, <1>4, <1>7, <2>1, <2>2 DEF TodoSound
  <2>3. CASE todos'[t] # todos[t]
    BY <1>4, <1>7, <1>9, <2>3 DEF TodoSound
  <2> QED BY <2>2, <2>3
<1>13. ASSUME NEW m \in transcript' PROVE MessageSound(m)'
  <2>1. CASE m \in transcript
    <3>1. MessageSound(m) /\ m.session \in SessionIds
      BY <1>0, <2>1 DEF ConversationInv, TypeOK, MessageRows
    <3> QED BY <1>2, <1>4, <1>7, <3>1 DEF MessageSound
  <2>2. CASE m \in Rows(u, S)
    BY <1>2, <1>4, <1>7, <1>8, <2>2 DEF MessageSound
  <2> QED BY <1>1, <2>1, <2>2
<1>14. ASSUME NEW c \in ConfirmationIds PROVE ConfirmationSound(c)'
  <2>1. ConfirmationSound(c) /\ confirmations[c].by \in Turns \cup {None}
    BY <1>0 DEF ConversationInv, TypeOK, ConfirmationRows
  <2>2. CASE confirmations'[c].by = u
    <3>1. confirmations'[c].todo \in TodoIds
      BY <1>10, <2>1, <2>2 DEF ConfirmationSound
    <3> QED BY <1>4, <1>7, <1>10, <2>2, <3>1 DEF ConfirmationSound
  <2>3. CASE confirmations'[c].by # u
    <3>1. confirmations'[c] = confirmations[c]
      BY <1>10, <2>3
    <3> QED BY <1>7, <2>1, <2>3, <3>1 DEF ConfirmationSound, Holds
  <2> QED BY <2>2, <2>3
<1>15. ASSUME NEW v \in Turns PROVE TurnSound(v)'
  <2>1. CASE v = u
    <3>1. Rows(u, S)' = Rows(u, S) /\ Rows(u, S) \subseteq transcript'
      BY <1>1, <1>4, <1>7 DEF Rows
    <3>2. turns'[u] = row
      BY <1>7
    <3>3. Rows(u, turns[u].session)' = Rows(u, S)
      BY <1>4, <3>2 DEF Rows
    <3> QED BY <1>4, <1>9, <2>1, <3>1, <3>2, <3>3 DEF TurnSound
  <2>2. CASE v # u
    <3>1. TurnSound(v) /\ turns'[v] = turns[v] /\ v # None
      BY <1>7, <2>2, TurnFacts DEF ConversationInv
    <3>2. Rows(v, turns[v].session)' = Rows(v, turns[v].session)
      BY <3>1 DEF Rows
    <3>3. \A t \in TodoIds : todos[t].by = v => todos'[t].by = v
      BY <1>9, <3>1 DEF ConversationInv, TodoSound
    <3>4. turns[v].step = "ok" =>
             \/ Rows(v, turns[v].session) \subseteq transcript'
             \/ sessions'[turns[v].session] = "deleted"
      BY <1>1, <1>2, <1>8, <3>1 DEF TurnSound
    <3>5. \A c \in ConfirmationIds : confirmations[c].by = v => confirmations'[c] = confirmations[c]
      BY <1>10, <2>2
    <3> QED BY <3>1, <3>2, <3>3, <3>4, <3>5 DEF TurnSound
  <2> QED BY <2>1, <2>2
<1>16. \A c \in ConfirmationIds :
          confirmations[c].state \in {"open", "consumed"} => confirmations'[c] = confirmations[c]
  BY <1>10
<1>17. ASSUME NEW p \in Confirms PROVE ConfirmSound(p)'
  <2>1. ConfirmSound(p) /\ confirms[p].session \in SessionIds \cup {None}
    BY <1>0 DEF ConversationInv, TypeOK, ConfirmStates
  <2>2. confirms[p].step \in Deleting =>
           confirmations[confirms[p].confirmation].todo \in TodoIds
    BY <2>1 DEF ConversationInv, ConfirmationSound, ConfirmSound, Deleting
  <2> QED BY <1>0, <1>2, <1>9, <1>16, <2>1, <2>2
          DEF ConfirmSound, Live, Found, Consuming, Deleting
<1>18. \A p, q \in Confirms : Exclusive(p, q)'
  <2> TAKE p, q \in Confirms
  <2>1. Exclusive(p, q) /\ ConfirmSound(p) /\ ConfirmSound(q)
    BY DEF ConversationInv
  <2> QED BY <1>0, <1>16, <2>1 DEF Exclusive, ConfirmSound, Deleting
<1>19. DeletionsConfirmed'
  <2>1. \A t \in TodoIds : ConsumedFor(t)' = ConsumedFor(t)
    BY <1>10, <1>16 DEF ConsumedFor
  <2>2. \A t \in TodoIds : \A c \in ConsumedFor(t) : confirmations'[c] = confirmations[c]
    BY <1>16 DEF ConsumedFor
  <2> QED BY <1>9, <2>1, <2>2 DEF ConversationInv, DeletionsConfirmed
<1> QED BY <1>11, <1>12, <1>13, <1>14, <1>15, <1>17, <1>18, <1>19 DEF ConversationInv

-------------------------------------------------------------------------------
(* Every step keeps the invariant.                                         *)
LEMMA StepKeeps == ConversationInv /\ [Next]_vars => ConversationInv'
<1> SUFFICES ASSUME ConversationInv, [Next]_vars PROVE ConversationInv'
  OBVIOUS
<1>1. CASE TodoApi
  BY <1>1, TodoApiKeeps
<1>2. CASE SessionApi
  BY <1>2, SessionApiKeeps
<1>3. ASSUME NEW u \in Turns, NEW s \in SessionIds \cup {None}, StartTurn(u, s)
      PROVE  ConversationInv'
  BY <1>3, StartKeeps
<1>4. ASSUME NEW u \in Turns, TurnStep(u) PROVE ConversationInv'
  BY <1>4, AnswerKeeps, SearchKeeps, TurnKeeps, FailureKeeps DEF TurnStep
<1>5. ASSUME NEW c \in ConfirmationIds, ConfirmationStep(c) PROVE ConversationInv'
  BY <1>5, ConfirmationStepKeeps
<1>6. ASSUME NEW p \in Confirms, NEW c \in ConfirmationIds, NEW s \in SessionIds \cup {None},
             StartConfirm(p, c, s)
      PROVE  ConversationInv'
  BY <1>6, ConfirmGoesOn
<1>7. ASSUME NEW p \in Confirms, ConfirmStep(p) PROVE ConversationInv'
  BY <1>7, ConfirmGoesOn, CommitKeeps DEF ConfirmStep
<1>8. CASE UNCHANGED vars
  <2> USE <1>8 DEF vars
  <2>1. TypeOK' /\ DeletionsConfirmed'
    BY DEF ConversationInv, TypeOK, DeletionsConfirmed, ConsumedFor
  <2>2. (\A t \in TodoIds : TodoSound(t))' /\ (\A m \in transcript : MessageSound(m))'
    BY DEF ConversationInv, TodoSound, MessageSound
  <2>3. (\A c \in ConfirmationIds : ConfirmationSound(c))'
    BY DEF ConversationInv, ConfirmationSound, Holds
  <2>4. (\A u \in Turns : TurnSound(u))'
    BY DEF ConversationInv, TurnSound, Rows, Live, Found
  <2>5. (\A p \in Confirms : ConfirmSound(p))' /\ (\A p, q \in Confirms : Exclusive(p, q))'
    BY DEF ConversationInv, ConfirmSound, Live, Found, Exclusive
  <2> QED BY <2>1, <2>2, <2>3, <2>4, <2>5 DEF ConversationInv
<1> QED BY <1>1, <1>2, <1>3, <1>4, <1>5, <1>6, <1>7, <1>8 DEF Next

(* What turns, confirmations and locks keep to, whatever fails, rolls back *)
(* or is deleted meanwhile (the transactions of ProcessMessageHandler and  *)
(* ConfirmActionHandler).                                                  *)
THEOREM ConversationInvariance == Spec => []ConversationInv
<1>1. Init => ConversationInv
  BY InitSound
<1>2. ConversationInv /\ [Next]_vars => ConversationInv'
  BY StepKeeps
<1> QED BY <1>1, <1>2, PTL DEF Spec

(* The variables keep the types of the rows and structs they stand for.    *)
THEOREM ConversationTypes == Spec => []TypeOK
<1>1. ConversationInv => TypeOK
  BY DEF ConversationInv
<1> QED BY <1>1, ConversationInvariance, PTL

(* A todo is deleted exactly when one confirmation of it, bound to the     *)
(* version deleted, has been consumed (ConfirmActionHandler), with any     *)
(* number of confirmations and confirm calls.                              *)
THEOREM DeletesAreConfirmed == Spec => []DeletionsConfirmed
<1>1. ConversationInv => DeletionsConfirmed
  BY DEF ConversationInv
<1> QED BY <1>1, ConversationInvariance, PTL

-------------------------------------------------------------------------------
(* The expiry, apart from the rest.                                        *)

(* What has expired has expired for every later read.                      *)
LateSound(p) ==
    confirms[p].late =>
        /\ confirms[p].step \in {"get", "consume"}
        /\ confirms[p].step = "get" => confirmations[confirms[p].confirmation].expired
        /\ confirms[p].step = "consume" => ~confirms[p].inTime

LateInv == \A p \in Confirms : LateSound(p)

(* No step takes the expiry of a saved confirmation back: an expiry is set *)
(* once, and only drafts are dropped.                                      *)
LEMMA ExpiryLasts ==
    ASSUME ConversationInv, [Next]_vars, NEW c \in ConfirmationIds,
           confirmations[c].state \in {"open", "consumed"}, confirmations[c].expired
    PROVE  confirmations'[c].expired
<1>0. /\ confirmations \in [ConfirmationIds -> ConfirmationRows]
      /\ \A x \in ConfirmationIds : confirmations[x] \in ConfirmationRows
  BY DEF ConversationInv, TypeOK
<1>1. CASE TodoApi \/ SessionApi \/ UNCHANGED vars
  BY <1>1 DEF TodoApi, SessionApi, CreateTodo, UpdateTodo, CompleteTodo, CreateSession,
              DeleteSession, vars
<1>2. CASE \E u \in Turns, s \in SessionIds \cup {None} : StartTurn(u, s)
  BY <1>2 DEF StartTurn
<1>3. ASSUME NEW u \in Turns, TurnStep(u) PROVE confirmations'[c].expired
  <2>1. CASE ModelAnswers(u)
    BY <2>1 DEF ModelAnswers
  <2>2. CASE SearchCandidates(u)
    <3>1. ASSUME NEW t, NEW x \in ConfirmationIds, confirmations[x] = NoConfirmation,
                 confirmations' = [confirmations EXCEPT ![x] = NewConfirmationRequest(t, u)]
          PROVE  confirmations'[c].expired
      BY <1>0, <3>1 DEF NoConfirmation
    <3> QED BY <2>2, <3>1 DEF SearchCandidates
  <2>3. CASE CommitTurn(u)
    <3>1. turns[u].step = "write" /\ WriteEffect(u)
      BY <2>3 DEF CommitTurn
    <3>2. confirmations'[c] = confirmations[c]
      BY <3>1, EffectFacts
    <3> QED BY <3>2
  <2>4. CASE TurnFails(u)
    <3>1. turns[u].confirmation \in ConfirmationIds =>
             confirmations[turns[u].confirmation].state = "draft"
      BY <2>4, TurnFacts DEF TurnFails, TurnSound
    <3> QED BY <2>4, <3>1 DEF TurnFails, Dropped
  <2> QED BY <1>3, <2>1, <2>2, <2>3, <2>4 DEF TurnStep
<1>4. ASSUME NEW x \in ConfirmationIds, ConfirmationStep(x) PROVE confirmations'[c].expired
  <2>1. ASSUME NEW t \in TodoIds, DraftConfirmation(x, t) PROVE confirmations'[c].expired
    BY <1>0, <2>1 DEF DraftConfirmation, NoConfirmation
  <2>2. CASE SaveConfirmation(x)
    BY <1>0, <2>2 DEF SaveConfirmation, Saved, ConfirmationRows
  <2>3. CASE Expire(x)
    BY <1>0, <2>3 DEF Expire, ConfirmationRows
  <2> QED BY <1>4, <2>1, <2>2, <2>3 DEF ConfirmationStep
<1>5. CASE \E p \in Confirms, x \in ConfirmationIds, s \in SessionIds \cup {None} :
              StartConfirm(p, x, s)
  BY <1>5 DEF StartConfirm
<1>6. ASSUME NEW p \in Confirms, ConfirmStep(p) PROVE confirmations'[c].expired
  <2>1. CASE CommitConfirm(p)
    <3>1. PICK x : confirmations' = [confirmations EXCEPT ![x].state = "consumed"]
      BY <2>1 DEF CommitConfirm
    <3> QED BY <1>0, <3>1 DEF ConfirmationRows
  <2>2. CASE ~CommitConfirm(p)
    BY <1>6, <2>2 DEF ConfirmStep, GetConfirmation, Consume, CheckTodo, DeleteTodo,
                      AppendOutcome, ConfirmFails
  <2> QED BY <2>1, <2>2
<1> QED BY <1>1, <1>2, <1>3, <1>4, <1>5, <1>6 DEF Next

(* A call that another step leaves alone.                                  *)
LEMMA LateStays ==
    ASSUME ConversationInv, LateInv, [Next]_vars, NEW p \in Confirms, confirms'[p] = confirms[p]
    PROVE  LateSound(p)'
<1>1. LateSound(p) /\ ConfirmSound(p)
  BY DEF ConversationInv, LateInv
<1>2. confirms[p].late /\ confirms[p].step = "get" =>
         /\ confirms[p].confirmation \in ConfirmationIds
         /\ confirmations[confirms[p].confirmation].state \in {"open", "consumed"}
         /\ confirmations[confirms[p].confirmation].expired
  BY <1>1 DEF LateSound, ConfirmSound
<1>3. confirms[p].late /\ confirms[p].step = "get" =>
         confirmations'[confirms[p].confirmation].expired
  BY <1>2, ExpiryLasts
<1> QED BY <1>1, <1>3 DEF LateSound

(* A call's own statements: the one that reads the clock finds it expired, *)
(* and the conditional update then refuses.                                *)
LEMMA LateGoesOn ==
    ASSUME ConversationInv, LateInv, NEW p \in Confirms,
           \/ \E c \in ConfirmationIds, s \in SessionIds \cup {None} : StartConfirm(p, c, s)
           \/ ConfirmStep(p)
    PROVE  LateSound(p)' /\ \A q \in Confirms \ {p} : confirms'[q] = confirms[q]
<1>0. LateSound(p) /\ confirms[p] \in ConfirmStates /\ confirms \in [Confirms -> ConfirmStates]
  BY DEF ConversationInv, LateInv, TypeOK
<1>1. NoConfirm \in ConfirmStates /\ NoConfirm.late = FALSE
  BY IdleConfirm DEF NoConfirm
<1>2. ASSUME NEW c \in ConfirmationIds, NEW s \in SessionIds \cup {None}, StartConfirm(p, c, s)
      PROVE  LateSound(p)' /\ \A q \in Confirms \ {p} : confirms'[q] = confirms[q]
  <2>1. /\ confirms'[p] = [NoConfirm EXCEPT !.step = "get", !.confirmation = c, !.session = s,
                                            !.late = confirmations[c].expired]
        /\ \A q \in Confirms \ {p} : confirms'[q] = confirms[q]
        /\ confirmations' = confirmations
    BY <1>0, <1>2 DEF StartConfirm
  <2>2. /\ confirms'[p].step = "get" /\ confirms'[p].confirmation = c
        /\ confirms'[p].late = confirmations[c].expired
    BY <1>1, <2>1 DEF ConfirmStates
  <2> QED BY <2>1, <2>2 DEF LateSound
<1>3. CASE GetConfirmation(p)
  <2>1. /\ confirms[p].step = "get" /\ confirms'[p].step = "consume"
        /\ confirms'[p].late = confirms[p].late
        /\ confirms'[p].inTime = ~confirmations[confirms[p].confirmation].expired
        /\ \A q \in Confirms \ {p} : confirms'[q] = confirms[q]
    BY <1>0, <1>3 DEF GetConfirmation, ConfirmStates
  <2> QED BY <1>0, <2>1 DEF LateSound
<1>4. CASE Consume(p) \/ CheckTodo(p) \/ DeleteTodo(p) \/ AppendOutcome(p)
  <2>1. ~confirms[p].late
    BY <1>0, <1>4 DEF Consume, CheckTodo, DeleteTodo, AppendOutcome, LateSound
  <2>2. \E step : Advance(p, step)
    BY <1>4, Zenon DEF Consume, CheckTodo, DeleteTodo, AppendOutcome
  <2>3. /\ confirms'[p].late = confirms[p].late
        /\ \A q \in Confirms \ {p} : confirms'[q] = confirms[q]
    BY <1>0, <2>2 DEF Advance, ConfirmStates
  <2> QED BY <2>1, <2>3 DEF LateSound
<1>5. CASE CommitConfirm(p) \/ ConfirmFails(p)
  <2>1. confirms'[p] = NoConfirm /\ \A q \in Confirms \ {p} : confirms'[q] = confirms[q]
    BY <1>0, <1>5 DEF CommitConfirm, ConfirmFails
  <2> QED BY <1>1, <2>1 DEF LateSound
<1> QED BY <1>2, <1>3, <1>4, <1>5 DEF ConfirmStep

(* A confirm that comes after the expiry deletes nothing                   *)
(* (ConfirmationStore.Consume), with any number of confirms that wait for  *)
(* one another's row.                                                      *)
THEOREM LateConfirmsDeleteNothing == Spec => []LateNeverDeletes
<1>1. Init => LateInv
  BY DEF Init, LateInv, LateSound, NoConfirm
<1>2. ASSUME ConversationInv, LateInv, [Next]_vars PROVE LateInv'
  <2>1. CASE UNCHANGED confirms
    BY <1>2, <2>1, LateStays DEF LateInv
  <2>2. ASSUME NEW p \in Confirms,
               \/ \E c \in ConfirmationIds, s \in SessionIds \cup {None} : StartConfirm(p, c, s)
               \/ ConfirmStep(p)
        PROVE  LateInv'
    <3>1. LateSound(p)' /\ \A q \in Confirms \ {p} : confirms'[q] = confirms[q]
      BY <1>2, <2>2, LateGoesOn
    <3>2. \A q \in Confirms \ {p} : LateSound(q)'
      BY <1>2, <3>1, LateStays
    <3> QED BY <3>1, <3>2 DEF LateInv
  <2>3. CASE TodoApi \/ SessionApi \/ UNCHANGED vars
    BY <2>1, <2>3 DEF TodoApi, SessionApi, CreateTodo, UpdateTodo, CompleteTodo, CreateSession,
                DeleteSession, vars
  <2>4. ASSUME NEW u \in Turns, NEW s \in SessionIds \cup {None}, StartTurn(u, s) PROVE LateInv'
    BY <2>1, <2>4 DEF StartTurn
  <2>5. ASSUME NEW u \in Turns, TurnStep(u) PROVE LateInv'
    BY <2>1, <2>5 DEF TurnStep, ModelAnswers, SearchCandidates, CommitTurn, TurnFails
  <2>6. ASSUME NEW c \in ConfirmationIds, ConfirmationStep(c) PROVE LateInv'
    BY <2>1, <2>6 DEF ConfirmationStep, DraftConfirmation, SaveConfirmation, Expire
  <2> QED BY <1>2, <2>2, <2>3, <2>4, <2>5, <2>6 DEF Next
<1>3. LateInv => LateNeverDeletes
  BY DEF LateInv, LateSound, LateNeverDeletes
<1> QED BY <1>1, <1>2, <1>3, ConversationInvariance, PTL DEF Spec

-------------------------------------------------------------------------------
(* A turn that answered has its rows and did what they record, and one     *)
(* that failed left nothing (ProcessMessageHandler).                       *)
THEOREM TurnsAreAtomic == Spec => []TurnsAtomic
<1>1. ASSUME ConversationInv PROVE TurnsAtomic
  <2>1. ASSUME NEW u \in Turns, turns[u].step = "ok"
        PROVE  /\ \/ Rows(u, turns[u].session) \subseteq transcript
                  \/ sessions[turns[u].session] = "deleted"
               /\ turns[u].intent = "todo.create" <=> \E t \in TodoIds : todos[t].by = u
               /\ \A c \in ConfirmationIds :
                     confirmations[c].by = u => turns[u].intent = "todo.delete"
    <3>1. TurnSound(u) /\ u # None
      BY <1>1, NoneIsNone DEF ConversationInv
    <3>2. \A t \in TodoIds : todos[t].by = u => turns[u].intent = "todo.create"
      BY <1>1, <3>1 DEF ConversationInv, TodoSound
    <3>3. \A c \in ConfirmationIds : confirmations[c].by = u => turns[u].intent = "todo.delete"
      BY <1>1, <2>1, <3>1 DEF ConversationInv, ConfirmationSound, Holds
    <3> QED BY <2>1, <3>1, <3>2, <3>3 DEF TurnSound
  <2>2. ASSUME NEW u \in Turns, turns[u].step # "ok"
        PROVE  /\ \A m \in transcript : m.from # u
               /\ \A t \in TodoIds : todos[t].by # u
               /\ \A c \in ConfirmationIds :
                     confirmations[c].by = u => confirmations[c].state = "draft"
    <3>1. u # None
      BY NoneIsNone
    <3>2. (\A m \in transcript : m.from # u) /\ (\A t \in TodoIds : todos[t].by # u)
      BY <1>1, <2>2, <3>1 DEF ConversationInv, MessageSound, TodoSound
    <3>3. \A c \in ConfirmationIds : confirmations[c].by = u => confirmations[c].state = "draft"
      BY <1>1, <2>2, <3>1 DEF ConversationInv, ConfirmationSound
    <3> QED BY <3>2, <3>3
  <2> QED BY <2>1, <2>2 DEF TurnsAtomic
<1> QED BY <1>1, ConversationInvariance, PTL

(* No transcript row outlives its session (the messages' foreign key and   *)
(* its cascade, with turns and confirms in flight).                        *)
THEOREM TranscriptsStay == Spec => []TranscriptsAnchored
<1>1. ConversationInv => TranscriptsAnchored
  BY DEF ConversationInv, MessageSound, TranscriptsAnchored
<1> QED BY <1>1, ConversationInvariance, PTL

===============================================================================
