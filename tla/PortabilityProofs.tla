-------------------------- MODULE PortabilityProofs --------------------------
(***************************************************************************)
(* Theorems about ImportFlow, for every set of records, bundles, imports   *)
(* and concurrent confirm requests: a source record becomes at most one    *)
(* row, no row lacks its parent, and the report is true of the rows and of *)
(* the preview.  And about ExportFlow, for every set of rows and page      *)
(* size: what a bundle that was completed holds.                           *)
(***************************************************************************)
EXTENDS Portability, FiniteSetTheorems, SequenceTheorems, TLAPS

-------------------------------------------------------------------------------
(* The records of a bundle that an import may execute.                     *)
ValidIn(b) == {r \in DOMAIN b : Valid(b, r)}

(***************************************************************************)
(* What holds of a confirm request between its steps: it executes valid    *)
(* records of its bundle only, holds the registrations of records nobody   *)
(* has registered, and every row it has written or will write has its      *)
(* parent among its own rows or the committed ones.                        *)
(***************************************************************************)
Sound(c) ==
    c # NoCall =>
        /\ c.import \in Imports /\ imports[c.import].state # "absent"
        /\ \A r \in Records : c.decisions[r] = "new" => r \in ValidIn(imports[c.import].bundle)
        /\ c.todo \subseteq ValidIn(imports[c.import].bundle)
        /\ c.registered \subseteq ValidIn(imports[c.import].bundle)
        /\ c.mine \subseteq c.registered
        /\ \A r \in c.registered : sources[r] = None /\ (Kind[r] = "todo" => r \in c.mine)
        /\ \A t \in c.targets : Kind[t] = "todo" /\ RowOf(t) # {}
        /\ \A m \in c.mine : Parent[m] # None => Parent[m] \in c.mine \/ RowOf(Parent[m]) # {}

CallsSound == \A p \in Calls : Sound(calls[p])

(* The unique key of the registrations.                                    *)
KeysDisjoint ==
    \A p, q \in Calls : p # q => calls[p].registered \cap calls[q].registered = {}

(* A committed row is the only one of its record, and registered; what it  *)
(* is a child of is the record's parent.                                   *)
RowsRegistered ==
    /\ \A x \in rows : sources[x.record] # None /\ x.parent = Parent[x.record]
    /\ \A x, y \in rows : x.record = y.record => x = y

(* A registered todo has its row: todos are never deleted.                 *)
TodosKept == \A t \in Records : Kind[t] = "todo" /\ sources[t] # None => RowOf(t) # {}

ImportInv ==
    /\ TypeOK
    /\ CallsSound
    /\ KeysDisjoint
    /\ RowsRegistered
    /\ TodosKept
    /\ ParentsExist

-------------------------------------------------------------------------------
(* Lemmas on the operators.                                                *)

(* The content of a valid record is a fingerprint (classifyBundle).        *)
LEMMA ValidContent ==
    ASSUME NEW b \in Bundles \cup {EmptyBundle}, NEW r \in ValidIn(b)
    PROVE  r \in Records /\ b[r] \in Fingerprints
<1>1. CASE b \in Bundles
  BY <1>1, BundleAssumption DEF ValidIn, Valid
<1>2. CASE b = EmptyBundle
  BY <1>2 DEF ValidIn, EmptyBundle
<1> QED BY <1>1, <1>2

(* Classify decides on every record, and only valid ones become new.       *)
LEMMA ClassifyDecides ==
    ASSUME NEW b
    PROVE  /\ Classify(b) \in Decisions
           /\ \A r \in Records : Classify(b)[r] = "new" => r \in ValidIn(b)
<1>1. ASSUME NEW r \in Records
      PROVE  /\ Classify(b)[r] \in Outcomes \cup {"none"}
             /\ Classify(b)[r] = "new" => r \in ValidIn(b)
  BY <1>1 DEF Classify, Decide, Outcomes, ValidIn
<1> QED BY <1>1 DEF Decisions, Classify

(* The idle call is a call.                                                *)
LEMMA IdleCall == NoCall \in CallStates /\ NoDecisions \in Decisions /\ Sound(NoCall)
  BY DEF NoCall, CallStates, NoDecisions, Decisions, Outcomes, Sound

(* Initially nothing is imported.                                          *)
LEMMA InitSound == Init => ImportInv
<1> SUFFICES ASSUME Init PROVE ImportInv
  OBVIOUS
<1>1. NoImport \in ImportRows
  BY IdleCall DEF NoImport, ImportRows
<1>2. TypeOK
  BY <1>1, IdleCall DEF Init, TypeOK
<1>3. CallsSound /\ KeysDisjoint
  BY IdleCall DEF Init, CallsSound, KeysDisjoint, NoCall
<1>4. RowsRegistered /\ TodosKept /\ ParentsExist
  BY DEF Init, RowsRegistered, TodosKept, ParentsExist
<1> QED BY <1>2, <1>3, <1>4 DEF ImportInv

-------------------------------------------------------------------------------
(* Most steps change one confirm request and nothing else: they keep the   *)
(* invariant if the request they leave is sound and holds no registration  *)
(* another request holds.                                                  *)
LEMMA CallStep ==
    ASSUME ImportInv,
           NEW p \in Calls, NEW c \in CallStates,
           Sound(c),
           \A q \in Calls \ {p} : c.registered \cap calls[q].registered = {},
           calls' = [calls EXCEPT ![p] = c],
           UNCHANGED <<imports, sources, rows, channels>>
    PROVE  ImportInv'
<1>1. TypeOK'
  BY DEF ImportInv, TypeOK
<1>2. \A q \in Calls : calls'[q] = IF q = p THEN c ELSE calls[q]
  BY DEF ImportInv, TypeOK
<1>3. CallsSound'
  <2> SUFFICES ASSUME NEW q \in Calls PROVE Sound(calls[q])'
    BY DEF CallsSound
  <2>1. Sound(calls'[q])
    BY <1>2 DEF ImportInv, CallsSound
  <2> QED BY <2>1 DEF Sound, RowOf
<1>4. KeysDisjoint'
  BY <1>2 DEF ImportInv, KeysDisjoint
<1>5. RowsRegistered' /\ TodosKept' /\ ParentsExist'
  BY DEF ImportInv, RowsRegistered, TodosKept, ParentsExist, RowOf
<1> QED BY <1>1, <1>3, <1>4, <1>5 DEF ImportInv

(* A request that begins, or ends without a trace.                         *)
LEMMA StartKeeps ==
    ASSUME ImportInv, NEW p \in Calls, NEW i \in Imports, StartConfirm(p, i)
    PROVE  ImportInv'
<1> DEFINE c == [NoCall EXCEPT !.step = "decide", !.import = i]
<1>1. c \in CallStates
  BY IdleCall DEF CallStates
<1>2. Sound(c)
  BY DEF Sound, NoCall, NoDecisions, StartConfirm
<1>3. \A q \in Calls \ {p} : c.registered \cap calls[q].registered = {}
  BY DEF NoCall
<1>4. calls' = [calls EXCEPT ![p] = c] /\ UNCHANGED <<imports, sources, rows, channels>>
  BY DEF StartConfirm
<1> HIDE DEF c
<1> QED BY <1>1, <1>2, <1>3, <1>4, CallStep

(* A rollback forgets a request and what it had written.                   *)
LEMMA FailKeeps ==
    ASSUME ImportInv, NEW p \in Calls, Fail(p)
    PROVE  ImportInv'
<1>1. \A q \in Calls \ {p} : NoCall.registered \cap calls[q].registered = {}
  BY DEF NoCall
<1>2. calls' = [calls EXCEPT ![p] = NoCall] /\ UNCHANGED <<imports, sources, rows, channels>>
  BY DEF Fail
<1> QED BY <1>1, <1>2, IdleCall, CallStep

(* What a request in progress has.                                         *)
LEMMA InProgress ==
    ASSUME ImportInv, NEW p \in Calls, calls[p].step # "idle"
    PROVE  /\ calls[p] \in CallStates
           /\ calls[p] # NoCall
           /\ Sound(calls[p])
           /\ calls[p].import \in Imports
           /\ imports[calls[p].import].state # "absent"
           /\ BundleOf(p) = imports[calls[p].import].bundle
           /\ BundleOf(p) \in Bundles \cup {EmptyBundle}
           /\ ValidIn(BundleOf(p)) \subseteq Records
<1>1. calls[p] \in CallStates /\ Sound(calls[p]) /\ calls[p] # NoCall
  BY DEF ImportInv, TypeOK, CallsSound, NoCall
<1>2. /\ calls[p].import \in Imports /\ imports[calls[p].import].state # "absent"
      /\ BundleOf(p) = imports[calls[p].import].bundle
  BY <1>1 DEF Sound, BundleOf
<1>3. BundleOf(p) \in Bundles \cup {EmptyBundle}
  BY <1>2 DEF ImportInv, TypeOK, ImportRows
<1>4. ValidIn(BundleOf(p)) \subseteq Records
  BY <1>3, ValidContent
<1> QED BY <1>1, <1>2, <1>3, <1>4

-------------------------------------------------------------------------------
(* Deciding and looking the targets up.                                    *)
LEMMA DecideKeeps ==
    ASSUME ImportInv, NEW p \in Calls, DecideAgain(p)
    PROVE  ImportInv'
<1> DEFINE c == [calls[p] EXCEPT !.step = "targets", !.decisions = Classify(BundleOf(p))]
<1>1. calls[p].step # "idle"
  BY DEF DecideAgain
<1>2. c \in CallStates
  BY <1>1, InProgress, ClassifyDecides DEF CallStates
<1>3. Sound(c)
  <2>1. /\ c.import = calls[p].import /\ c.todo = calls[p].todo /\ c.mine = calls[p].mine
        /\ c.registered = calls[p].registered /\ c.targets = calls[p].targets
        /\ c.decisions = Classify(BundleOf(p))
    BY <1>1, InProgress DEF CallStates
  <2> HIDE DEF c
  <2> QED BY <1>1, <2>1, InProgress, ClassifyDecides DEF Sound
<1>4. \A q \in Calls \ {p} : c.registered \cap calls[q].registered = {}
  BY <1>1, InProgress DEF CallStates, ImportInv, KeysDisjoint
<1>5. calls' = [calls EXCEPT ![p] = c] /\ UNCHANGED <<imports, sources, rows, channels>>
  BY DEF DecideAgain
<1> HIDE DEF c
<1> QED BY <1>2, <1>3, <1>4, <1>5, CallStep

(* Looking up the targets plans only what has one.                         *)
LEMMA TargetsKeeps ==
    ASSUME ImportInv, NEW p \in Calls, ReadTargets(p)
    PROVE  ImportInv'
<1> DEFINE b == BundleOf(p)
           news == {r \in DOMAIN b : calls[p].decisions[r] = "new"}
           found == {t \in Records : /\ Kind[t] = "todo" /\ sources[t] # None
                                     /\ \E d \in DOMAIN b : Parent[d] = t /\ Valid(b, d)}
           c == [calls[p] EXCEPT !.step = "execute", !.todo = news, !.targets = found]
<1>1. calls[p].step # "idle"
  BY DEF ReadTargets
<1>2. DOMAIN b \subseteq Records
  <2>1. b \in Bundles \cup {EmptyBundle}
    BY <1>1, InProgress
  <2>2. EmptyBundle = [r \in {} |-> None]
    BY DEF EmptyBundle
  <2> HIDE DEF b
  <2> QED BY <2>1, <2>2, BundleAssumption
<1>3. news \subseteq ValidIn(b) /\ news \subseteq Records
  BY <1>1, <1>2, InProgress DEF Sound
<1>4. \A t \in found : Kind[t] = "todo" /\ RowOf(t) # {}
  BY DEF ImportInv, TodosKept
<1>5. c \in CallStates
  BY <1>1, <1>3, InProgress DEF CallStates
<1>6. Sound(c)
  <2>1. /\ c.import = calls[p].import /\ c.todo = news /\ c.mine = calls[p].mine
        /\ c.registered = calls[p].registered /\ c.targets = found
        /\ c.decisions = calls[p].decisions
    BY <1>1, InProgress DEF CallStates
  <2> HIDE DEF c, news, found
  <2> QED BY <1>1, <1>3, <1>4, <2>1, InProgress DEF Sound
<1>7. \A q \in Calls \ {p} : c.registered \cap calls[q].registered = {}
  BY <1>1, InProgress DEF CallStates, ImportInv, KeysDisjoint
<1>8. calls' = [calls EXCEPT ![p] = c] /\ UNCHANGED <<imports, sources, rows, channels>>
  BY DEF ReadTargets
<1> HIDE DEF c
<1> QED BY <1>5, <1>6, <1>7, <1>8, CallStep

-------------------------------------------------------------------------------
(***************************************************************************)
(* The records of the transaction.  A row may be written if its parent,    *)
(* where it has one, is a row already, and a registration without a row is *)
(* a channel's.                                                            *)
(***************************************************************************)
LEMMA WriteKeeps ==
    ASSUME ImportInv, NEW p \in Calls, NEW r \in Records,
           IsNext(p, r), WriteRow(p, r),
           Parent[r] # None => Parent[r] \in calls[p].mine \/ RowOf(Parent[r]) # {}
    PROVE  ImportInv'
<1> DEFINE c == [Executed(p, r) EXCEPT !.mine = @ \cup {r}, !.registered = @ \cup {r}]
<1>1. calls[p].step # "idle" /\ r \in calls[p].todo
  BY DEF IsNext
<1>2. /\ c.import = calls[p].import /\ c.todo = calls[p].todo \ {r}
      /\ c.mine = calls[p].mine \cup {r} /\ c.registered = calls[p].registered \cup {r}
      /\ c.targets = calls[p].targets /\ c.decisions = calls[p].decisions
      /\ c \in CallStates
  BY <1>1, InProgress DEF CallStates, Executed
<1>3. calls' = [calls EXCEPT ![p] = c] /\ UNCHANGED <<imports, sources, rows, channels>>
  BY DEF WriteRow
<1>4. CanRegister(p, r)
  BY DEF WriteRow
<1> HIDE DEF c
<1>5. Sound(c)
  <2>1. r \in ValidIn(BundleOf(p))
    BY <1>1, InProgress DEF Sound
  <2>2. \A s \in c.registered : sources[s] = None /\ (Kind[s] = "todo" => s \in c.mine)
    BY <1>1, <1>2, <1>4, InProgress DEF Sound, CanRegister
  <2>3. \A m \in c.mine :
           Parent[m] # None => Parent[m] \in c.mine \/ RowOf(Parent[m]) # {}
    BY <1>1, <1>2, InProgress DEF Sound
  <2> QED BY <1>1, <1>2, <2>1, <2>2, <2>3, InProgress DEF Sound
<1>6. \A q \in Calls \ {p} : c.registered \cap calls[q].registered = {}
  BY <1>2, <1>4 DEF CanRegister, ImportInv, KeysDisjoint
<1> QED BY <1>2, <1>3, <1>5, <1>6, CallStep

(* A record found registered, or without its parent, is not written.       *)
LEMMA ReviseKeeps ==
    ASSUME ImportInv, NEW p \in Calls, NEW r \in Records, NEW outcome \in {"skipped", "invalid"},
           IsNext(p, r), Revise(p, r, outcome)
    PROVE  ImportInv'
<1> DEFINE c == [Executed(p, r) EXCEPT !.decisions[r] = outcome]
<1>1. calls[p].step # "idle" /\ r \in calls[p].todo
  BY DEF IsNext
<1>2. /\ c.import = calls[p].import /\ c.todo = calls[p].todo \ {r}
      /\ c.mine = calls[p].mine /\ c.registered = calls[p].registered
      /\ c.targets = calls[p].targets
      /\ c.decisions = [calls[p].decisions EXCEPT ![r] = outcome]
      /\ c \in CallStates
  BY <1>1, InProgress DEF CallStates, Executed, Decisions, Outcomes
<1>3. calls' = [calls EXCEPT ![p] = c] /\ UNCHANGED <<imports, sources, rows, channels>>
  BY DEF Revise
<1> HIDE DEF c
<1>4. Sound(c)
  <2>1. \A s \in Records : c.decisions[s] = "new" => calls[p].decisions[s] = "new"
    BY <1>1, <1>2, InProgress DEF CallStates, Decisions
  <2> QED BY <1>1, <1>2, <2>1, InProgress DEF Sound
<1>5. \A q \in Calls \ {p} : c.registered \cap calls[q].registered = {}
  BY <1>2 DEF ImportInv, KeysDisjoint
<1> QED BY <1>2, <1>3, <1>4, <1>5, CallStep

(* An existing channel is registered as its record's, without a row.       *)
LEMMA ChannelKeeps ==
    ASSUME ImportInv, NEW p \in Calls, NEW r \in Records, ImportChannel(p, r)
    PROVE  ImportInv'
<1>1. Kind[r] = "channel" /\ IsNext(p, r) /\ Parent[r] = None
  BY RecordAssumption DEF ImportChannel
<1>2. CASE ~ChannelExists(r)
  BY <1>1, <1>2, WriteKeeps DEF ImportChannel
<1>3. CASE ChannelExists(r)
  <2> DEFINE c == [Executed(p, r) EXCEPT !.decisions[r] = "skipped",
                                         !.registered = @ \cup {r}]
  <2>1. calls[p].step # "idle" /\ r \in calls[p].todo
    BY <1>1 DEF IsNext
  <2>2. /\ c.import = calls[p].import /\ c.todo = calls[p].todo \ {r}
        /\ c.mine = calls[p].mine /\ c.registered = calls[p].registered \cup {r}
        /\ c.targets = calls[p].targets
        /\ c.decisions = [calls[p].decisions EXCEPT ![r] = "skipped"]
        /\ c \in CallStates
    BY <2>1, InProgress DEF CallStates, Executed, Decisions, Outcomes
  <2>3. /\ calls' = [calls EXCEPT ![p] = c] /\ CanRegister(p, r)
        /\ UNCHANGED <<imports, sources, rows, channels>>
    BY <1>3 DEF ImportChannel
  <2> HIDE DEF c
  <2>4. Sound(c)
    <3>1. \A s \in Records : c.decisions[s] = "new" => calls[p].decisions[s] = "new"
      BY <2>1, <2>2, InProgress DEF CallStates, Decisions
    <3>2. r \in ValidIn(BundleOf(p))
      BY <2>1, InProgress DEF Sound
    <3>3. \A s \in c.registered : sources[s] = None /\ (Kind[s] = "todo" => s \in c.mine)
      BY <1>1, <2>1, <2>2, <2>3, InProgress DEF Sound, CanRegister
    <3> QED BY <2>1, <2>2, <3>1, <3>2, <3>3, InProgress DEF Sound
  <2>5. \A q \in Calls \ {p} : c.registered \cap calls[q].registered = {}
    BY <2>2, <2>3 DEF CanRegister, ImportInv, KeysDisjoint
  <2> QED BY <2>2, <2>3, <2>4, <2>5, CallStep
<1> QED BY <1>2, <1>3

(* Any record's turn in the transaction.                                   *)
LEMMA ExecuteKeeps ==
    ASSUME ImportInv, NEW p \in Calls, NEW r \in Records, Execute(p, r)
    PROVE  ImportInv'
<1>1. CASE ImportChannel(p, r)
  BY <1>1, ChannelKeeps
<1>2. CASE ImportTodo(p, r)
  <2>1. Parent[r] = None
    BY <1>2, RecordAssumption DEF ImportTodo
  <2> QED BY <1>2, <2>1, WriteKeeps DEF ImportTodo
<1>3. CASE ImportDelivery(p, r)
  <2>1. CASE HasTodo(p, r)
    <3>1. Parent[r] \in calls[p].mine \/ RowOf(Parent[r]) # {}
      BY <1>3, <2>1, InProgress DEF ImportDelivery, IsNext, HasTodo, Sound
    <3> QED BY <1>3, <2>1, <3>1, WriteKeeps DEF ImportDelivery
  <2>2. CASE ~HasTodo(p, r)
    BY <1>3, <2>2, ReviseKeeps DEF ImportDelivery
  <2> QED BY <2>1, <2>2
<1>4. CASE ImportSession(p, r)
  <2>1. Parent[r] = None
    BY <1>4, RecordAssumption DEF ImportSession
  <2> QED BY <1>4, <2>1, WriteKeeps DEF ImportSession
<1>5. CASE ImportMessage(p, r)
  <2>1. CASE HasSession(p, r)
    BY <1>5, <2>1, WriteKeeps DEF ImportMessage, HasSession
  <2>2. CASE ~HasSession(p, r)
    BY <1>5, <2>2, ReviseKeeps DEF ImportMessage
  <2> QED BY <2>1, <2>2
<1> QED BY <1>1, <1>2, <1>3, <1>4, <1>5 DEF Execute

-------------------------------------------------------------------------------
(***************************************************************************)
(* The steps that change something else than one request.                  *)
(***************************************************************************)

(* An import row changes, and no bundle of a request in progress.          *)
LEMMA ImportRowStep ==
    ASSUME ImportInv, NEW i \in Imports, NEW row \in ImportRows,
           imports' = [imports EXCEPT ![i] = row],
           row.state # "absent",
           imports[i].state # "absent" => row.bundle = imports[i].bundle,
           UNCHANGED <<sources, rows, channels, calls>>
    PROVE  ImportInv'
<1>1. TypeOK'
  BY DEF ImportInv, TypeOK
<1>2. CallsSound'
  <2> SUFFICES ASSUME NEW p \in Calls, calls[p] # NoCall PROVE Sound(calls[p])'
    BY IdleCall DEF CallsSound, Sound
  <2>1. Sound(calls[p]) /\ calls[p].import \in Imports
    BY DEF ImportInv, CallsSound, Sound
  <2>2. /\ imports'[calls[p].import].state # "absent"
        /\ imports'[calls[p].import].bundle = imports[calls[p].import].bundle
    BY <2>1 DEF Sound, ImportInv, TypeOK
  <2>3. ValidIn(imports[calls[p].import].bundle)'
          = ValidIn(imports[calls[p].import].bundle)
    BY <2>2 DEF ValidIn, Valid
  <2> QED BY <2>1, <2>2, <2>3 DEF Sound, RowOf
<1>3. KeysDisjoint' /\ RowsRegistered' /\ TodosKept' /\ ParentsExist'
  BY DEF ImportInv, KeysDisjoint, RowsRegistered, TodosKept, ParentsExist, RowOf
<1> QED BY <1>1, <1>2, <1>3 DEF ImportInv

(* An upload adds an import without any row.                               *)
LEMMA UploadKeeps ==
    ASSUME ImportInv, NEW i \in Imports, NEW b \in Bundles, Upload(i, b)
    PROVE  ImportInv'
<1> DEFINE row == [NoImport EXCEPT !.state = "pending", !.bundle = b, !.preview = Classify(b)]
<1>1. row \in ImportRows /\ row.state # "absent"
  BY IdleCall, ClassifyDecides DEF NoImport, ImportRows
<1>2. imports' = [imports EXCEPT ![i] = row] /\ UNCHANGED <<sources, rows, channels, calls>>
  BY DEF Upload
<1>3. imports[i].state = "absent"
  BY DEF Upload
<1> HIDE DEF row
<1> QED BY <1>1, <1>2, <1>3, ImportRowStep

(* Expiry changes nothing that was imported.                               *)
LEMMA ExpireKeeps ==
    ASSUME ImportInv, NEW i \in Imports, Expire(i)
    PROVE  ImportInv'
<1> DEFINE row == [imports[i] EXCEPT !.expired = TRUE]
<1>1. /\ row \in ImportRows /\ row.state # "absent" /\ row.bundle = imports[i].bundle
      /\ imports' = [imports EXCEPT ![i] = row]
  BY DEF Expire, ImportInv, TypeOK, ImportRows
<1>2. UNCHANGED <<sources, rows, channels, calls>>
  BY DEF Expire
<1> HIDE DEF row
<1> QED BY <1>1, <1>2, ImportRowStep

(* The user's channels are no rows of an import.                           *)
LEMMA AddChannelKeeps ==
    ASSUME ImportInv, NEW r \in Records, AddChannel(r)
    PROVE  ImportInv'
<1>1. TypeOK'
  BY DEF AddChannel, ImportInv, TypeOK
<1>2. CallsSound'
  BY DEF AddChannel, ImportInv, CallsSound, Sound, RowOf
<1>3. KeysDisjoint' /\ RowsRegistered' /\ TodosKept' /\ ParentsExist'
  BY DEF AddChannel, ImportInv, KeysDisjoint, RowsRegistered, TodosKept, ParentsExist, RowOf
<1> QED BY <1>1, <1>2, <1>3 DEF ImportInv

(* A deleted session takes its messages with it, and waits for those whose *)
(* insertion is not committed.                                             *)
LEMMA DeleteSessionKeeps ==
    ASSUME ImportInv, NEW s \in Records, DeleteSession(s)
    PROVE  ImportInv'
<1>1. /\ Kind[s] = "session" /\ rows' = {x \in rows : x.record # s /\ Parent[x.record] # s}
      /\ \A p \in Calls, m \in Records : m \in calls[p].mine => Parent[m] # s
      /\ UNCHANGED <<imports, sources, channels, calls>>
  BY DEF DeleteSession
<1>2. TypeOK'
  BY <1>1 DEF ImportInv, TypeOK
<1>3. \A t \in Records : t # s /\ Parent[t] # s /\ RowOf(t) # {} => RowOf(t)' # {}
  BY <1>1 DEF RowOf
<1>4. \A t \in Records : Kind[t] \in {"todo", "session"} => Parent[t] = None
  BY RecordAssumption
<1>5. s # None
  BY RecordAssumption
<1>6. \A m \in Records : Parent[m] # None /\ Parent[m] \in Records
                              => Kind[Parent[m]] \in {"todo", "session"}
  BY RecordAssumption
<1>7. CallsSound'
  <2> SUFFICES ASSUME NEW p \in Calls, calls[p] # NoCall PROVE Sound(calls[p])'
    BY <1>1, IdleCall DEF CallsSound, Sound
  <2>1. Sound(calls[p]) /\ calls[p] \in CallStates
    BY DEF ImportInv, CallsSound, TypeOK
  <2>2. ASSUME NEW t \in calls[p].targets PROVE RowOf(t)' # {}
    BY <1>1, <1>3, <1>4, <1>5, <2>1 DEF Sound, CallStates
  <2>3. ASSUME NEW m \in calls[p].mine, Parent[m] # None, Parent[m] \notin calls[p].mine
        PROVE  RowOf(Parent[m])' # {}
    <3>1. RowOf(Parent[m]) # {} /\ m \in Records /\ Parent[m] # s
      BY <1>1, <2>1, <2>3 DEF Sound, CallStates
    <3>2. Parent[m] \in Records
      BY <2>3, <3>1, RecordAssumption
    <3> QED BY <1>3, <1>4, <1>5, <1>6, <2>3, <3>1, <3>2
  <2> QED BY <1>1, <2>1, <2>2, <2>3 DEF Sound, ValidIn, Valid
<1>8. KeysDisjoint' /\ RowsRegistered'
  BY <1>1 DEF ImportInv, KeysDisjoint, RowsRegistered
<1>9. TodosKept'
  BY <1>1, <1>3, <1>4, <1>5 DEF ImportInv, TodosKept
<1>10. ParentsExist'
  <2> SUFFICES ASSUME NEW x \in rows, x.record # s, Parent[x.record] # s, x.parent # None
               PROVE  RowOf(x.parent)' # {}
    BY <1>1 DEF ParentsExist
  <2>1. x.record \in Records /\ x.parent = Parent[x.record] /\ RowOf(x.parent) # {}
    BY DEF ImportInv, TypeOK, RowsRegistered, ParentsExist
  <2>2. Parent[x.record] \in Records
    BY <2>1, RecordAssumption
  <2> QED BY <1>3, <1>4, <1>5, <1>6, <2>1, <2>2
<1> QED BY <1>2, <1>7, <1>8, <1>9, <1>10 DEF ImportInv

(* The rows of a transaction are the first of their records, and every one *)
(* comes with its parent or finds it.                                      *)
LEMMA CommitKeeps ==
    ASSUME ImportInv, NEW p \in Calls, Commit(p)
    PROVE  ImportInv'
<1> DEFINE c == calls[p]
           i == c.import
           b == BundleOf(p)
           written == {[record |-> r, by |-> i, parent |-> Parent[r]] : r \in c.mine}
<1>1. c.step # "idle"
  BY DEF Commit
<1>2. /\ c \in CallStates /\ Sound(c) /\ c # NoCall /\ i \in Imports
      /\ b = imports[i].bundle /\ b \in Bundles \cup {EmptyBundle}
      /\ c.mine \subseteq c.registered /\ c.registered \subseteq ValidIn(b)
      /\ c.registered \subseteq Records
  BY <1>1, InProgress DEF Sound
<1>3. /\ imports' = [imports EXCEPT ![i].state = "committed", ![i].report = c.decisions]
      /\ sources' = [r \in Records |-> IF r \in c.registered THEN b[r] ELSE sources[r]]
      /\ rows' = rows \cup written
      /\ calls' = [calls EXCEPT ![p] = NoCall]
      /\ channels' = channels
  BY DEF Commit
<1>4. \A r \in c.registered : b[r] \in Fingerprints /\ b[r] # None /\ sources[r] = None
  BY <1>2, ValidContent, RecordAssumption DEF Sound
<1>5. \A r \in Records : sources'[r] = None => sources[r] = None /\ r \notin c.registered
  BY <1>3, <1>4
<1> HIDE DEF c, i, b, written
<1>6. /\ \A r \in Records : RowOf(r) # {} => RowOf(r)' # {}
      /\ \A r \in c.mine : RowOf(r)' # {}
  <2>1. \A r \in Records : RowOf(r) # {} => RowOf(r)' # {}
    BY <1>3 DEF RowOf
  <2>2. ASSUME NEW r \in c.mine PROVE RowOf(r)' # {}
    <3> DEFINE x == [record |-> r, by |-> i, parent |-> Parent[r]]
    <3>1. x \in written /\ x.record = r
      BY DEF written
    <3> HIDE DEF x
    <3> QED BY <1>3, <3>1 DEF RowOf
  <2> QED BY <2>1, <2>2
<1>7. TypeOK'
  <2>1. imports' \in [Imports -> ImportRows]
    <3> DEFINE row == [imports[i] EXCEPT !.state = "committed", !.report = c.decisions]
    <3>1. imports[i] \in ImportRows /\ c.decisions \in Decisions
      BY <1>2 DEF ImportInv, TypeOK, CallStates
    <3>2. row \in ImportRows
      BY <3>1 DEF ImportRows
    <3>3. imports' = [imports EXCEPT ![i] = row]
      BY <1>2, <1>3 DEF ImportInv, TypeOK
    <3> HIDE DEF row
    <3> QED BY <1>2, <3>2, <3>3 DEF ImportInv, TypeOK
  <2>2. sources' \in [Records -> Fingerprints \cup {None}]
    BY <1>3, <1>4 DEF ImportInv, TypeOK
  <2>3. written \subseteq [record : Records, by : Imports, parent : Records \cup {None}]
    BY <1>2, RecordAssumption DEF written, CallStates
  <2>4. calls' \in [Calls -> CallStates]
    BY <1>3, IdleCall DEF ImportInv, TypeOK
  <2> QED BY <1>3, <2>1, <2>2, <2>3, <2>4 DEF ImportInv, TypeOK
<1>8. CallsSound'
  <2> SUFFICES ASSUME NEW q \in Calls, q # p, calls[q] # NoCall PROVE Sound(calls[q])'
    <3>1. calls'[p] = NoCall /\ \A q \in Calls : q # p => calls'[q] = calls[q]
      BY <1>3 DEF ImportInv, TypeOK
    <3> QED BY <3>1, IdleCall DEF CallsSound, Sound
  <2>1. calls'[q] = calls[q] /\ Sound(calls[q]) /\ calls[q] \in CallStates
    BY <1>3 DEF ImportInv, CallsSound, TypeOK
  <2>2. /\ calls[q].import \in Imports
        /\ imports'[calls[q].import].state # "absent"
        /\ imports'[calls[q].import].bundle = imports[calls[q].import].bundle
    BY <1>2, <1>3, <2>1 DEF Sound, ImportInv, TypeOK, ImportRows
  <2>3. \A r \in calls[q].registered : sources'[r] = None
    BY <1>2, <1>3, <2>1 DEF Sound, ImportInv, KeysDisjoint, CallStates, c
  <2>4. \A t \in calls[q].targets : RowOf(t)' # {}
    BY <1>6, <2>1 DEF Sound, CallStates
  <2>5. ASSUME NEW m \in calls[q].mine, Parent[m] # None, Parent[m] \notin calls[q].mine
        PROVE  RowOf(Parent[m])' # {}
    <3>1. RowOf(Parent[m]) # {} /\ m \in Records
      BY <2>1, <2>5 DEF Sound, CallStates
    <3> QED BY <1>6, <2>5, <3>1, RecordAssumption
  <2>6. ValidIn(imports'[calls[q].import].bundle) = ValidIn(imports[calls[q].import].bundle)
    BY <2>2, Zenon
  <2> QED BY <2>1, <2>2, <2>3, <2>4, <2>5, <2>6 DEF Sound
<1>9. KeysDisjoint'
  <2>1. \A q \in Calls : calls'[q].registered \subseteq calls[q].registered
    BY <1>3 DEF NoCall, ImportInv, TypeOK
  <2> QED BY <2>1 DEF ImportInv, KeysDisjoint
<1>10. RowsRegistered'
  <2>1. \A x \in written : /\ x.record \in c.mine /\ x.parent = Parent[x.record]
                          /\ x = [record |-> x.record, by |-> i, parent |-> Parent[x.record]]
    BY DEF written
  <2>2. \A x \in rows : /\ x.record \in Records /\ sources[x.record] # None
                       /\ x.parent = Parent[x.record] /\ x.record \notin c.registered
    BY <1>4 DEF ImportInv, TypeOK, RowsRegistered
  <2>3. \A x \in rows' : sources'[x.record] # None /\ x.parent = Parent[x.record]
    BY <1>2, <1>3, <1>4, <2>1, <2>2
  <2>4. ASSUME NEW x \in rows', NEW y \in rows', x.record = y.record PROVE x = y
    <3>1. CASE x \in rows /\ y \in rows
      BY <2>4, <3>1 DEF ImportInv, RowsRegistered
    <3>2. CASE x \in written /\ y \in written
      BY <2>1, <2>4, <3>2
    <3> QED BY <1>2, <1>3, <2>1, <2>2, <2>4, <3>1, <3>2
  <2> QED BY <2>3, <2>4 DEF RowsRegistered
<1>11. TodosKept'
  <2> SUFFICES ASSUME NEW t \in Records, Kind[t] = "todo", sources'[t] # None
               PROVE  RowOf(t)' # {}
    BY DEF TodosKept
  <2>1. CASE t \in c.registered
    BY <1>2, <1>6, <2>1 DEF Sound
  <2>2. CASE t \notin c.registered
    BY <1>3, <1>6, <2>2 DEF ImportInv, TodosKept
  <2> QED BY <2>1, <2>2
<1>12. ParentsExist'
  <2> SUFFICES ASSUME NEW x \in rows', x.parent # None PROVE RowOf(x.parent)' # {}
    BY DEF ParentsExist
  <2>1. CASE x \in rows
    <3>1. RowOf(x.parent) # {} /\ x.parent \in Records
      BY <2>1 DEF ImportInv, ParentsExist, TypeOK
    <3> QED BY <1>6, <3>1
  <2>2. CASE x \in written
    <3>1. x.record \in c.mine /\ x.parent = Parent[x.record]
      BY <2>2 DEF written
    <3>2. Parent[x.record] \in c.mine \/ RowOf(Parent[x.record]) # {}
      BY <1>2, <2>2, <3>1 DEF Sound
    <3>3. Parent[x.record] \in Records
      BY <1>2, <3>1, RecordAssumption
    <3> QED BY <1>6, <3>1, <3>2, <3>3
  <2> QED BY <1>3, <2>1, <2>2
<1> QED BY <1>7, <1>8, <1>9, <1>10, <1>11, <1>12 DEF ImportInv

-------------------------------------------------------------------------------
(* Every step keeps the invariant.                                         *)
LEMMA StepKeeps == ImportInv /\ [Next]_vars => ImportInv'
<1> SUFFICES ASSUME ImportInv, [Next]_vars PROVE ImportInv'
  OBVIOUS
<1>1. ASSUME NEW i \in Imports, NEW b \in Bundles, Upload(i, b) PROVE ImportInv'
  BY <1>1, UploadKeeps
<1>2. ASSUME NEW i \in Imports, Expire(i) PROVE ImportInv'
  BY <1>2, ExpireKeeps
<1>3. ASSUME NEW r \in Records, AddChannel(r) \/ DeleteSession(r) PROVE ImportInv'
  BY <1>3, AddChannelKeeps, DeleteSessionKeeps
<1>4. ASSUME NEW p \in Calls, NEW i \in Imports, StartConfirm(p, i) PROVE ImportInv'
  BY <1>4, StartKeeps
<1>5. ASSUME NEW p \in Calls, DecideAgain(p) \/ ReadTargets(p) \/ Commit(p) \/ Fail(p)
      PROVE  ImportInv'
  BY <1>5, DecideKeeps, TargetsKeeps, CommitKeeps, FailKeeps
<1>6. ASSUME NEW p \in Calls, NEW r \in Records, Execute(p, r) PROVE ImportInv'
  BY <1>6, ExecuteKeeps
<1>7. CASE UNCHANGED vars
  <2> USE <1>7 DEF vars, ImportInv
  <2>1. TypeOK' /\ KeysDisjoint'
    BY DEF TypeOK, KeysDisjoint
  <2>2. CallsSound'
    BY DEF CallsSound, Sound, RowOf
  <2>3. RowsRegistered' /\ TodosKept' /\ ParentsExist'
    BY DEF RowsRegistered, TodosKept, ParentsExist, RowOf
  <2> QED BY <2>1, <2>2, <2>3
<1> QED BY <1>1, <1>2, <1>3, <1>4, <1>5, <1>6, <1>7 DEF Next

(* One row per record, and only of a registered one.                       *)
LEMMA OneRowEach == ImportInv => ImportedOnce
<1> SUFFICES ASSUME ImportInv, NEW r \in Records
             PROVE  /\ Cardinality(RowOf(r)) <= 1
                    /\ RowOf(r) # {} => sources[r] # None
  BY DEF ImportedOnce
<1>1. RowOf(r) # {} => sources[r] # None
  BY DEF ImportInv, RowsRegistered, RowOf
<1>2. CASE RowOf(r) = {}
  <2>1. Cardinality({}) = 0
    BY FS_EmptySet
  <2> QED BY <1>1, <1>2, <2>1
<1>3. CASE RowOf(r) # {}
  <2>1. PICK x : RowOf(r) = {x}
    BY <1>3 DEF ImportInv, RowsRegistered, RowOf
  <2>2. Cardinality({x}) = 1
    BY FS_Singleton
  <2> QED BY <1>1, <2>1, <2>2
<1> QED BY <1>1, <1>2, <1>3

(* The inductive invariant (upload.go, confirm.go, conversations.go).      *)
THEOREM ImportInvariance == Spec => []ImportInv
<1>1. Init => ImportInv
  BY InitSound
<1>2. ImportInv /\ [Next]_vars => ImportInv'
  BY StepKeeps
<1> QED BY <1>1, <1>2, PTL DEF Spec

(* The rows, calls and imports keep their types.                           *)
THEOREM ImportTypes == Spec => []TypeOK
<1>1. ImportInv => TypeOK
  BY DEF ImportInv
<1> QED BY <1>1, ImportInvariance, PTL

(* However imports of one source overlap, a source record becomes at most  *)
(* one row, and a row's record is registered (SourceRecordStore.Register). *)
THEOREM NothingTwice == Spec => []ImportedOnce
<1> QED BY OneRowEach, ImportInvariance, PTL

(* No imported delivery or message is ever without its todo or session     *)
(* (executeConversations, previouslyImportedTodoIDs).                      *)
THEOREM NoOrphans == Spec => []ParentsExist
<1>1. ImportInv => ParentsExist
  BY DEF ImportInv
<1> QED BY <1>1, ImportInvariance, PTL

-------------------------------------------------------------------------------
(***************************************************************************)
(* What ImportFlow tells its user: the report of an import is true of the  *)
(* rows and registrations, and keeps what the preview said would be left   *)
(* alone, however imports overlap.  ReportInv is the second layer of the   *)
(* invariant, on top of ImportInv.                                         *)
(***************************************************************************)

(* The outcomes a preview promises to leave alone.                         *)
Kept == {"skipped", "conflict", "invalid"}

(***************************************************************************)
(* A request's plan between its steps: what is new is to be executed or    *)
(* has been written, what is skipped or in conflict is registered or will  *)
(* be with this transaction, and what the preview promised to leave alone  *)
(* was decided so again.                                                   *)
(***************************************************************************)
Planned(c) ==
    c # NoCall =>
        /\ c.step \in {"decide", "targets"} => c.todo = {} /\ c.registered = {}
        /\ c.todo \cap c.registered = {}
        /\ \A r \in c.todo \cup c.mine : c.decisions[r] = "new"
        /\ c.step = "execute" =>
              \A r \in Records : c.decisions[r] = "new" => r \in c.todo \cup c.mine
        /\ \A r \in Records : c.decisions[r] \in {"skipped", "conflict"} =>
              Stored(r) # None \/ r \in c.registered
        /\ \A r \in Records : c.decisions[r] = "new" => r \notin Legacy
        /\ c.registered \cap Legacy = {}
        /\ c.step # "decide" =>
              \A r \in Records : imports[c.import].preview[r] \in Kept =>
                  c.decisions[r] = imports[c.import].preview[r]

CallsPlanned == \A p \in Calls : Planned(calls[p])

(* A legacy registration is never replaced by one of an owner.             *)
LegacyUnregistered == \A r \in Legacy : sources[r] = None

(* A promise is still what deciding again would say.                       *)
PromisesStable ==
    \A i \in Imports, r \in Records :
        imports[i].state # "absent" /\ imports[i].preview[r] \in Kept =>
            Classify(imports[i].bundle)[r] = imports[i].preview[r]

(* A row was reported as new by the committed import it is of.             *)
RowsReported ==
    \A x \in rows : imports[x.by].state = "committed" /\ imports[x.by].report[x.record] = "new"

(* What a committed import reported stays true, and others report nothing. *)
ReportTrue(i) ==
    /\ imports[i].state # "committed" => imports[i].report = NoDecisions
    /\ imports[i].state = "committed" =>
          \A r \in Records :
              /\ imports[i].report[r] = "new" /\ Kind[r] \notin {"session", "message"} =>
                    \E x \in rows : x.by = i /\ x.record = r
              /\ imports[i].report[r] \in {"skipped", "conflict"} => Stored(r) # None
              /\ imports[i].preview[r] \in Kept => imports[i].report[r] = imports[i].preview[r]

ReportsTrue == \A i \in Imports : ReportTrue(i)

ReportInv ==
    /\ CallsPlanned
    /\ LegacyUnregistered
    /\ PromisesStable
    /\ RowsReported
    /\ ReportsTrue

-------------------------------------------------------------------------------
(* Initially nothing is decided.                                           *)
LEMMA InitTrue == Init => ReportInv
<1> SUFFICES ASSUME Init PROVE ReportInv
  OBVIOUS
<1>1. CallsPlanned
  BY DEF Init, CallsPlanned, Planned
<1>2. LegacyUnregistered
  BY RecordAssumption DEF Init, LegacyUnregistered
<1>3. PromisesStable /\ RowsReported /\ ReportsTrue
  BY DEF Init, PromisesStable, RowsReported, ReportsTrue, ReportTrue, NoImport
<1> QED BY <1>1, <1>2, <1>3 DEF ReportInv

(* A new record has no registration, neither an owner's nor a legacy one;  *)
(* a skipped one or one in conflict has.                                   *)
LEMMA ClassifyStored ==
    ASSUME NEW b \in Bundles \cup {EmptyBundle}, NEW r \in Records
    PROVE  /\ Classify(b)[r] = "new" => Stored(r) = None /\ r \notin Legacy
           /\ Classify(b)[r] \in {"skipped", "conflict"} => Stored(r) # None
<1>1. Stored(r) = None => r \notin Legacy
  BY RecordAssumption DEF Stored
<1>2. Classify(b)[r] = IF r \notin DOMAIN b THEN "none"
                       ELSE IF Valid(b, r) THEN Decide(b[r], Stored(r)) ELSE "invalid"
  BY DEF Classify
<1>3. CASE r \in DOMAIN b /\ Valid(b, r)
  <2>1. b[r] # None
    BY <1>3, ValidContent, RecordAssumption DEF ValidIn
  <2> QED BY <1>1, <1>2, <1>3, <2>1 DEF Decide
<1> QED BY <1>2, <1>3

(* A step that changes one request's plan and nothing else.                *)
LEMMA PlanStep ==
    ASSUME ImportInv, ReportInv,
           NEW p \in Calls, NEW c, Planned(c),
           calls' = [calls EXCEPT ![p] = c],
           UNCHANGED <<imports, sources, rows, channels>>
    PROVE  ReportInv'
<1>1. \A q \in Calls : calls'[q] = IF q = p THEN c ELSE calls[q]
  BY DEF ImportInv, TypeOK
<1>2. CallsPlanned'
  <2> SUFFICES ASSUME NEW q \in Calls PROVE Planned(calls[q])'
    BY DEF CallsPlanned
  <2>1. Planned(calls'[q])
    BY <1>1 DEF ReportInv, CallsPlanned
  <2> QED BY <2>1 DEF Planned, Stored
<1>3. LegacyUnregistered' /\ RowsReported' /\ ReportsTrue'
  BY DEF ReportInv, LegacyUnregistered, RowsReported, ReportsTrue, ReportTrue, Stored
<1>4. PromisesStable'
  BY DEF ReportInv, PromisesStable, Classify, Stored, Valid
<1> QED BY <1>2, <1>3, <1>4 DEF ReportInv

(* The statements of a request.                                            *)
LEMMA StartPlanned ==
    ASSUME ImportInv, ReportInv, NEW p \in Calls, NEW i \in Imports, StartConfirm(p, i)
    PROVE  ReportInv'
<1> DEFINE c == [NoCall EXCEPT !.step = "decide", !.import = i]
<1>1. Planned(c)
  BY DEF Planned, NoCall, NoDecisions
<1>2. calls' = [calls EXCEPT ![p] = c] /\ UNCHANGED <<imports, sources, rows, channels>>
  BY DEF StartConfirm
<1> HIDE DEF c
<1> QED BY <1>1, <1>2, PlanStep

(* A rollback leaves nothing planned.                                      *)
LEMMA FailPlanned ==
    ASSUME ImportInv, ReportInv, NEW p \in Calls, Fail(p)
    PROVE  ReportInv'
<1>1. Planned(NoCall)
  BY DEF Planned
<1> QED BY <1>1, PlanStep DEF Fail

(* What a request in progress has planned.                                 *)
LEMMA PlanInProgress ==
    ASSUME ImportInv, ReportInv, NEW p \in Calls, calls[p].step # "idle"
    PROVE  Planned(calls[p]) /\ calls[p] # NoCall
  BY InProgress DEF ReportInv, CallsPlanned

(* Deciding again agrees with the promises of the preview.                 *)
LEMMA DecidePlanned ==
    ASSUME ImportInv, ReportInv, NEW p \in Calls, DecideAgain(p)
    PROVE  ReportInv'
<1> DEFINE c == [calls[p] EXCEPT !.step = "targets", !.decisions = Classify(BundleOf(p))]
<1>1. calls[p].step = "decide" /\ calls[p].step # "idle"
  BY DEF DecideAgain
<1>2. /\ c.step = "targets" /\ c.import = calls[p].import /\ c.todo = calls[p].todo
      /\ c.mine = calls[p].mine /\ c.registered = calls[p].registered
      /\ c.decisions = Classify(BundleOf(p))
  BY <1>1, InProgress DEF CallStates
<1>3. calls' = [calls EXCEPT ![p] = c] /\ UNCHANGED <<imports, sources, rows, channels>>
  BY DEF DecideAgain
<1> HIDE DEF c
<1>4. c.todo = {} /\ c.registered = {} /\ c.mine = {}
  BY <1>1, <1>2, InProgress, PlanInProgress DEF Planned, Sound
<1>5. \A r \in Records : imports[c.import].preview[r] \in Kept =>
                             c.decisions[r] = imports[c.import].preview[r]
  BY <1>1, <1>2, InProgress DEF ReportInv, PromisesStable
<1>6. BundleOf(p) \in Bundles \cup {EmptyBundle}
  BY <1>1, InProgress
<1>7. Planned(c)
  BY <1>2, <1>4, <1>5, <1>6, ClassifyStored DEF Planned
<1> QED BY <1>3, <1>7, PlanStep

(* What is planned is what was decided to be new and has its parent.       *)
LEMMA TargetsPlanned ==
    ASSUME ImportInv, ReportInv, NEW p \in Calls, ReadTargets(p)
    PROVE  ReportInv'
<1> DEFINE b == BundleOf(p)
           news == {r \in DOMAIN b : calls[p].decisions[r] = "new"}
           found == {t \in Records : /\ Kind[t] = "todo" /\ sources[t] # None
                                     /\ \E d \in DOMAIN b : Parent[d] = t /\ Valid(b, d)}
           c == [calls[p] EXCEPT !.step = "execute", !.todo = news, !.targets = found]
<1>1. calls[p].step = "targets" /\ calls[p].step # "idle"
  BY DEF ReadTargets
<1>2. /\ c.step = "execute" /\ c.import = calls[p].import /\ c.todo = news
      /\ c.mine = calls[p].mine /\ c.registered = calls[p].registered
      /\ c.decisions = calls[p].decisions
  BY <1>1, InProgress DEF CallStates
<1>3. calls' = [calls EXCEPT ![p] = c] /\ UNCHANGED <<imports, sources, rows, channels>>
  BY DEF ReadTargets
<1>4. \A r \in Records : calls[p].decisions[r] = "new" => r \in news
  BY <1>1, InProgress DEF Sound, ValidIn
<1>5. \A r \in news : calls[p].decisions[r] = "new"
  OBVIOUS
<1> HIDE DEF c, news, found
<1>6. c.registered = {} /\ c.mine = {}
  BY <1>1, <1>2, InProgress, PlanInProgress DEF Planned, Sound
<1>7. Planned(c)
  BY <1>1, <1>2, <1>4, <1>5, <1>6, PlanInProgress DEF Planned
<1> QED BY <1>3, <1>7, PlanStep

(* A row is written, or the record revised.                                *)
LEMMA WritePlanned ==
    ASSUME ImportInv, ReportInv, NEW p \in Calls, NEW r \in Records,
           IsNext(p, r), WriteRow(p, r)
    PROVE  ReportInv'
<1> DEFINE c == [Executed(p, r) EXCEPT !.mine = @ \cup {r}, !.registered = @ \cup {r}]
<1>1. calls[p].step = "execute" /\ calls[p].step # "idle" /\ r \in calls[p].todo
  BY DEF IsNext
<1>2. /\ c.step = "execute" /\ c.import = calls[p].import /\ c.todo = calls[p].todo \ {r}
      /\ c.mine = calls[p].mine \cup {r} /\ c.registered = calls[p].registered \cup {r}
      /\ c.decisions = calls[p].decisions
  BY <1>1, InProgress DEF CallStates, Executed
<1>3. calls' = [calls EXCEPT ![p] = c] /\ UNCHANGED <<imports, sources, rows, channels>>
  BY DEF WriteRow
<1> HIDE DEF c
<1>4. Planned(calls[p]) /\ calls[p] # NoCall
  BY <1>1, PlanInProgress
<1>5. Planned(c)
  BY <1>1, <1>2, <1>4 DEF Planned
<1> QED BY <1>3, <1>5, PlanStep

(* A record that cannot be written is not reported as new.                 *)
LEMMA RevisePlanned ==
    ASSUME ImportInv, ReportInv, NEW p \in Calls, NEW r \in Records,
           IsNext(p, r), Revise(p, r, "invalid")
    PROVE  ReportInv'
<1> DEFINE c == [Executed(p, r) EXCEPT !.decisions[r] = "invalid"]
<1>1. calls[p].step = "execute" /\ calls[p].step # "idle" /\ r \in calls[p].todo
  BY DEF IsNext
<1>2. /\ c.step = "execute" /\ c.import = calls[p].import /\ c.todo = calls[p].todo \ {r}
      /\ c.mine = calls[p].mine /\ c.registered = calls[p].registered
      /\ c.decisions = [calls[p].decisions EXCEPT ![r] = "invalid"]
  BY <1>1, InProgress DEF CallStates, Executed
<1>3. calls' = [calls EXCEPT ![p] = c] /\ UNCHANGED <<imports, sources, rows, channels>>
  BY DEF Revise
<1> HIDE DEF c
<1>4. Planned(calls[p]) /\ calls[p] # NoCall /\ Sound(calls[p]) /\ calls[p].decisions \in Decisions
  BY <1>1, PlanInProgress, InProgress DEF CallStates
<1>5. \A s \in Records : c.decisions[s] = IF s = r THEN "invalid" ELSE calls[p].decisions[s]
  BY <1>2, <1>4 DEF Decisions
<1>6. r \notin calls[p].mine /\ calls[p].mine \subseteq Records /\ calls[p].todo \subseteq Records
  BY <1>1, <1>4, InProgress DEF Planned, Sound, CallStates
<1>7. calls[p].decisions[r] = "new"
  BY <1>1, <1>4 DEF Planned
<1>8. Planned(c)
  BY <1>1, <1>2, <1>4, <1>5, <1>6, <1>7 DEF Planned, Kept
<1> QED BY <1>3, <1>8, PlanStep

(* A channel that exists is reported as skipped.                           *)
LEMMA ChannelPlanned ==
    ASSUME ImportInv, ReportInv, NEW p \in Calls, NEW r \in Records, ImportChannel(p, r)
    PROVE  ReportInv'
<1>1. CASE ~ChannelExists(r)
  BY <1>1, WritePlanned DEF ImportChannel
<1>2. CASE ChannelExists(r)
  <2> DEFINE c == [Executed(p, r) EXCEPT !.decisions[r] = "skipped",
                                         !.registered = @ \cup {r}]
  <2>1. calls[p].step = "execute" /\ calls[p].step # "idle" /\ r \in calls[p].todo
    BY DEF IsNext, ImportChannel
  <2>2. /\ c.step = "execute" /\ c.import = calls[p].import /\ c.todo = calls[p].todo \ {r}
        /\ c.mine = calls[p].mine /\ c.registered = calls[p].registered \cup {r}
        /\ c.decisions = [calls[p].decisions EXCEPT ![r] = "skipped"]
    BY <2>1, InProgress DEF CallStates, Executed
  <2>3. calls' = [calls EXCEPT ![p] = c] /\ UNCHANGED <<imports, sources, rows, channels>>
    BY <1>2 DEF ImportChannel
  <2> HIDE DEF c
  <2>4. Planned(calls[p]) /\ calls[p] # NoCall /\ Sound(calls[p]) /\ calls[p].decisions \in Decisions
    BY <2>1, PlanInProgress, InProgress DEF CallStates
  <2>5. \A s \in Records : c.decisions[s] = IF s = r THEN "skipped" ELSE calls[p].decisions[s]
    BY <2>2, <2>4 DEF Decisions
  <2>6. r \notin calls[p].mine /\ calls[p].mine \subseteq Records /\ calls[p].todo \subseteq Records
    BY <2>1, <2>4, InProgress DEF Planned, Sound, CallStates
  <2>7. calls[p].decisions[r] = "new" /\ r \notin Legacy
    BY <2>1, <2>4 DEF Planned
  <2>8. Planned(c)
    BY <2>1, <2>2, <2>4, <2>5, <2>6, <2>7 DEF Planned, Kept
  <2> QED BY <2>3, <2>8, PlanStep
<1> QED BY <1>1, <1>2

(* So every step of the execution keeps the plan.                          *)
LEMMA ExecutePlanned ==
    ASSUME ImportInv, ReportInv, NEW p \in Calls, NEW r \in Records, Execute(p, r)
    PROVE  ReportInv'
<1>1. CASE ImportChannel(p, r)
  BY <1>1, ChannelPlanned
<1>2. CASE ImportTodo(p, r)
  BY <1>2, WritePlanned DEF ImportTodo
<1>3. CASE ImportDelivery(p, r)
  BY <1>3, WritePlanned, RevisePlanned DEF ImportDelivery
<1>4. CASE ImportSession(p, r)
  BY <1>4, WritePlanned DEF ImportSession
<1>5. CASE ImportMessage(p, r)
  BY <1>5, WritePlanned, RevisePlanned DEF ImportMessage
<1> QED BY <1>1, <1>2, <1>3, <1>4, <1>5 DEF Execute

-------------------------------------------------------------------------------
(* The steps that change something else than one request.                  *)
LEMMA UploadTrue ==
    ASSUME ImportInv, ReportInv, NEW i \in Imports, NEW b \in Bundles, Upload(i, b)
    PROVE  ReportInv'
<1> DEFINE row == [NoImport EXCEPT !.state = "pending", !.bundle = b, !.preview = Classify(b)]
<1>1. /\ row.state = "pending" /\ row.bundle = b /\ row.preview = Classify(b)
      /\ row.report = NoDecisions
  BY DEF NoImport
<1>2. imports' = [imports EXCEPT ![i] = row] /\ UNCHANGED <<sources, rows, channels, calls>>
  BY DEF Upload
<1>3. imports[i].state = "absent"
  BY DEF Upload
<1> HIDE DEF row
<1>4. \A j \in Imports : imports'[j] = IF j = i THEN row ELSE imports[j]
  BY <1>2 DEF ImportInv, TypeOK
<1>5. CallsPlanned'
  <2> SUFFICES ASSUME NEW p \in Calls, calls[p] # NoCall PROVE Planned(calls[p])'
    BY <1>2 DEF CallsPlanned, Planned
  <2>1. Planned(calls[p]) /\ Sound(calls[p])
    BY DEF ReportInv, CallsPlanned, ImportInv, CallsSound
  <2>2. imports'[calls[p].import] = imports[calls[p].import]
    BY <1>3, <1>4, <2>1 DEF Sound
  <2> QED BY <1>2, <2>1, <2>2 DEF Planned, Stored
<1>6. LegacyUnregistered'
  BY <1>2 DEF ReportInv, LegacyUnregistered
<1>7. PromisesStable'
  <2>1. \A c : Classify(c)' = Classify(c)
    BY <1>2 DEF Classify, Stored, Valid
  <2> QED BY <1>1, <1>4, <2>1 DEF ReportInv, PromisesStable
<1>8. RowsReported'
  BY <1>2, <1>3, <1>4 DEF ReportInv, RowsReported, ImportInv, TypeOK
<1>9. ReportsTrue'
  <2> SUFFICES ASSUME NEW j \in Imports PROVE ReportTrue(j)'
    BY DEF ReportsTrue
  <2>1. CASE j = i
    BY <1>1, <1>4, <2>1 DEF ReportTrue
  <2>2. CASE j # i
    BY <1>2, <1>4, <2>2 DEF ReportInv, ReportsTrue, ReportTrue, Stored
  <2> QED BY <2>1, <2>2
<1> QED BY <1>5, <1>6, <1>7, <1>8, <1>9 DEF ReportInv

(* Expiry changes no report.                                               *)
LEMMA ExpireTrue ==
    ASSUME ImportInv, ReportInv, NEW i \in Imports, Expire(i)
    PROVE  ReportInv'
<1>1. \A j \in Imports :
         /\ imports'[j].state = imports[j].state /\ imports'[j].bundle = imports[j].bundle
         /\ imports'[j].preview = imports[j].preview /\ imports'[j].report = imports[j].report
  BY DEF Expire, ImportInv, TypeOK, ImportRows
<1>2. UNCHANGED <<sources, rows, channels, calls>>
  BY DEF Expire
<1>3. CallsPlanned'
  <2> SUFFICES ASSUME NEW p \in Calls, calls[p] # NoCall PROVE Planned(calls[p])'
    BY <1>2 DEF CallsPlanned, Planned
  <2>1. Planned(calls[p]) /\ calls[p].import \in Imports
    BY DEF ReportInv, CallsPlanned, ImportInv, CallsSound, Sound
  <2> QED BY <1>1, <1>2, <2>1 DEF Planned, Stored
<1>4. LegacyUnregistered' /\ RowsReported'
  BY <1>1, <1>2 DEF ReportInv, LegacyUnregistered, RowsReported, ImportInv, TypeOK
<1>5. PromisesStable'
  <2>1. \A c : Classify(c)' = Classify(c)
    BY <1>2 DEF Classify, Stored, Valid
  <2> QED BY <1>1, <2>1 DEF ReportInv, PromisesStable
<1>6. ReportsTrue'
  BY <1>1, <1>2 DEF ReportInv, ReportsTrue, ReportTrue, Stored
<1> QED BY <1>3, <1>4, <1>5, <1>6 DEF ReportInv

(* Nor does a channel that the user adds.                                  *)
LEMMA AddChannelTrue ==
    ASSUME ImportInv, ReportInv, NEW r \in Records, AddChannel(r)
    PROVE  ReportInv'
<1>1. UNCHANGED <<imports, sources, rows, calls>>
  BY DEF AddChannel
<1>2. CallsPlanned' /\ LegacyUnregistered' /\ RowsReported' /\ ReportsTrue'
  BY <1>1 DEF ReportInv, CallsPlanned, Planned, Stored, LegacyUnregistered, RowsReported,
              ReportsTrue, ReportTrue
<1>3. PromisesStable'
  BY <1>1 DEF ReportInv, PromisesStable, Classify, Stored, Valid
<1> QED BY <1>2, <1>3 DEF ReportInv

(* Only rows of sessions and messages are ever deleted.                    *)
LEMMA DeleteSessionTrue ==
    ASSUME ImportInv, ReportInv, NEW s \in Records, DeleteSession(s)
    PROVE  ReportInv'
<1>1. /\ Kind[s] = "session" /\ rows' = {x \in rows : x.record # s /\ Parent[x.record] # s}
      /\ UNCHANGED <<imports, sources, channels, calls>>
  BY DEF DeleteSession
<1>2. \A r \in Records : Kind[r] \notin {"session", "message"} => r # s /\ Parent[r] # s
  BY <1>1, RecordAssumption
<1>3. CallsPlanned' /\ LegacyUnregistered' /\ RowsReported'
  BY <1>1 DEF ReportInv, CallsPlanned, Planned, Stored, LegacyUnregistered, RowsReported
<1>4. PromisesStable'
  BY <1>1 DEF ReportInv, PromisesStable, Classify, Stored, Valid
<1>5. ReportsTrue'
  <2> SUFFICES ASSUME NEW i \in Imports PROVE ReportTrue(i)'
    BY DEF ReportsTrue
  <2>1. ReportTrue(i)
    BY DEF ReportInv, ReportsTrue
  <2>2. ASSUME NEW r \in Records, Kind[r] \notin {"session", "message"},
               NEW x \in rows, x.record = r
        PROVE  x \in rows'
    BY <1>1, <1>2, <2>2
  <2> QED BY <1>1, <2>1, <2>2 DEF ReportTrue, Stored
<1> QED BY <1>3, <1>4, <1>5 DEF ReportInv

(* The commit makes the plan the report.                                   *)
LEMMA CommitTrue ==
    ASSUME ImportInv, ReportInv, NEW p \in Calls, Commit(p)
    PROVE  ReportInv'
<1> DEFINE c == calls[p]
           i == c.import
           b == BundleOf(p)
           written == {[record |-> r, by |-> i, parent |-> Parent[r]] : r \in c.mine}
<1>1. c.step = "execute" /\ c.todo = {} /\ c.step # "idle" /\ imports[i].state = "pending"
  BY DEF Commit, StillPending
<1>2. /\ c \in CallStates /\ Sound(c) /\ c # NoCall /\ i \in Imports /\ Planned(c)
      /\ b \in Bundles \cup {EmptyBundle}
      /\ c.mine \subseteq c.registered /\ c.registered \subseteq ValidIn(b)
      /\ c.registered \subseteq Records
  BY <1>1, InProgress, PlanInProgress DEF Sound
<1>3. /\ imports' = [imports EXCEPT ![i].state = "committed", ![i].report = c.decisions]
      /\ sources' = [r \in Records |-> IF r \in c.registered THEN b[r] ELSE sources[r]]
      /\ rows' = rows \cup written
      /\ calls' = [calls EXCEPT ![p] = NoCall]
  BY DEF Commit
<1>4. \A r \in c.registered : b[r] # None /\ sources[r] = None /\ r \notin Legacy
  BY <1>2, ValidContent, RecordAssumption DEF Sound, Planned
<1>5. /\ \A j \in Imports : j # i => imports'[j] = imports[j]
      /\ imports'[i].state = "committed" /\ imports'[i].report = c.decisions
      /\ imports'[i].bundle = imports[i].bundle /\ imports'[i].preview = imports[i].preview
  BY <1>2, <1>3 DEF ImportInv, TypeOK, ImportRows
<1> HIDE DEF c, i, b, written
<1>6. \A r \in Records : /\ r \in c.registered => Stored(r)' # None /\ Stored(r) = None
                         /\ r \notin c.registered => Stored(r)' = Stored(r)
  BY <1>3, <1>4 DEF Stored
<1>7. CallsPlanned'
  <2> SUFFICES ASSUME NEW q \in Calls, q # p, calls[q] # NoCall PROVE Planned(calls[q])'
    <3>1. calls'[p] = NoCall /\ \A q \in Calls : q # p => calls'[q] = calls[q]
      BY <1>3 DEF ImportInv, TypeOK
    <3> QED BY <3>1 DEF CallsPlanned, Planned
  <2>1. calls'[q] = calls[q] /\ Planned(calls[q]) /\ calls[q].import \in Imports
    BY <1>3 DEF ReportInv, CallsPlanned, ImportInv, CallsSound, Sound, TypeOK
  <2>2. imports'[calls[q].import].preview = imports[calls[q].import].preview
    BY <1>5, <2>1
  <2> QED BY <1>6, <2>1, <2>2 DEF Planned
<1>8. LegacyUnregistered'
  BY <1>3, <1>4, RecordAssumption DEF ReportInv, LegacyUnregistered
<1>9. PromisesStable'
  <2> SUFFICES ASSUME NEW j \in Imports, NEW r \in Records,
                      imports[j].state # "absent", imports[j].preview[r] \in Kept
               PROVE  Classify(imports[j].bundle)'[r] = imports[j].preview[r]
    BY <1>1, <1>5 DEF PromisesStable
  <2> DEFINE old == imports[j].bundle
  <2>1. /\ Classify(old)[r] = imports[j].preview[r] /\ old \in Bundles \cup {EmptyBundle}
        /\ imports'[j].bundle = old
    BY <1>5 DEF ReportInv, PromisesStable, ImportInv, TypeOK, ImportRows
  <2>2. Classify(old)[r] = IF r \notin DOMAIN old THEN "none"
                           ELSE IF Valid(old, r) THEN Decide(old[r], Stored(r)) ELSE "invalid"
    BY DEF Classify
  <2>3. Classify(imports[j].bundle)'[r]
          = IF r \notin DOMAIN old THEN "none"
            ELSE IF Valid(old, r) THEN Decide(old[r], Stored(r)') ELSE "invalid"
    BY <2>1 DEF Classify, Valid, Decide, Stored
  <2> HIDE DEF old
  <2>4. CASE r \notin DOMAIN old \/ ~Valid(old, r) \/ r \notin c.registered
    BY <1>6, <2>1, <2>2, <2>3, <2>4
  <2>5. CASE r \in DOMAIN old /\ Valid(old, r) /\ r \in c.registered
    <3>1. old[r] # None /\ Stored(r) = None
      BY <1>6, <2>1, <2>5, ValidContent, RecordAssumption DEF ValidIn
    <3>2. Classify(old)[r] = "new"
      BY <2>2, <2>5, <3>1 DEF Decide
    <3> QED BY <2>1, <3>2 DEF Kept
  <2> QED BY <2>4, <2>5
<1>10. RowsReported'
  <2>1. ASSUME NEW x \in rows
        PROVE  imports'[x.by].state = "committed" /\ imports'[x.by].report[x.record] = "new"
    BY <1>1, <1>5 DEF ReportInv, RowsReported, ImportInv, TypeOK
  <2>2. ASSUME NEW x \in written
        PROVE  imports'[x.by].state = "committed" /\ imports'[x.by].report[x.record] = "new"
    BY <1>2, <1>5 DEF written, Planned
  <2> QED BY <1>3, <2>1, <2>2 DEF RowsReported
<1>11. ReportsTrue'
  <2> SUFFICES ASSUME NEW j \in Imports PROVE ReportTrue(j)'
    BY DEF ReportsTrue
  <2>1. CASE j # i
    <3>1. imports'[j] = imports[j] /\ ReportTrue(j)
      BY <1>5, <2>1 DEF ReportInv, ReportsTrue, ImportInv, TypeOK, ImportRows
    <3>2. rows \subseteq rows'
      BY <1>3
    <3>3. ASSUME NEW r \in Records, Stored(r) # None
          PROVE  Stored(r)' # None
      BY <1>6, <3>3
    <3>4. ASSUME NEW r \in Records, imports[j].state = "committed",
                 imports[j].report[r] = "new", Kind[r] \notin {"session", "message"}
          PROVE  \E x \in rows' : x.by = j /\ x.record = r
      BY <3>1, <3>2, <3>4 DEF ReportTrue
    <3>5. ASSUME NEW r \in Records, imports[j].state = "committed",
                 imports[j].report[r] \in {"skipped", "conflict"}
          PROVE  Stored(r)' # None
      BY <3>1, <3>3, <3>5 DEF ReportTrue
    <3> QED BY <3>1, <3>4, <3>5 DEF ReportTrue
  <2>2. CASE j = i
    <3>1. ASSUME NEW r \in Records, c.decisions[r] = "new"
          PROVE  \E x \in rows' : x.by = i /\ x.record = r
      <4> DEFINE x == [record |-> r, by |-> i, parent |-> Parent[r]]
      <4>1. x \in written /\ x.by = i /\ x.record = r
        BY <1>1, <1>2, <3>1 DEF written, Planned
      <4> HIDE DEF x
      <4> QED BY <1>3, <4>1
    <3>2. ASSUME NEW r \in Records, c.decisions[r] \in {"skipped", "conflict"}
          PROVE  Stored(r)' # None
      BY <1>2, <1>6, <3>2 DEF Planned
    <3>3. ASSUME NEW r \in Records, imports[i].preview[r] \in Kept
          PROVE  c.decisions[r] = imports[i].preview[r]
      BY <1>1, <1>2, <3>3 DEF Planned, i
    <3> QED BY <1>5, <2>2, <3>1, <3>2, <3>3 DEF ReportTrue
  <2> QED BY <2>1, <2>2
<1> QED BY <1>7, <1>8, <1>9, <1>10, <1>11 DEF ReportInv

-------------------------------------------------------------------------------
(* Every step keeps the reports true.                                      *)
LEMMA StepTrue == ImportInv /\ ReportInv /\ [Next]_vars => ReportInv'
<1> SUFFICES ASSUME ImportInv, ReportInv, [Next]_vars PROVE ReportInv'
  OBVIOUS
<1>1. ASSUME NEW i \in Imports, NEW b \in Bundles, Upload(i, b) PROVE ReportInv'
  BY <1>1, UploadTrue
<1>2. ASSUME NEW i \in Imports, Expire(i) PROVE ReportInv'
  BY <1>2, ExpireTrue
<1>3. ASSUME NEW r \in Records, AddChannel(r) \/ DeleteSession(r) PROVE ReportInv'
  BY <1>3, AddChannelTrue, DeleteSessionTrue
<1>4. ASSUME NEW p \in Calls, NEW i \in Imports, StartConfirm(p, i) PROVE ReportInv'
  BY <1>4, StartPlanned
<1>5. ASSUME NEW p \in Calls, DecideAgain(p) \/ ReadTargets(p) \/ Commit(p) \/ Fail(p)
      PROVE  ReportInv'
  BY <1>5, DecidePlanned, TargetsPlanned, CommitTrue, FailPlanned
<1>6. ASSUME NEW p \in Calls, NEW r \in Records, Execute(p, r) PROVE ReportInv'
  BY <1>6, ExecutePlanned
<1>7. CASE UNCHANGED vars
  <2>1. UNCHANGED <<imports, sources, rows, channels, calls>>
    BY <1>7 DEF vars
  <2>2. CallsPlanned' /\ LegacyUnregistered' /\ RowsReported' /\ ReportsTrue'
    BY <2>1 DEF ReportInv, CallsPlanned, Planned, Stored, LegacyUnregistered, RowsReported,
                ReportsTrue, ReportTrue
  <2>3. PromisesStable'
    BY <2>1 DEF ReportInv, PromisesStable, Classify, Stored, Valid
  <2> QED BY <2>2, <2>3 DEF ReportInv
<1> QED BY <1>1, <1>2, <1>3, <1>4, <1>5, <1>6, <1>7 DEF Next

(* The strengthened invariant of the reports.                              *)
THEOREM ReportInvariance == Spec => []ReportInv
<1>1. Init => ImportInv /\ ReportInv
  BY InitSound, InitTrue
<1>2. ImportInv /\ ReportInv /\ [Next]_vars => ImportInv' /\ ReportInv'
  BY StepKeeps, StepTrue
<1> QED BY <1>1, <1>2, PTL DEF Spec

(* The report of a committed import says what it wrote and what was        *)
(* registered, and an import that is not committed wrote nothing           *)
(* (buildReport, ImportStore.Commit).                                      *)
THEOREM ReportsAreTrue == Spec => []ReportTruthful
<1>1. ImportInv /\ ReportInv => ReportTruthful
  <2> SUFFICES ASSUME ImportInv, ReportInv, NEW i \in Imports
               PROVE  /\ CreatedBy(i) \subseteq ReportedAs(i, "new")
                      /\ \A r \in ReportedAs(i, "new") \ CreatedBy(i) :
                            Kind[r] \in {"session", "message"}
                      /\ \A r \in ReportedAs(i, "skipped") \cup ReportedAs(i, "conflict") :
                            Stored(r) # None
                      /\ imports[i].state # "committed" => CreatedBy(i) = {}
    BY DEF ReportTruthful
  <2>1. CreatedBy(i) \subseteq ReportedAs(i, "new")
    BY DEF CreatedBy, ReportedAs, ReportInv, RowsReported, ImportInv, TypeOK
  <2>2. imports[i].state # "committed" => CreatedBy(i) = {}
    BY DEF CreatedBy, ReportInv, RowsReported
  <2>3. imports[i].state # "committed" => \A r \in Records : imports[i].report[r] = "none"
    BY DEF ReportInv, ReportsTrue, ReportTrue, NoDecisions
  <2>4. \A r \in ReportedAs(i, "new") \ CreatedBy(i) : Kind[r] \in {"session", "message"}
    BY <2>3 DEF CreatedBy, ReportedAs, ReportInv, ReportsTrue, ReportTrue
  <2>5. \A r \in ReportedAs(i, "skipped") \cup ReportedAs(i, "conflict") : Stored(r) # None
    BY <2>3 DEF ReportedAs, ReportInv, ReportsTrue, ReportTrue
  <2> QED BY <2>1, <2>2, <2>4, <2>5
<1> QED BY <1>1, ImportInvariance, ReportInvariance, PTL

(* What the preview showed as skipped, in conflict or invalid, the report  *)
(* shows so too (upload.go, confirm.go: everything is decided again).      *)
THEOREM PromisesAreKept == Spec => []PreviewKept
<1>1. ReportInv => PreviewKept
  BY DEF ReportInv, ReportsTrue, ReportTrue, PreviewKept, Kept
<1> QED BY <1>1, ReportInvariance, PTL

-------------------------------------------------------------------------------
(***************************************************************************)
(* Exports.  Rows sorted by their place: the page at an offset holds the   *)
(* rows with so many others ahead of them.                                 *)
(***************************************************************************)
OneKind(S, kind) == S \in SUBSET ExportRows /\ \A r \in S : RowKind[r] = kind

(* Finite sets are the same in the instance.                               *)
LEMMA CountIs ==
    ASSUME NEW S
    PROVE  Exports!Cardinality(S) = Cardinality(S) /\ (Exports!IsFiniteSet(S) <=> IsFiniteSet(S))
<1>1. Exports!Cardinality(S) = Cardinality(S)
  BY DEF Exports!Cardinality, Cardinality
<1>2. Exports!IsFiniteSet(S) <=> IsFiniteSet(S)
  BY DEF Exports!IsFiniteSet, IsFiniteSet
<1> QED BY <1>1, <1>2

LEMMA AheadIs ==
    ASSUME NEW S, NEW r
    PROVE  Exports!Ahead(S, r) = Cardinality({q \in S : Exports!Earlier(q, r)})
BY CountIs DEF Exports!Ahead

LEMMA ExportConstants ==
    /\ IsFiniteSet(ExportRows) /\ PageSize \in Nat \ {0} /\ PageSize <= ListLimit /\ ListLimit \in Nat
    /\ \A r \in ExportRows : RowPosition[r] \in Nat
    /\ \A r, s \in ExportRows : RowKind[r] = RowKind[s] /\ RowPosition[r] = RowPosition[s] => r = s
BY RowAssumption, CountIs DEF Exports!ExportAssumption

LEMMA AheadBelow ==
    ASSUME NEW T \in SUBSET ExportRows, NEW S \in SUBSET T, NEW r
    PROVE  /\ Exports!Ahead(S, r) \in Nat /\ Exports!Ahead(T, r) \in Nat
           /\ Exports!Ahead(S, r) <= Exports!Ahead(T, r)
           /\ (\A q \in T \ S : ~Exports!Earlier(q, r)) => Exports!Ahead(S, r) = Exports!Ahead(T, r)
<1>1. PICK U, V : U = {q \in S : Exports!Earlier(q, r)} /\ V = {q \in T : Exports!Earlier(q, r)}
  OBVIOUS
<1>2. IsFiniteSet(V) /\ U \in SUBSET V
  <2>1. V \in SUBSET ExportRows /\ U \in SUBSET V
    BY <1>1
  <2> QED BY <2>1, ExportConstants, FS_Subset
<1>3. IsFiniteSet(U) /\ Cardinality(U) <= Cardinality(V) /\ Cardinality(U) \in Nat /\ Cardinality(V) \in Nat
  BY <1>2, FS_Subset, FS_CardinalityType
<1>4. (\A q \in T \ S : ~Exports!Earlier(q, r)) => U = V
  BY <1>1
<1> QED BY <1>1, <1>3, <1>4, AheadIs

LEMMA AheadApart ==
    ASSUME NEW kind, NEW S, OneKind(S, kind), NEW q \in S, NEW r \in S
    PROVE  /\ q # r => Exports!Ahead(S, q) # Exports!Ahead(S, r)
           /\ Exports!Ahead(S, r) < Cardinality(S) /\ Exports!Ahead(S, r) \in Nat
<1>1. IsFiniteSet(S) /\ S \in SUBSET ExportRows
  BY ExportConstants, FS_Subset DEF OneKind
<1>2. ASSUME NEW x \in S, NEW y \in S, Exports!Earlier(x, y)
      PROVE  Exports!Ahead(S, x) < Exports!Ahead(S, y)
  <2>1. PICK U, V : U = {z \in S : Exports!Earlier(z, x)} /\ V = {z \in S : Exports!Earlier(z, y)}
    OBVIOUS
  <2>2. x \notin U /\ x \in V /\ U \in SUBSET V
    BY <1>1, <1>2, <2>1, ExportConstants DEF Exports!Earlier
  <2>3. IsFiniteSet(V) /\ IsFiniteSet(U) /\ Cardinality(U) \in Nat /\ Cardinality(V) \in Nat
        /\ Cardinality(U) <= Cardinality(V) /\ (Cardinality(U) = Cardinality(V) => U = V)
    <3>1. V \in SUBSET S
      BY <2>1
    <3>2. IsFiniteSet(V)
      BY <1>1, <3>1, FS_Subset
    <3> QED BY <2>2, <3>2, FS_Subset, FS_CardinalityType
  <2> QED BY <2>1, <2>2, <2>3, AheadIs
<1>3. q # r => Exports!Earlier(q, r) \/ Exports!Earlier(r, q)
  <2>1. RowKind[q] = RowKind[r] /\ (q # r => RowPosition[q] # RowPosition[r])
    BY <1>1, ExportConstants DEF OneKind
  <2>2. RowPosition[q] \in Nat /\ RowPosition[r] \in Nat
    BY <1>1, ExportConstants
  <2> QED BY <2>1, <2>2 DEF Exports!Earlier
<1>4. Exports!Ahead(S, q) \in Nat /\ Exports!Ahead(S, r) \in Nat
  BY <1>1, AheadBelow
<1>5. Exports!Ahead(S, r) < Cardinality(S)
  <2>1. PICK U : U = {z \in S : Exports!Earlier(z, r)}
    OBVIOUS
  <2>2. U \in SUBSET S /\ r \notin U
    BY <1>1, <2>1, ExportConstants DEF Exports!Earlier
  <2>3. Cardinality(U) <= Cardinality(S) /\ Cardinality(U) \in Nat /\ Cardinality(S) \in Nat
        /\ (Cardinality(S) = Cardinality(U) => S = U)
    <3>1. IsFiniteSet(U)
      BY <1>1, <2>2, FS_Subset
    <3> QED BY <1>1, <2>2, <3>1, FS_Subset, FS_CardinalityType
  <2> QED BY <2>1, <2>2, <2>3, AheadIs
<1> QED BY <1>2, <1>3, <1>4, <1>5

LEMMA SortedIs ==
    ASSUME NEW kind, NEW S, OneKind(S, kind), NEW s, s = Exports!Sorted(S), NEW n, n = Cardinality(S)
    PROVE  /\ n \in Nat /\ s \in Seq(S) /\ Len(s) = n
           /\ \A m \in 1 .. n : s[m] \in S /\ Exports!Ahead(S, s[m]) = m - 1
           /\ \A r \in S : /\ Exports!Ahead(S, r) \in Nat /\ Exports!Ahead(S, r) < n
                           /\ s[Exports!Ahead(S, r) + 1] = r
<1>1. IsFiniteSet(S) /\ n \in Nat
  <2>1. IsFiniteSet(S)
    BY ExportConstants, FS_Subset DEF OneKind
  <2> QED BY <2>1, FS_CardinalityType
<1>2. s = [m \in 1 .. n |-> CHOOSE r \in S : Exports!Ahead(S, r) = m - 1]
  BY CountIs, Zenon DEF Exports!Sorted
<1>3. PICK f : f = [r \in S |-> Exports!Ahead(S, r) + 1]
  OBVIOUS
<1>4. \A q, r \in S : /\ Exports!Ahead(S, r) \in Nat /\ Exports!Ahead(S, r) < n
                      /\ q # r => Exports!Ahead(S, q) # Exports!Ahead(S, r)
  BY AheadApart
<1>5. f \in Injection(S, 1 .. n)
  <2>1. f \in [S -> 1 .. n]
    BY <1>1, <1>3, <1>4
  <2>2. \A q, r \in S : f[q] = f[r] => q = r
    <3>1. SUFFICES ASSUME NEW q \in S, NEW r \in S, f[q] = f[r] PROVE q = r
      OBVIOUS
    <3>2. Exports!Ahead(S, q) = Exports!Ahead(S, r)
      BY <1>3, <1>4, <3>1
    <3> QED BY <1>4, <3>2
  <2> QED BY <2>1, <2>2 DEF Injection, IsInjective
<1>6. f \in Surjection(S, 1 .. n)
  <2>1. IsFiniteSet(1 .. n) /\ Cardinality(1 .. n) = n
    BY <1>1, FS_Interval
  <2> QED BY <1>5, <2>1, FS_Injection
<1>7. ASSUME NEW m \in 1 .. n PROVE s[m] \in S /\ Exports!Ahead(S, s[m]) = m - 1
  <2>1. PICK r \in S : f[r] = m
    BY <1>6 DEF Surjection
  <2>2. Exports!Ahead(S, r) = m - 1
    BY <1>1, <1>3, <1>4, <2>1
  <2>3. s[m] = CHOOSE q \in S : Exports!Ahead(S, q) = m - 1
    BY <1>2
  <2> QED BY <2>2, <2>3
<1>8. s \in Seq(S) /\ Len(s) = n
  BY <1>1, <1>2, <1>7
<1>9. ASSUME NEW r \in S PROVE s[Exports!Ahead(S, r) + 1] = r
  <2>1. PICK a : a = Exports!Ahead(S, r)
    OBVIOUS
  <2>2. a \in Nat /\ a < n
    BY <1>4, <2>1
  <2>3. a + 1 \in 1 .. n
    BY <1>1, <2>2
  <2>4. s[a + 1] \in S /\ Exports!Ahead(S, s[a + 1]) = a
    BY <1>7, <2>2, <2>3
  <2> QED BY <1>4, <2>1, <2>4
<1> QED BY <1>1, <1>4, <1>7, <1>8, <1>9

(* A query: the rows from one offset to another, or to the end.            *)
PageOf(S, offset, limit) ==
    LET places == Exports!Sorted(S)
        last == offset + limit
    IN SubSeq(places, offset + 1, IF last < Len(places) THEN last ELSE Len(places))

Paged(S, offset, limit, page) ==
    /\ page \in Seq(S) /\ Len(page) \in Nat
    /\ \A i \in 1 .. Len(page) : page[i] \in S /\ Exports!Ahead(S, page[i]) = offset + i - 1
    /\ \A r \in S : offset <= Exports!Ahead(S, r) /\ Exports!Ahead(S, r) < offset + Len(page)
                       => \E i \in 1 .. Len(page) : page[i] = r
    /\ Len(page) < limit \/ Cardinality(S) <= limit => Cardinality(S) <= offset + Len(page)
    /\ Cardinality(S) \in Nat

LEMMA PageIs ==
    ASSUME NEW kind, NEW S, OneKind(S, kind), NEW offset \in Nat, NEW limit \in Nat,
           NEW page, page = PageOf(S, offset, limit)
    PROVE  Paged(S, offset, limit, page)
<1>1. PICK s, n : s = Exports!Sorted(S) /\ n = Cardinality(S)
  OBVIOUS
<1>2. /\ n \in Nat /\ s \in Seq(S) /\ Len(s) = n
      /\ \A m \in 1 .. n : s[m] \in S /\ Exports!Ahead(S, s[m]) = m - 1
      /\ \A r \in S : /\ Exports!Ahead(S, r) \in Nat /\ Exports!Ahead(S, r) < n
                      /\ s[Exports!Ahead(S, r) + 1] = r
  BY <1>1, SortedIs
<1>3. PICK last : last = IF offset + limit < n THEN offset + limit ELSE n
  OBVIOUS
<1>4. last \in Nat /\ last <= n /\ page = SubSeq(s, offset + 1, last)
  BY <1>1, <1>2, <1>3 DEF PageOf
<1>5. /\ page \in Seq(S) /\ Len(page) = (IF offset + 1 <= last THEN last - offset ELSE 0)
      /\ \A i \in 1 .. last - offset : page[i] = s[offset + i]
  <2>1. PICK m : m = offset + 1
    OBVIOUS
  <2>2. m \in Int /\ last \in Int /\ \A i \in m .. last : s[i] \in S
    BY <1>2, <1>4, <2>1
  <2>3. /\ SubSeq(s, m, last) \in Seq(S)
        /\ Len(SubSeq(s, m, last)) = IF m <= last THEN last - m + 1 ELSE 0
        /\ \A i \in 1 .. last - m + 1 : SubSeq(s, m, last)[i] = s[m + i - 1]
    BY <2>2, SubSeqProperties
  <2>4. last - m + 1 = last - offset /\ \A i \in Int : m + i - 1 = offset + i
    BY <1>4, <2>1
  <2> QED BY <1>4, <2>1, <2>3, <2>4
<1>6. Len(page) \in Nat /\ (Len(page) > 0 => Len(page) = last - offset)
  BY <1>4, <1>5
<1>7. ASSUME NEW i \in 1 .. Len(page)
      PROVE  page[i] \in S /\ Exports!Ahead(S, page[i]) = offset + i - 1
  <2>1. i \in 1 .. last - offset /\ offset + i \in 1 .. n
    <3>1. PICK l \in Nat : l = Len(page)
      BY <1>6
    <3>2. i \in Nat /\ 1 <= i /\ i <= l
      BY <1>7, <3>1
    <3>3. l = last - offset
      BY <1>6, <3>1, <3>2
    <3>4. last \in Nat /\ last <= n /\ n \in Nat
      BY <1>2, <1>4
    <3> QED BY <3>2, <3>3, <3>4
  <2>2. page[i] = s[offset + i]
    BY <1>5, <2>1
  <2> QED BY <1>2, <2>1, <2>2
<1>8. ASSUME NEW r \in S, offset <= Exports!Ahead(S, r), Exports!Ahead(S, r) < offset + Len(page)
      PROVE  \E i \in 1 .. Len(page) : page[i] = r
  <2>1. PICK a : a = Exports!Ahead(S, r)
    OBVIOUS
  <2>2. a \in Nat /\ offset <= a /\ a < offset + Len(page) /\ s[a + 1] = r
    BY <1>2, <1>8, <2>1
  <2>3. PICK i : i = a - offset + 1
    OBVIOUS
  <2>4. i \in 1 .. Len(page) /\ i \in 1 .. last - offset /\ offset + i = a + 1
    BY <1>4, <1>6, <2>2, <2>3
  <2> QED BY <1>5, <2>2, <2>4
<1>9. Len(page) < limit \/ n <= limit => n <= offset + Len(page)
  BY <1>2, <1>3, <1>4, <1>5
<1> QED BY <1>1, <1>2, <1>5, <1>6, <1>7, <1>8, <1>9 DEF Paged

(***************************************************************************)
(* An entry that is being written, up to an offset: of the rows of its     *)
(* kind that were there from the beginning it holds those with fewer rows  *)
(* ahead of them, unless one of these was deleted, and holds none twice    *)
(* and none of those to come, unless one was inserted ahead of it.         *)
(***************************************************************************)
RowsIn(st, kind) == {r \in st : RowKind[r] = kind}
Holds(seq, r) == \E i \in 1 .. Len(seq) : seq[i] = r
HoldsOnce(seq, r) == \A i, j \in 1 .. Len(seq) : seq[i] = r /\ seq[j] = r => i = j
Pulled(gn, r) == \E g \in gn : Exports!Earlier(g, r)
Pushed(st, bf, gn, r) == \E a \in (st \cup gn) \ bf : Exports!Earlier(a, r)

EntryOpen(st, bf, gn, kind, seq, offset) ==
    \A r \in bf \cap st : RowKind[r] = kind =>
        /\ ~Pulled(gn, r) /\ Exports!Ahead(RowsIn(st, kind), r) < offset => Holds(seq, r)
        /\ ~Pushed(st, bf, gn, r) =>
              HoldsOnce(seq, r) /\ (Holds(seq, r) => Exports!Ahead(RowsIn(st, kind), r) < offset)
EntryDone(st, bf, gn, kind, seq) ==
    \A r \in bf \cap st : RowKind[r] = kind =>
        (Pulled(gn, r) \/ Holds(seq, r)) /\ (Pushed(st, bf, gn, r) \/ HoldsOnce(seq, r))

LEMMA RowsAre ==
    ASSUME NEW st \in SUBSET ExportRows, NEW kind
    PROVE  OneKind(RowsIn(st, kind), kind) /\ RowsIn(st, kind) \in SUBSET ExportRows
BY DEF OneKind, RowsIn

LEMMA PageWritten ==
    ASSUME NEW st \in SUBSET ExportRows, NEW bf, NEW gn, NEW kind, NEW seq \in Seq(ExportRows),
           NEW offset \in Nat, EntryOpen(st, bf, gn, kind, seq, offset), NEW limit \in Nat,
           NEW page, page = PageOf(RowsIn(st, kind), offset, limit), NEW longer, longer = seq \o page
    PROVE  /\ longer \in Seq(ExportRows) /\ offset + Len(page) \in Nat
           /\ EntryOpen(st, bf, gn, kind, longer, offset + Len(page))
           /\ Cardinality(RowsIn(st, kind)) <= offset + Len(page) => EntryDone(st, bf, gn, kind, longer)
<1>1. PICK S, n : S = RowsIn(st, kind) /\ n = Cardinality(S)
  OBVIOUS
<1>2. OneKind(S, kind) /\ S \in SUBSET ExportRows
  BY <1>1, RowsAre
<1>3. Paged(S, offset, limit, page)
  <2>1. page = PageOf(S, offset, limit)
    BY <1>1
  <2> QED BY <1>2, <2>1, PageIs
<1>4. \A r \in S : Exports!Ahead(S, r) \in Nat /\ Exports!Ahead(S, r) < n
  BY <1>1, <1>2, AheadApart
<1>5. PICK m, l : m = Len(seq) /\ l = Len(page)
  OBVIOUS
<1>6. /\ longer \in Seq(ExportRows) /\ m \in Nat /\ l \in Nat /\ Len(longer) = m + l
      /\ \A i \in 1 .. m : longer[i] = seq[i]
      /\ \A i \in 1 .. l : longer[m + i] = page[i]
      /\ \A i \in 1 .. m + l : i \notin 1 .. m => i - m \in 1 .. l /\ longer[i] = page[i - m]
  <2>1. seq \in Seq(ExportRows) /\ page \in Seq(ExportRows)
    BY <1>2, <1>3 DEF Paged
  <2>2. /\ seq \o page \in Seq(ExportRows) /\ Len(seq \o page) = Len(seq) + Len(page)
        /\ \A i \in 1 .. Len(seq) + Len(page) :
              (seq \o page)[i] = IF i <= Len(seq) THEN seq[i] ELSE page[i - Len(seq)]
    BY <2>1, ConcatProperties
  <2>3. m \in Nat /\ l \in Nat
    BY <1>5, <2>1, LenProperties
  <2>4. /\ longer \in Seq(ExportRows) /\ Len(longer) = m + l
        /\ \A i \in 1 .. m + l : longer[i] = IF i <= m THEN seq[i] ELSE page[i - m]
    BY <1>5, <2>2
  <2>5. \A i \in 1 .. l : m + i \in 1 .. m + l /\ ~(m + i <= m) /\ (m + i) - m = i
    BY <2>3
  <2> QED BY <2>3, <2>4, <2>5
<1>7. ASSUME NEW r \in S
      PROVE  Holds(longer, r) <=> Holds(seq, r) \/ \E i \in 1 .. l : page[i] = r
  <2>1. ASSUME NEW i \in 1 .. m + l, longer[i] = r PROVE Holds(seq, r) \/ \E j \in 1 .. l : page[j] = r
    BY <1>5, <1>6, <2>1 DEF Holds
  <2>2. ASSUME NEW i \in 1 .. m, seq[i] = r PROVE Holds(longer, r)
    <3>1. m \in Nat /\ l \in Nat /\ i \in 1 .. m
      BY <1>6, <2>2
    <3>2. i \in 1 .. m + l
      BY <3>1
    <3>3. longer[i] = r
      BY <1>6, <2>2
    <3> QED BY <1>6, <3>2, <3>3 DEF Holds
  <2>3. ASSUME NEW i \in 1 .. l, page[i] = r PROVE Holds(longer, r)
    <3>1. PICK x : x = m + i
      OBVIOUS
    <3>2. m \in Nat /\ l \in Nat /\ i \in 1 .. l
      BY <1>6, <2>3
    <3>3. x \in 1 .. m + l
      BY <3>1, <3>2
    <3>4. longer[x] = r
      BY <1>6, <2>3, <3>1
    <3> QED BY <1>6, <3>3, <3>4 DEF Holds
  <2> QED BY <1>5, <1>6, <2>1, <2>2, <2>3 DEF Holds
<1>8. ASSUME NEW r \in S, r \in bf
      PROVE  /\ ~Pulled(gn, r) /\ Exports!Ahead(S, r) < offset + l => Holds(longer, r)
             /\ ~Pushed(st, bf, gn, r) =>
                   HoldsOnce(longer, r) /\ (Holds(longer, r) => Exports!Ahead(S, r) < offset + l)
  <2>1. PICK a : a = Exports!Ahead(S, r)
    OBVIOUS
  <2>2. /\ a \in Nat
        /\ ~Pulled(gn, r) /\ a < offset => Holds(seq, r)
        /\ ~Pushed(st, bf, gn, r) => HoldsOnce(seq, r) /\ (Holds(seq, r) => a < offset)
    BY <1>1, <1>4, <1>8, <2>1 DEF EntryOpen, RowsIn
  <2>3. offset <= a /\ a < offset + l => \E i \in 1 .. l : page[i] = r
    BY <1>3, <1>5, <1>8, <2>1 DEF Paged
  <2>4. \A i \in 1 .. l : page[i] = r => a = offset + i - 1
    BY <1>3, <1>5, <2>1 DEF Paged
  <2>5. ~Pulled(gn, r) /\ a < offset + l => Holds(longer, r)
    BY <1>6, <1>7, <2>2, <2>3
  <2>6. ASSUME ~Pushed(st, bf, gn, r), Holds(longer, r) PROVE a < offset + l
    <3>1. CASE Holds(seq, r)
      BY <1>6, <2>2, <2>6, <3>1
    <3>2. ASSUME NEW i \in 1 .. l, page[i] = r PROVE a < offset + l
      BY <1>6, <2>4, <3>2
    <3> QED BY <1>7, <2>6, <3>1, <3>2
  <2>7. ASSUME ~Pushed(st, bf, gn, r), NEW i \in 1 .. m + l, NEW j \in 1 .. m + l, longer[i] = r, longer[j] = r
        PROVE  i = j
    <3>1. \A x \in 1 .. m + l : longer[x] = r =>
             \/ x \in 1 .. m /\ seq[x] = r /\ a < offset
             \/ x \notin 1 .. m /\ x - m \in 1 .. l /\ a = offset + (x - m) - 1
      <4>1. SUFFICES ASSUME NEW x \in 1 .. m + l, longer[x] = r
                     PROVE  \/ x \in 1 .. m /\ seq[x] = r /\ a < offset
                            \/ x \notin 1 .. m /\ x - m \in 1 .. l /\ a = offset + (x - m) - 1
        OBVIOUS
      <4>2. CASE x \in 1 .. m
        <5>1. seq[x] = r /\ Holds(seq, r)
          BY <1>5, <1>6, <4>1, <4>2 DEF Holds
        <5> QED BY <2>2, <2>7, <4>2, <5>1
      <4>3. CASE x \notin 1 .. m
        <5>1. x - m \in 1 .. l /\ page[x - m] = r
          BY <1>6, <4>1, <4>3
        <5> QED BY <2>4, <4>3, <5>1
      <4> QED BY <4>2, <4>3
    <3>2. CASE i \in 1 .. m /\ j \in 1 .. m
      <4>1. seq[i] = r /\ seq[j] = r
        BY <1>6, <2>7, <3>2
      <4>2. HoldsOnce(seq, r)
        BY <2>2, <2>7
      <4> QED BY <1>5, <3>2, <4>1, <4>2 DEF HoldsOnce
    <3>3. CASE ~(i \in 1 .. m /\ j \in 1 .. m)
      <4>1. i \in Int /\ j \in Int
        BY <1>6, <2>7
      <4>2. \/ i \in 1 .. m /\ a < offset
            \/ i \notin 1 .. m /\ i - m \in 1 .. l /\ a = offset + (i - m) - 1
        BY <2>7, <3>1
      <4>3. \/ j \in 1 .. m /\ a < offset
            \/ j \notin 1 .. m /\ j - m \in 1 .. l /\ a = offset + (j - m) - 1
        BY <2>7, <3>1
      <4> QED BY <1>6, <2>2, <3>3, <4>1, <4>2, <4>3
    <3> QED BY <3>2, <3>3
  <2>8. ~Pushed(st, bf, gn, r) => HoldsOnce(longer, r)
    BY <1>6, <2>7 DEF HoldsOnce
  <2> QED BY <2>1, <2>5, <2>6, <2>8
<1>9. EntryOpen(st, bf, gn, kind, longer, offset + l)
  BY <1>1, <1>8 DEF EntryOpen, RowsIn
<1>10. ASSUME n <= offset + l PROVE EntryDone(st, bf, gn, kind, longer)
  <2>1. SUFFICES ASSUME NEW r \in S, r \in bf
                 PROVE  (Pulled(gn, r) \/ Holds(longer, r)) /\ (Pushed(st, bf, gn, r) \/ HoldsOnce(longer, r))
    BY <1>1 DEF EntryDone, RowsIn
  <2>2. PICK a : a = Exports!Ahead(S, r)
    OBVIOUS
  <2>3. a < offset + l
    <3>1. a \in Nat /\ a < n
      BY <1>4, <2>1, <2>2
    <3>2. n \in Nat
      BY <1>1, <1>3 DEF Paged
    <3> QED BY <1>6, <1>10, <3>1, <3>2
  <2> QED BY <1>8, <2>1, <2>2, <2>3
<1> QED BY <1>1, <1>5, <1>6, <1>9, <1>10

(* What changes while an entry is written leaves both true: an insertion   *)
(* pushes only later rows, a deletion pulls only later ones.               *)
LEMMA RowInserted ==
    ASSUME NEW st \in SUBSET ExportRows, NEW gn, NEW bf, bf \subseteq st \cup gn, NEW kind, NEW seq, NEW offset \in Nat,
           NEW x \in ExportRows, x \notin st \cup gn, NEW more, more = st \cup {x}
    PROVE  /\ EntryOpen(st, bf, gn, kind, seq, offset) => EntryOpen(more, bf, gn, kind, seq, offset)
           /\ EntryDone(st, bf, gn, kind, seq) => EntryDone(more, bf, gn, kind, seq)
<1>1. x \notin bf /\ bf \cap more = bf \cap st /\ more \in SUBSET ExportRows
  OBVIOUS
<1>2. ASSUME NEW r PROVE Pushed(st, bf, gn, r) => Pushed(more, bf, gn, r)
  BY <1>1 DEF Pushed
<1>3. ASSUME NEW r PROVE Exports!Earlier(x, r) => Pushed(more, bf, gn, r)
  BY <1>1 DEF Pushed
<1>4. PICK S, T : S = RowsIn(st, kind) /\ T = RowsIn(more, kind)
  OBVIOUS
<1>5. T \in SUBSET ExportRows /\ S \in SUBSET T /\ \A q \in T \ S : q = x
  BY <1>1, <1>4 DEF RowsIn
<1>6. ASSUME NEW r
      PROVE  /\ Exports!Ahead(S, r) <= Exports!Ahead(T, r) /\ Exports!Ahead(S, r) \in Nat /\ Exports!Ahead(T, r) \in Nat
             /\ ~Exports!Earlier(x, r) => Exports!Ahead(S, r) = Exports!Ahead(T, r)
  BY <1>5, AheadBelow
<1>7. ASSUME EntryOpen(st, bf, gn, kind, seq, offset), NEW r \in bf \cap more, RowKind[r] = kind
      PROVE  /\ ~Pulled(gn, r) /\ Exports!Ahead(T, r) < offset => Holds(seq, r)
             /\ ~Pushed(more, bf, gn, r) =>
                   HoldsOnce(seq, r) /\ (Holds(seq, r) => Exports!Ahead(T, r) < offset)
  <2>1. PICK a, c : a = Exports!Ahead(S, r) /\ c = Exports!Ahead(T, r)
    OBVIOUS
  <2>2. /\ ~Pulled(gn, r) /\ a < offset => Holds(seq, r)
        /\ ~Pushed(st, bf, gn, r) => HoldsOnce(seq, r) /\ (Holds(seq, r) => a < offset)
    BY <1>1, <1>4, <1>7, <2>1 DEF EntryOpen
  <2>3. a \in Nat /\ c \in Nat /\ a <= c /\ (~Exports!Earlier(x, r) => a = c)
    BY <1>6, <2>1
  <2> QED BY <1>2, <1>3, <2>1, <2>2, <2>3
<1>8. EntryOpen(st, bf, gn, kind, seq, offset) => EntryOpen(more, bf, gn, kind, seq, offset)
  BY <1>4, <1>7 DEF EntryOpen
<1>9. EntryDone(st, bf, gn, kind, seq) => EntryDone(more, bf, gn, kind, seq)
  BY <1>1, <1>2 DEF EntryDone
<1> QED BY <1>8, <1>9

LEMMA RowsDeleted ==
    ASSUME NEW st \in SUBSET ExportRows, NEW gn, NEW bf, NEW kind, NEW seq, NEW offset \in Nat,
           NEW lost \in SUBSET st, NEW left, left = st \ lost, NEW lg, lg = gn \cup lost
    PROVE  /\ EntryOpen(st, bf, gn, kind, seq, offset) => EntryOpen(left, bf, lg, kind, seq, offset)
           /\ EntryDone(st, bf, gn, kind, seq) => EntryDone(left, bf, lg, kind, seq)
<1>1. left \cup lg = st \cup gn /\ bf \cap left \subseteq bf \cap st
  OBVIOUS
<1>2. ASSUME NEW r PROVE Pushed(left, bf, lg, r) <=> Pushed(st, bf, gn, r)
  BY <1>1 DEF Pushed
<1>3. ASSUME NEW r
      PROVE  (Pulled(gn, r) => Pulled(lg, r)) /\ ((\E q \in lost : Exports!Earlier(q, r)) => Pulled(lg, r))
  BY DEF Pulled
<1>4. PICK S, T : S = RowsIn(st, kind) /\ T = RowsIn(left, kind)
  OBVIOUS
<1>5. S \in SUBSET ExportRows /\ T \in SUBSET S /\ \A q \in S \ T : q \in lost
  BY <1>4 DEF RowsIn
<1>6. ASSUME NEW r
      PROVE  /\ Exports!Ahead(T, r) <= Exports!Ahead(S, r) /\ Exports!Ahead(S, r) \in Nat /\ Exports!Ahead(T, r) \in Nat
             /\ (\A q \in lost : ~Exports!Earlier(q, r)) => Exports!Ahead(S, r) = Exports!Ahead(T, r)
  BY <1>5, AheadBelow
<1>7. ASSUME EntryOpen(st, bf, gn, kind, seq, offset), NEW r \in bf \cap left, RowKind[r] = kind
      PROVE  /\ ~Pulled(lg, r) /\ Exports!Ahead(T, r) < offset => Holds(seq, r)
             /\ ~Pushed(left, bf, lg, r) =>
                   HoldsOnce(seq, r) /\ (Holds(seq, r) => Exports!Ahead(T, r) < offset)
  <2>1. PICK a, c : a = Exports!Ahead(S, r) /\ c = Exports!Ahead(T, r)
    OBVIOUS
  <2>2. /\ ~Pulled(gn, r) /\ a < offset => Holds(seq, r)
        /\ ~Pushed(st, bf, gn, r) => HoldsOnce(seq, r) /\ (Holds(seq, r) => a < offset)
    BY <1>1, <1>4, <1>7, <2>1 DEF EntryOpen
  <2>3. a \in Nat /\ c \in Nat /\ c <= a /\ ((\A q \in lost : ~Exports!Earlier(q, r)) => a = c)
    BY <1>6, <2>1
  <2> QED BY <1>2, <1>3, <2>1, <2>2, <2>3
<1>8. EntryOpen(st, bf, gn, kind, seq, offset) => EntryOpen(left, bf, lg, kind, seq, offset)
  BY <1>4, <1>7 DEF EntryOpen
<1>9. EntryDone(st, bf, gn, kind, seq) => EntryDone(left, bf, lg, kind, seq)
  BY <1>1, <1>2, <1>3 DEF EntryDone
<1> QED BY <1>8, <1>9

EntryFine(st, bf, gn, x, e) ==
    LET kind == Exports!EntryKind[e] IN
    /\ e < x.entry => EntryDone(st, bf, gn, kind, x.bundle[e])
    /\ e = x.entry => EntryOpen(st, bf, gn, kind, x.bundle[e], x.offset)
    /\ e > x.entry => x.bundle[e] = <<>>

ExportFine(st, bf, gn, x) ==
    /\ st \in SUBSET ExportRows /\ bf \subseteq st \cup gn
    /\ x = [status |-> x.status, entry |-> x.entry, offset |-> x.offset, bundle |-> x.bundle]
    /\ x.entry \in 1 .. 7 /\ x.offset \in Nat /\ x.bundle \in [1 .. 6 -> Seq(ExportRows)]
    /\ x.status = "idle" => x = Exports!NoExport
    /\ x.status = "complete" => x.entry = 7
    /\ \A e \in 1 .. 6 : EntryFine(st, bf, gn, x, e)

ExportInv == ExportFine(stored, before, gone, export)

LEMMA EntriesAre ==
    /\ Len(Exports!Entries) = 6
    /\ \A e \in 1 .. 6 : Exports!EntryKind[e] \in {"todo", "delivery", "channel", "session", "message"}
BY DEF Exports!Entries, Exports!EntryKind

LEMMA EmptyOpen ==
    ASSUME NEW st \in SUBSET ExportRows, NEW bf, NEW gn, NEW kind
    PROVE  EntryOpen(st, bf, gn, kind, <<>>, 0)
<1>1. \A r : ~Holds(<<>>, r) /\ HoldsOnce(<<>>, r)
  BY DEF Holds, HoldsOnce
<1>2. \A r : Exports!Ahead(RowsIn(st, kind), r) \in Nat
  BY RowsAre, AheadBelow
<1> QED BY <1>1, <1>2 DEF EntryOpen

(* An export that has not begun, whatever is stored.                       *)
LEMMA UnbegunFine ==
    ASSUME NEW st \in SUBSET ExportRows, NEW bf, NEW gn, bf \subseteq st \cup gn, NEW x,
           NEW status \in {"idle", "running", "cut"}, x = [Exports!NoExport EXCEPT !.status = status]
    PROVE  ExportFine(st, bf, gn, x)
<1>1. /\ x = [status |-> status, entry |-> 1, offset |-> 0, bundle |-> [e \in 1 .. 6 |-> <<>>]]
      /\ status = "idle" => x = Exports!NoExport
  BY EntriesAre DEF Exports!NoExport
<1>2. ASSUME NEW e \in 1 .. 6 PROVE EntryFine(st, bf, gn, x, e)
  <2>1. x.bundle[e] = <<>> /\ x.entry = 1 /\ x.offset = 0
    BY <1>1, <1>2
  <2>2. EntryOpen(st, bf, gn, Exports!EntryKind[e], <<>>, 0)
    BY EmptyOpen
  <2>3. ~(e < x.entry)
    BY <1>2, <2>1
  <2> QED BY <2>1, <2>2, <2>3 DEF EntryFine
<1>3. x.bundle \in [1 .. 6 -> Seq(ExportRows)] /\ x.entry \in 1 .. 7 /\ x.offset \in Nat /\ x.status = status
  <2>1. <<>> \in Seq(ExportRows)
    BY EmptySeq
  <2>2. x.bundle = [e \in 1 .. 6 |-> <<>>] /\ x.entry = 1 /\ x.offset = 0 /\ x.status = status
    BY <1>1
  <2>3. [e \in 1 .. 6 |-> <<>>] \in [1 .. 6 -> Seq(ExportRows)]
    BY <2>1, Zenon
  <2>4. x.bundle \in [1 .. 6 -> Seq(ExportRows)]
    BY <2>2, <2>3, Zenon
  <2>5. x.entry \in 1 .. 7 /\ x.offset \in Nat
    BY <2>2
  <2> QED BY <2>2, <2>4, <2>5
<1>4. x = [status |-> x.status, entry |-> x.entry, offset |-> x.offset, bundle |-> x.bundle]
  BY <1>1
<1> QED BY <1>1, <1>2, <1>3, <1>4 DEF ExportFine

(* What leaves every entry as true as it was leaves the export so.         *)
Carries(st, bf, gn, more, lg) ==
    \A kind, seq : \A offset \in Nat :
        /\ EntryOpen(st, bf, gn, kind, seq, offset) => EntryOpen(more, bf, lg, kind, seq, offset)
        /\ EntryDone(st, bf, gn, kind, seq) => EntryDone(more, bf, lg, kind, seq)

LEMMA FineCarried ==
    ASSUME NEW st, NEW bf, NEW gn, NEW x, ExportFine(st, bf, gn, x),
           NEW more \in SUBSET ExportRows, NEW lg, bf \subseteq more \cup lg, Carries(st, bf, gn, more, lg)
    PROVE  ExportFine(more, bf, lg, x)
<1>1. ASSUME NEW e \in 1 .. 6 PROVE EntryFine(more, bf, lg, x, e)
  <2>1. EntryFine(st, bf, gn, x, e) /\ x.offset \in Nat
    BY <1>1 DEF ExportFine
  <2> QED BY <2>1 DEF EntryFine, Carries
<1> QED BY <1>1 DEF ExportFine

LEMMA ExportStarts ==
    ASSUME ExportInv, NEW seen \in SUBSET ExportRows, Exports!StartExport(seen)
    PROVE  ExportInv'
<1>1. export = Exports!NoExport
  BY DEF ExportInv, ExportFine, Exports!StartExport
<1>2. /\ stored' \in SUBSET ExportRows /\ before' \subseteq stored' \cup gone'
      /\ "running" \in {"idle", "running", "cut"}
      /\ export' = [Exports!NoExport EXCEPT !.status = "running"]
  BY <1>1 DEF Exports!StartExport
<1>3. ExportFine(stored', before', gone', export')
  BY <1>2, UnbegunFine
<1> QED BY <1>3 DEF ExportInv

LEMMA ExportFails ==
    ASSUME ExportInv, Exports!FailExport
    PROVE  ExportInv'
<1>1. stored \in SUBSET ExportRows /\ before \subseteq stored \cup gone
  BY DEF ExportInv, ExportFine
<1>2. /\ stored' \in SUBSET ExportRows /\ before' \subseteq stored' \cup gone'
      /\ "cut" \in {"idle", "running", "cut"}
      /\ export' = [Exports!NoExport EXCEPT !.status = "cut"]
  BY <1>1 DEF Exports!FailExport
<1>3. ExportFine(stored', before', gone', export')
  BY <1>2, UnbegunFine
<1> QED BY <1>3 DEF ExportInv

LEMMA ExportInsert ==
    ASSUME ExportInv, NEW r \in ExportRows, Exports!Insert(r)
    PROVE  ExportInv'
<1>1. /\ stored \in SUBSET ExportRows /\ before \subseteq stored \cup gone
      /\ ExportFine(stored, before, gone, export)
  BY DEF ExportInv, ExportFine
<1>2. /\ r \notin stored \cup gone /\ stored' = stored \cup {r}
      /\ export' = export /\ before' = before /\ gone' = gone
  BY DEF Exports!Insert
<1>3. stored' \in SUBSET ExportRows /\ before \subseteq stored' \cup gone
  BY <1>1, <1>2
<1>4. Carries(stored, before, gone, stored', gone)
  <2>1. SUFFICES ASSUME NEW kind, NEW seq, NEW offset \in Nat
                 PROVE  /\ EntryOpen(stored, before, gone, kind, seq, offset)
                              => EntryOpen(stored', before, gone, kind, seq, offset)
                        /\ EntryDone(stored, before, gone, kind, seq)
                              => EntryDone(stored', before, gone, kind, seq)
    BY DEF Carries
  <2> QED BY <1>1, <1>2, RowInserted
<1>5. ExportFine(stored', before, gone, export)
  BY <1>1, <1>3, <1>4, FineCarried
<1> QED BY <1>2, <1>5 DEF ExportInv

LEMMA ExportDelete ==
    ASSUME ExportInv, NEW s \in ExportRows, Exports!DeleteSession(s)
    PROVE  ExportInv'
<1>1. /\ stored \in SUBSET ExportRows /\ before \subseteq stored \cup gone
      /\ ExportFine(stored, before, gone, export)
  BY DEF ExportInv, ExportFine
<1>2. PICK lost : /\ lost \in SUBSET stored /\ stored' = stored \ lost /\ gone' = gone \cup lost
                  /\ export' = export /\ before' = before
  BY DEF Exports!DeleteSession
<1>3. stored' \in SUBSET ExportRows /\ before \subseteq stored' \cup gone'
  BY <1>1, <1>2
<1>4. Carries(stored, before, gone, stored', gone')
  <2>1. SUFFICES ASSUME NEW kind, NEW seq, NEW offset \in Nat
                 PROVE  /\ EntryOpen(stored, before, gone, kind, seq, offset)
                              => EntryOpen(stored', before, gone', kind, seq, offset)
                        /\ EntryDone(stored, before, gone, kind, seq)
                              => EntryDone(stored', before, gone', kind, seq)
    BY DEF Carries
  <2> QED BY <1>1, <1>2, RowsDeleted
<1>5. ExportFine(stored', before, gone', export)
  BY <1>1, <1>3, <1>4, FineCarried
<1> QED BY <1>2, <1>5 DEF ExportInv

(* What one query of the export answers, and that a short page is the end. *)
LEMMA PageRead ==
    ASSUME ExportInv, NEW kind, NEW page, page = Exports!Page(kind),
           NEW S, S = RowsIn(stored, kind)
    PROVE  \E limit \in Nat :
              /\ page = PageOf(S, export.offset, limit)
              /\ Exports!LastPage(kind, page) => Len(page) < limit \/ Cardinality(S) <= limit
<1>1. PICK limit : limit = Exports!Limit(kind)
  OBVIOUS
<1>2. stored \in SUBSET ExportRows /\ S \in SUBSET ExportRows
  BY RowsAre DEF ExportInv, ExportFine
<1>3. /\ Cardinality(S) \in Nat /\ Cardinality(ExportRows) \in Nat /\ Cardinality(S) <= Cardinality(ExportRows)
      /\ PageSize \in Nat /\ ListLimit \in Nat /\ PageSize <= ListLimit
  BY <1>2, ExportConstants, FS_Subset, FS_CardinalityType
<1>4. limit = IF kind = "channel" THEN Cardinality(ExportRows) ELSE PageSize
  <2>1. CASE kind = "channel"
    BY <1>1, <2>1, CountIs DEF Exports!Limit
  <2>2. CASE kind \in {"todo", "delivery"}
    BY <1>1, <1>3, <2>2 DEF Exports!Limit
  <2>3. CASE kind \notin {"todo", "delivery", "channel"}
    BY <1>1, <2>3 DEF Exports!Limit
  <2> QED BY <2>1, <2>2, <2>3
<1>5. limit \in Nat
  BY <1>3, <1>4
<1>6. Exports!Rows(kind) = S
  BY DEF Exports!Rows, RowsIn
<1>7. page = PageOf(S, export.offset, limit)
  BY <1>1, <1>6 DEF Exports!Page, PageOf
<1>8. Exports!LastPage(kind, page) => Len(page) < limit \/ Cardinality(S) <= limit
  BY <1>3, <1>4 DEF Exports!LastPage
<1> QED BY <1>5, <1>7, <1>8

LEMMA ExportWrites ==
    ASSUME ExportInv, Exports!WritePage
    PROVE  ExportInv'
<1>1. PICK e, kind, page, S, f : /\ e = export.entry /\ kind = Exports!EntryKind[e] /\ page = Exports!Page(kind)
                                 /\ S = RowsIn(stored, kind) /\ f = export.offset
  OBVIOUS
<1>2. PICK last \in BOOLEAN : last <=> Exports!LastPage(kind, page)
  OBVIOUS
<1>3. PICK seq, longer : seq = export.bundle[e] /\ longer = seq \o page
  OBVIOUS
<1>4. /\ stored \in SUBSET ExportRows /\ before \subseteq stored \cup gone
      /\ export = [status |-> export.status, entry |-> e, offset |-> f, bundle |-> export.bundle]
      /\ e \in 1 .. 7 /\ f \in Nat /\ export.bundle \in [1 .. 6 -> Seq(ExportRows)]
      /\ \A d \in 1 .. 6 : EntryFine(stored, before, gone, export, d)
  BY <1>1 DEF ExportInv, ExportFine
<1>5. e \in 1 .. 6 /\ export.status = "running"
  BY <1>1, <1>4, EntriesAre DEF Exports!WritePage, Exports!Running
<1>6. /\ stored' = stored /\ before' = before /\ gone' = gone
      /\ export' = [status |-> "running", entry |-> IF last THEN e + 1 ELSE e,
                    offset |-> IF last THEN 0 ELSE f + Len(page),
                    bundle |-> [export.bundle EXCEPT ![e] = longer]]
  <2>1. export' = [export EXCEPT !.bundle[e] = @ \o page,
                                 !.offset = IF last THEN 0 ELSE @ + Len(page),
                                 !.entry = IF last THEN e + 1 ELSE e]
    BY <1>1, <1>2, Zenon DEF Exports!WritePage
  <2>2. stored' = stored /\ before' = before /\ gone' = gone
    BY DEF Exports!WritePage
  <2> QED BY <1>1, <1>3, <1>4, <1>5, <2>1, <2>2
<1>7. PICK limit \in Nat : /\ page = PageOf(S, f, limit)
                           /\ last => Len(page) < limit \/ Cardinality(S) <= limit
  BY <1>1, <1>2, PageRead
<1>8. EntryOpen(stored, before, gone, kind, seq, f) /\ seq \in Seq(ExportRows)
  <2>1. EntryFine(stored, before, gone, export, e)
    BY <1>4, <1>5
  <2> QED BY <1>1, <1>3, <1>4, <1>5, <2>1 DEF EntryFine
<1>9. /\ longer \in Seq(ExportRows) /\ f + Len(page) \in Nat
      /\ EntryOpen(stored, before, gone, kind, longer, f + Len(page))
      /\ Cardinality(S) <= f + Len(page) => EntryDone(stored, before, gone, kind, longer)
  <2>1. page = PageOf(RowsIn(stored, kind), f, limit)
    BY <1>1, <1>7
  <2> QED BY <1>1, <1>3, <1>4, <1>8, <2>1, PageWritten
<1>10. last => EntryDone(stored, before, gone, kind, longer)
  <2>1. Paged(S, f, limit, page)
    BY <1>1, <1>4, <1>7, RowsAre, PageIs
  <2> QED BY <1>7, <1>9, <2>1 DEF Paged
<1>11. ASSUME NEW d \in 1 .. 6 PROVE EntryFine(stored, before, gone, export', d)
  <2>1. export'.bundle[d] = IF d = e THEN longer ELSE export.bundle[d]
    BY <1>4, <1>5, <1>6, <1>11
  <2>2. export'.entry = (IF last THEN e + 1 ELSE e) /\ export'.offset = IF last THEN 0 ELSE f + Len(page)
    BY <1>6
  <2>3. EntryFine(stored, before, gone, export, d)
    BY <1>4, <1>11
  <2>4. CASE d < e
    <3>1. EntryDone(stored, before, gone, Exports!EntryKind[d], export.bundle[d])
      BY <1>1, <2>3, <2>4 DEF EntryFine
    <3>2. d # e /\ d < export'.entry
      BY <1>5, <1>11, <2>2, <2>4
    <3>3. ~(d = export'.entry) /\ ~(d > export'.entry)
      BY <1>5, <1>11, <2>2, <2>4
    <3> QED BY <2>1, <3>1, <3>2, <3>3 DEF EntryFine
  <2>5. CASE d = e
    <3>1. CASE last
      <4>1. d < export'.entry /\ ~(d = export'.entry) /\ ~(d > export'.entry)
        BY <1>5, <2>2, <2>5, <3>1
      <4> QED BY <1>1, <1>10, <2>1, <2>5, <3>1, <4>1 DEF EntryFine
    <3>2. CASE ~last
      <4>1. ~(d < export'.entry) /\ ~(d > export'.entry)
        BY <1>5, <2>2, <2>5, <3>2
      <4> QED BY <1>1, <1>9, <2>1, <2>2, <2>5, <3>2, <4>1 DEF EntryFine
    <3> QED BY <3>1, <3>2
  <2>6. CASE d > e
    <3>1. export'.bundle[d] = <<>>
      BY <1>1, <1>5, <1>11, <2>1, <2>3, <2>6 DEF EntryFine
    <3>2. ~(d < export'.entry)
      BY <1>5, <1>11, <2>2, <2>6
    <3>3. d = export'.entry => export'.offset = 0
      BY <1>5, <1>11, <2>2, <2>6
    <3>4. EntryOpen(stored, before, gone, Exports!EntryKind[d], <<>>, 0)
      BY <1>4, EmptyOpen
    <3> QED BY <3>1, <3>2, <3>3, <3>4 DEF EntryFine
  <2> QED BY <1>5, <1>11, <2>4, <2>5, <2>6
<1>12. /\ export'.entry \in 1 .. 7 /\ export'.offset \in Nat /\ export'.status = "running"
       /\ export' = [status |-> export'.status, entry |-> export'.entry,
                     offset |-> export'.offset, bundle |-> export'.bundle]
  <2>1. (IF last THEN e + 1 ELSE e) \in 1 .. 7 /\ (IF last THEN 0 ELSE f + Len(page)) \in Nat
    BY <1>5, <1>9
  <2> QED BY <1>6, <2>1
<1>13. export'.bundle \in [1 .. 6 -> Seq(ExportRows)]
  <2>1. export'.bundle = [export.bundle EXCEPT ![e] = longer]
    BY <1>6
  <2> QED BY <1>4, <1>9, <2>1
<1>14. ExportFine(stored, before, gone, export')
  BY <1>4, <1>11, <1>12, <1>13 DEF ExportFine
<1> QED BY <1>6, <1>14 DEF ExportInv

LEMMA ExportEnds ==
    ASSUME ExportInv, Exports!WriteManifest
    PROVE  ExportInv'
<1>1. /\ ExportFine(stored, before, gone, export) /\ export.entry = 7
      /\ stored' = stored /\ before' = before /\ gone' = gone
      /\ export' = [export EXCEPT !.status = "complete"]
  BY EntriesAre DEF ExportInv, ExportFine, Exports!WriteManifest
<1>2. /\ export'.status = "complete" /\ export'.entry = export.entry
      /\ export'.offset = export.offset /\ export'.bundle = export.bundle
      /\ export' = [status |-> "complete", entry |-> export.entry, offset |-> export.offset, bundle |-> export.bundle]
  BY <1>1 DEF ExportFine
<1>3. \A e \in 1 .. 6 : EntryFine(stored, before, gone, export', e)
  BY <1>1, <1>2 DEF ExportFine, EntryFine
<1>4. ExportFine(stored, before, gone, export')
  BY <1>1, <1>2, <1>3 DEF ExportFine
<1> QED BY <1>1, <1>4 DEF ExportInv

LEMMA ExportStep == ExportInv /\ [Exports!Next]_(Exports!exportVars) => ExportInv'
<1>1. CASE Exports!Next
  BY <1>1, ExportStarts, ExportInsert, ExportDelete, ExportWrites, ExportEnds, ExportFails DEF Exports!Next
<1>2. CASE UNCHANGED Exports!exportVars
  BY <1>2 DEF ExportInv, Exports!exportVars
<1> QED BY <1>1, <1>2

LEMMA ExportInit == Exports!Init => ExportInv
<1> SUFFICES ASSUME Exports!Init PROVE ExportInv
  OBVIOUS
<1>1. /\ stored \in SUBSET ExportRows /\ before \subseteq stored \cup gone
      /\ "idle" \in {"idle", "running", "cut"}
      /\ export = [Exports!NoExport EXCEPT !.status = "idle"]
  BY EntriesAre DEF Exports!Init, Exports!NoExport
<1>2. ExportFine(stored, before, gone, export)
  BY <1>1, UnbegunFine
<1> QED BY <1>2 DEF ExportInv

LEMMA ExportIsFaithful == ExportInv => BundleFaithful
<1>1. SUFFICES ASSUME ExportInv, export.status = "complete", NEW e \in 1 .. 6, NEW r \in before \cap stored,
                      RowKind[r] = Exports!EntryKind[e], NEW places,
                      places = {i \in 1 .. Len(export.bundle[e]) : export.bundle[e][i] = r}
               PROVE  /\ places = {} => \E g \in gone : Exports!Earlier(g, r)
                      /\ Exports!Cardinality(places) > 1
                            => \E a \in (stored \cup gone) \ before : Exports!Earlier(a, r)
  BY EntriesAre DEF BundleFaithful, Exports!BundleFaithful, Exports!Readable
<1>2. PICK seq, kind : seq = export.bundle[e] /\ kind = Exports!EntryKind[e]
  OBVIOUS
<1>3. EntryDone(stored, before, gone, kind, seq)
  <2>1. export.entry = 7 /\ EntryFine(stored, before, gone, export, e)
    BY <1>1 DEF ExportInv, ExportFine
  <2>2. e < export.entry
    BY <2>1
  <2> QED BY <1>2, <2>1, <2>2 DEF EntryFine
<1>4. (Pulled(gone, r) \/ Holds(seq, r)) /\ (Pushed(stored, before, gone, r) \/ HoldsOnce(seq, r))
  BY <1>1, <1>2, <1>3 DEF EntryDone
<1>5. places = {} => Pulled(gone, r)
  BY <1>1, <1>2, <1>4 DEF Holds
<1>6. Exports!Cardinality(places) > 1 => Pushed(stored, before, gone, r)
  <2>1. SUFFICES ASSUME HoldsOnce(seq, r) PROVE Cardinality(places) \in {0, 1}
    BY <1>4, CountIs
  <2>2. CASE places = {}
    BY <2>2, FS_EmptySet
  <2>3. ASSUME NEW i \in places PROVE Cardinality(places) = 1
    <3>1. places = {i}
      BY <1>1, <1>2, <2>1, <2>3 DEF HoldsOnce
    <3> QED BY <3>1, FS_Singleton
  <2> QED BY <2>2, <2>3
<1> QED BY <1>5, <1>6 DEF Pulled, Pushed

(* BundleFaithful of every export: whatever is inserted and deleted while  *)
(* encodePagedJSON and encodeTodosCSV page through the rows, a bundle with *)
(* a manifest misses a row that stayed only where one before it was        *)
(* deleted, and repeats one only where one before it was inserted.         *)
THEOREM BundlesAreFaithful == Exports!Spec => []BundleFaithful
<1>1. ExportInv /\ [Exports!Next]_(Exports!exportVars) => ExportInv'
  BY ExportStep
<1>2. Exports!Spec => []ExportInv
  BY <1>1, ExportInit, PTL DEF Exports!Spec
<1> QED BY <1>2, ExportIsFaithful, PTL

===============================================================================
