------------------------------ MODULE ExportFlow ------------------------------
(***************************************************************************)
(* The export half of the Portability context (application/command/        *)
(* export.go): a bundle is streamed entry by entry, every entry page by    *)
(* page with OFFSET and LIMIT, and no transaction holds the rows still.    *)
(* While it runs, requests, the worker and imports insert rows anywhere in *)
(* the order (an imported todo keeps its created_at), and the user deletes *)
(* sessions.  Todos and deliveries are never deleted for good, and what    *)
(* they are sorted by never changes.                                       *)
(***************************************************************************)
EXTENDS Integers, Sequences, FiniteSets

CONSTANTS
    Records,        \* the ids of the rows one user has or will have
    Kind,           \* the kind of each
    Parent,         \* the todo of a delivery, the session of a message, or None
    Position,       \* where a row stands among those of its kind: created_at, id
    PageSize,       \* rows the export asks for at a time
    ListLimit,      \* rows the todo and delivery queries return at most
    MaxChanges,     \* bound: changes made while one export runs
    None

(* An entry of the bundle is written from the rows of one kind.            *)
Entries == <<"todos.json", "deliveries.json", "preferences.json", "todos.csv",
             "sessions.json", "messages.json">>
EntryKind == <<"todo", "delivery", "channel", "todo", "session", "message">>

(* The queries cap the limit they are given; a page they cut short would   *)
(* look like the last one.  (The constants are those of an instance, which *)
(* assumes this.)                                                          *)
ExportAssumption ==
    /\ IsFiniteSet(Records) /\ None \notin Records
    /\ Kind \in [Records -> {"todo", "delivery", "channel", "session", "message"}]
    /\ Parent \in [Records -> Records \cup {None}]
    /\ Position \in [Records -> Nat]
    /\ \A r, s \in Records : Kind[r] = Kind[s] /\ Position[r] = Position[s] => r = s
    /\ ListLimit \in Nat /\ PageSize \in 1..ListLimit

VARIABLES
    stored,     \* the rows that exist
    export,     \* the export: how far it is and what the bundle holds
    before,     \* history: the rows that existed when the export began
    gone        \* history: the rows deleted since

exportVars == <<stored, export, before, gone>>

-------------------------------------------------------------------------------
NoExport == [status |-> "idle", entry |-> 1, offset |-> 0, bundle |-> [e \in 1..Len(Entries) |-> <<>>]]

Init ==
    /\ stored = {} /\ before = {} /\ gone = {}
    /\ export = NoExport

Running == export.status = "running"

Earlier(r, s) == Kind[r] = Kind[s] /\ Position[r] < Position[s]
Rows(kind) == {r \in stored : Kind[r] = kind}
Ahead(rows, r) == Cardinality({q \in rows : Earlier(q, r)})
Sorted(rows) == [n \in 1..Cardinality(rows) |-> CHOOSE r \in rows : Ahead(rows, r) = n - 1]

(* One query; the channels are listed by one without a limit.              *)
Limit(kind) ==
    CASE kind = "channel"             -> Cardinality(Records)
      [] kind \in {"todo", "delivery"} -> IF PageSize > ListLimit THEN ListLimit ELSE PageSize
      [] OTHER                        -> PageSize
Page(kind) ==
    LET rows == Sorted(Rows(kind))
        last == export.offset + Limit(kind)
    IN SubSeq(rows, export.offset + 1, IF last < Len(rows) THEN last ELSE Len(rows))

(* Fault: a full page is the last one too.                                 *)
LastPageFull(kind, page) == kind = "channel" \/ Len(page) <= PageSize
LastPage(kind, page) == kind = "channel" \/ Len(page) < PageSize

-------------------------------------------------------------------------------
Changes == Cardinality((stored \cup gone) \ before) + Cardinality(gone)
MayChange == Running /\ Changes < MaxChanges

(* A row is inserted: its parent is there.                                 *)
Insert(r) ==
    /\ MayChange
    /\ r \notin stored \cup gone
    /\ Parent[r] # None => Parent[r] \in stored
    /\ stored' = stored \cup {r}
    /\ UNCHANGED <<export, before, gone>>

(* Its messages are deleted with a session.                                *)
DeleteSession(s) ==
    LET lost == {r \in stored : r = s \/ Parent[r] = s} IN
    /\ MayChange
    /\ s \in stored /\ Kind[s] = "session"
    /\ stored' = stored \ lost
    /\ gone' = gone \cup lost
    /\ UNCHANGED <<export, before>>

-------------------------------------------------------------------------------
(* The user, whatever he has, asks for a bundle.                           *)
StartExport(rows) ==
    /\ export.status = "idle"
    /\ \A r \in rows : Parent[r] # None => Parent[r] \in rows
    /\ stored' = rows /\ before' = rows
    /\ export' = [export EXCEPT !.status = "running"]
    /\ UNCHANGED gone

(* One turn of encodePagedJSON or encodeTodosCSV: a page is fetched and    *)
(* written, and after a short one comes the next entry.                    *)
WritePage ==
    LET e == export.entry
        page == Page(EntryKind[e])
        last == LastPage(EntryKind[e], page)
    IN
    /\ Running /\ e <= Len(Entries)
    /\ export' = [export EXCEPT !.bundle[e] = @ \o page,
                                !.offset = IF last THEN 0 ELSE @ + Len(page),
                                !.entry = IF last THEN e + 1 ELSE e]
    /\ UNCHANGED <<stored, before, gone>>

(* The manifest comes last, and only with it the parser takes the bundle.  *)
WriteManifest ==
    /\ Running /\ export.entry > Len(Entries)
    /\ export' = [export EXCEPT !.status = "complete"]
    /\ UNCHANGED <<stored, before, gone>>

(* A query or a write fails: what was streamed stays without a manifest,   *)
(* and the parser refuses it.                                              *)
FailExport ==
    /\ Running
    /\ export' = [NoExport EXCEPT !.status = "cut"]
    /\ UNCHANGED <<stored, before, gone>>

Next ==
    \/ \E rows \in SUBSET Records : StartExport(rows)
    \/ \E r \in Records : Insert(r) \/ DeleteSession(r)
    \/ WritePage \/ WriteManifest \/ FailExport

Spec == Init /\ [][Next]_exportVars

-------------------------------------------------------------------------------
(* requiredEntries: the parser refuses a bundle without its manifest.      *)
Readable == export.status = "complete"

(***************************************************************************)
(* A bundle that can be imported holds the full history: a row that was    *)
(* there from the export's beginning to its end is in it, unless a session *)
(* or message that sorts before it was deleted meanwhile, and it is there  *)
(* twice only if a row that sorts before it was inserted (ListAll's and    *)
(* Export's "stable offset paging").                                       *)
(***************************************************************************)
BundleFaithful ==
    Readable =>
        \A e \in 1..Len(Entries), r \in before \cap stored :
            LET places == {i \in 1..Len(export.bundle[e]) : export.bundle[e][i] = r} IN
            Kind[r] = EntryKind[e] =>
                /\ places = {} => \E g \in gone : Earlier(g, r)
                /\ Cardinality(places) > 1 =>
                      \E a \in (stored \cup gone) \ before : Earlier(a, r)

===============================================================================
