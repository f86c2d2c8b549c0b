----------------------------- MODULE MCPortability -----------------------------
(***************************************************************************)
(* The two halves of the Portability context for TLC.                      *)
(*                                                                         *)
(* Imports: three bundles of one source instance.  The second was exported *)
(* after the todo and the session had changed; the third holds a todo with *)
(* a legacy registration and a malformed session with its message, and     *)
(* lacks the todo of its delivery.                                         *)
(***************************************************************************)
EXTENDS Portability, TLC

CONSTANTS chan, todo, dlv, sess, msg, oldTodo

MCRecords == {chan, todo, dlv, sess, msg, oldTodo}
MCKind == (chan :> "channel") @@ [r \in {todo, oldTodo} |-> "todo"]
          @@ (dlv :> "delivery")
          @@ (sess :> "session") @@ (msg :> "message")
MCParent == (dlv :> todo) @@ (msg :> sess)
            @@ [r \in {chan, todo, oldTodo, sess} |-> None]
MCLegacy == {oldTodo}
MCFingerprints == {"old", "new"}
MCBundles ==
    LET current == {chan, todo, dlv, sess, msg} IN
    {[r \in current |-> "old"],
     [r \in current |-> IF r \in {todo, sess} THEN "new" ELSE "old"],
     [r \in {oldTodo, dlv, sess, msg} |-> IF r = sess THEN "malformed" ELSE "old"]}

(* The third import is uploaded when one of the others is committed.       *)
TwoPending == Cardinality({i \in Imports : imports[i].state = "pending"}) <= 2

Symmetry == Permutations(Imports) \cup Permutations(Calls)

-------------------------------------------------------------------------------
(***************************************************************************)
(* Exports: the rows of one user, two pages of todos and of sessions.  To  *)
(* an export an import is nothing but inserted rows, and an import reads a *)
(* bundle whose export has ended, so that a behaviour is one of the two.   *)
(***************************************************************************)
CONSTANTS t1, t2, t3, d1, s1, s2, s3, m1

MCRows == {t1, t2, t3, d1, s1, s2, s3, m1}
MCRowKind == [r \in {t1, t2, t3} |-> "todo"] @@ (d1 :> "delivery")
             @@ [r \in {s1, s2, s3} |-> "session"] @@ (m1 :> "message")
MCRowParent == (d1 :> t1) @@ (m1 :> s1) @@ [r \in MCRows |-> None]
MCPosition == (t2 :> 2) @@ (s2 :> 2) @@ (t3 :> 3) @@ (s3 :> 3) @@ [r \in MCRows |-> 1]

MCInit == Init /\ Exports!Init

(* Each half moves while the other has not begun.                          *)
Importing == export = Exports!NoExport /\ UNCHANGED <<stored, export, before, gone>>
Exporting == channels = {} /\ (\A i \in Imports : imports[i] = NoImport) /\ UNCHANGED vars

MCNext ==
    \/ \E i \in Imports, b \in Bundles : Importing /\ Upload(i, b)
    \/ \E i \in Imports : Importing /\ Expire(i)
    \/ \E r \in Records : Importing /\ AddChannel(r)
    \/ \E r \in Records : Importing /\ DeleteSession(r)
    \/ \E p \in Calls, i \in Imports : Importing /\ StartConfirm(p, i)
    \/ \E p \in Calls : Importing /\ DecideAgain(p)
    \/ \E p \in Calls : Importing /\ ReadTargets(p)
    \/ \E p \in Calls, r \in Records : Importing /\ Execute(p, r)
    \/ \E p \in Calls : Importing /\ Commit(p)
    \/ \E p \in Calls : Importing /\ Fail(p)
    \/ \E seen \in SUBSET ExportRows : Exporting /\ Exports!StartExport(seen)
    \/ \E r \in ExportRows : Exporting /\ Exports!Insert(r)
    \/ \E r \in ExportRows : Exporting /\ Exports!DeleteSession(r)
    \/ Exporting /\ Exports!WritePage
    \/ Exporting /\ Exports!WriteManifest
    \/ Exporting /\ Exports!FailExport

MCSpec == MCInit /\ [][MCNext]_<<vars, stored, export, before, gone>>

===============================================================================
