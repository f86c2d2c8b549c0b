---------------------------- MODULE MCReminderLoop ----------------------------
(***************************************************************************)
(* Instances of ReminderLoop for TLC.  The due instants only differ from   *)
(* one another and the channels are handled alike, so both are symmetric;  *)
(* symmetry is used in the runs without temporal properties only.          *)
(***************************************************************************)
EXTENDS ReminderLoop, TLC

InstantSymmetry == Permutations(Instants)

(* At most one of the jobs is run a second time.                           *)
OneRetried == \A j, k \in Keys : jobs[j].attempt > 1 /\ jobs[k].attempt > 1 => j = k

===============================================================================
