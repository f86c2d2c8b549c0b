---------------------------- MODULE MCConversations ----------------------------
(***************************************************************************)
(* An instance of Conversations for TLC.  Confirmations and confirm calls  *)
(* are interchangeable.                                                    *)
(***************************************************************************)
EXTENDS Conversations, TLC

Symmetry == Permutations(ConfirmationIds) \cup Permutations(Confirms)

===============================================================================
