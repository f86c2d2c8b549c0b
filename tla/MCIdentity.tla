------------------------------ MODULE MCIdentity ------------------------------
(* The identity context for TLC: requests in progress are alike.  Logging   *)
(* in and keeping channels share nothing but a user's sessions: a run looks *)
(* at behaviours in which one of the two is at work.                        *)
EXTENDS Identity, TLC

SlotSymmetry == Permutations(Slots)

ChannelSteps == {"save_channel", "update_verified", "update_code"}
LoggingIn == challenges # {} \/ \E s \in Slots : requests[s].step \notin ChannelSteps \cup {"none"}
KeepingChannels ==
    \/ \E s \in Slots : requests[s].step \in ChannelSteps
    \/ \E k \in kept : k # [channel |-> -1, verified |-> FALSE, enabled |-> TRUE, code |-> 0]
OneAtWork == ~(LoggingIn /\ KeepingChannels)

===============================================================================
