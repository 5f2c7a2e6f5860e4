---------------------------- MODULE MCOwnerElection ----------------------------
(* Three owners and a renewal of one serving SN's session, stamped at time 1. *)
EXTENDS OwnerElection

MCKindOf == [e \in Entries |-> "renew"]
MCNowOf == [e \in Entries |-> 1]
===============================================================================
