--------------------------- MODULE MCOwnerHealth ---------------------------
(***************************************************************************)
(* SnRelay for TLC with one serving SN that keeps publishing to two owners *)
(* and no requests: does an owner whose health lapsed come back?           *)
(***************************************************************************)
EXTENDS SnRelay

NoReceiver == [r \in Jobs |-> 1]
OnlyPublishing == {[kind |-> [r \in Jobs |-> "none"], publishers |-> Sns, owners |-> Owners]}
=============================================================================
