------------------------------ MODULE MCTcpLease ------------------------------
(* TcpLease for TLC, in two settings: an orderly one, with the constants of   *)
(* the configuration, in which one connection is reused for two leases; and a *)
(* faulty one with one claim of each end and every timeout, close and early   *)
(* drop.                                                                       *)
EXTENDS TcpLease

Faulty == INSTANCE TcpLease WITH Kinds <- {"Stream"}, MaxClaims <- 1,
                                 Timeouts <- TRUE, Closes <- TRUE, EarlyDrop <- TRUE

VARIABLE faulty   \* the setting

SettingsInit == faulty \in BOOLEAN /\ Init
SettingsNext ==
  /\ UNCHANGED faulty
  /\ \/ ~faulty /\ Next
     \/ faulty /\ Faulty!Next

SettingsSpec == SettingsInit /\ [][SettingsNext]_<<vars, faulty>> /\ Fairness

-----------------------------------------------------------------------------
(* What holds in the orderly setting *)

\* HealthyConnectionKept: without timeouts, closes and early drops the handlers
\* retire no connection and close no tunnel
OrderlyConnectionKept == ~faulty => HealthyConnectionKept

\* ClaimAnswered and LeaseReturned: every claim_entry is answered although no
\* timeout fires, and a connection both users have released goes back to the pool
OrderlyProgress == ~faulty => ClaimAnswered /\ LeaseReturned
=============================================================================
