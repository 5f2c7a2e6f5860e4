------------------------ MODULE ReverseOpenCorrelation ------------------------
(***************************************************************************)
(* ReverseOpenCorrelation of networks/tcp/tunnel.rs: the end that asked its *)
(* peer for a data connection matches the connection that arrives with the  *)
(* response that comes over the control connection.  apply() is split into  *)
(* the state after an event, Apply, and its return value, Outcome.          *)
(***************************************************************************)
EXTENDS Naturals

NoConn == 0

\* ReverseOpenCorrelation, with NoConn for None
Correlation == [arrival : Nat, response : Nat, registered : BOOLEAN,
                terminal : BOOLEAN, completed : Nat]

NewCorrelation == [arrival |-> NoConn, response |-> NoConn, registered |-> FALSE,
                   terminal |-> FALSE, completed |-> NoConn]

\* Arrival, ArrivalRegistered, SuccessResponse; End is Failure or TerminalCleanup
Arrival(c)           == [type |-> "Arrival", conn |-> c]
ArrivalRegistered(c) == [type |-> "ArrivalRegistered", conn |-> c]
SuccessResponse(c)   == [type |-> "SuccessResponse", conn |-> c]
End                  == [type |-> "End", conn |-> NoConn]

Complete(k, c) == [k EXCEPT !.terminal = TRUE, !.completed = c]
Fail(k)        == [k EXCEPT !.terminal = TRUE]

ApplyArrival(k, c) ==
  IF k.arrival # NoConn \/ k.response \notin {NoConn, c}
  THEN Fail(k)
  ELSE [k EXCEPT !.arrival = c]

ApplyArrivalRegistered(k, c) ==
  LET known == [k EXCEPT !.registered = TRUE]
  IN CASE k.arrival # c -> Fail(k)
       [] k.arrival = c /\ k.response = c /\ ~k.registered -> Complete(known, c)
       [] OTHER -> known

ApplySuccessResponse(k, c) ==
  LET known == [k EXCEPT !.response = c]
      recorded == IF k.response # NoConn THEN k.response ELSE k.arrival
  IN CASE recorded \notin {NoConn, c} -> Fail(k)
       [] recorded \in {NoConn, c} /\ k.registered -> Complete(known, c)
       [] OTHER -> known

\* the state after event e
Apply(k, e) ==
  CASE k.terminal -> k
    [] ~k.terminal /\ e.type = "Arrival" -> ApplyArrival(k, e.conn)
    [] ~k.terminal /\ e.type = "ArrivalRegistered" -> ApplyArrivalRegistered(k, e.conn)
    [] ~k.terminal /\ e.type = "SuccessResponse" -> ApplySuccessResponse(k, e.conn)
    [] OTHER -> Fail(k)

\* the value apply(e) returns in state k: Complete when this event completes
\* the request, Reject when it is refused, Terminal when it ends the request,
\* Idempotent when it repeats what is known, Wait otherwise
Outcome(k, e) ==
  LET q == Apply(k, e)
  IN CASE k.terminal ->
            IF e.type = "SuccessResponse" /\ k.completed = e.conn THEN "Idempotent" ELSE "Reject"
       [] ~k.terminal /\ e.type = "End" -> "Terminal"
       [] ~k.terminal /\ e.type # "End" /\ q.terminal ->
            IF q.completed # NoConn THEN "Complete" ELSE "Reject"
       [] ~k.terminal /\ e.type # "End" /\ ~q.terminal ->
            IF q = k THEN "Idempotent" ELSE "Wait"
=============================================================================
