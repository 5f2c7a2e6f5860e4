-------------------------- MODULE CorrelationHistory --------------------------
(***************************************************************************)
(* A ReverseOpenCorrelation that is fed events in any order, as the unit    *)
(* tests feed it, with the log of what it was fed.                          *)
(***************************************************************************)
EXTENDS ReverseOpenCorrelation, Sequences

CONSTANT Conns   \* connection ids events may carry

\* what the theorems ask of the constants
ConnsAssumption == Conns \subseteq Nat \ {NoConn}

VARIABLES corr, log
historyVars == <<corr, log>>

Event == {Arrival(c) : c \in Conns} \cup {ArrivalRegistered(c) : c \in Conns}
         \cup {SuccessResponse(c) : c \in Conns} \cup {End}

HistoryInit == corr = NewCorrelation /\ log = <<>>

Feed(e) == /\ corr' = Apply(corr, e)
           /\ log' = Append(log, e)

HistoryNext == \E e \in Event : Feed(e)
HistorySpec == HistoryInit /\ [][HistoryNext]_historyVars

-----------------------------------------------------------------------------
\* The correlation and the log keep their types
HistoryTypeOK == corr \in Correlation /\ log \in Seq(Event)

\* A completed request is one whose arrival, registration and response all
\* name the completed connection; apply() never completes on less
CompletedIsMatched ==
  corr.completed # NoConn =>
    /\ corr.terminal /\ corr.registered
    /\ corr.arrival = corr.completed /\ corr.response = corr.completed

\* Once a request has ended no event changes its outcome
EndIsFinal == [][corr.terminal => corr' = corr]_historyVars
=============================================================================
