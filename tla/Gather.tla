------------------------------- MODULE Gather -------------------------------
(***************************************************************************)
(* What awaiting aio_gather promises its caller, and nothing about how: a   *)
(* number of awaitables are driven to an end, and the call then ends       *)
(* exactly once.  It returns all their results, each in the place of its   *)
(* awaitable, or raises the exception of the one awaitable that failed     *)
(* first, or ends with CancelledError when the caller was cancelled.       *)
(* There is no partial result.  AioGather implements this specification,   *)
(* with 1..N for Task, so that the results are in the order of arguments.  *)
(***************************************************************************)
CONSTANT Task   \* the awaitables, named by their positions or otherwise

VARIABLES
  settled,          \* how each awaitable ended, or "pending"
  callerCancelled,  \* the task awaiting the gather received a CancelledError
  outcome,          \* "none" while the call is being awaited
  output            \* the tuple returned, <<>> before

gatherVars == <<settled, callerCancelled, outcome, output>>

ResultOf(t) == <<"value", t>>

GatherInit ==
  /\ settled = [t \in Task |-> "pending"]
  /\ callerCancelled = FALSE
  /\ outcome = "none"
  /\ output = <<>>

Failed == {t \in Task : settled[t] = "error"}

\* No awaitable is left running once the call has ended.
Settle(t, how) ==
  /\ outcome = "none"
  /\ settled[t] = "pending"
  /\ settled' = [settled EXCEPT ![t] = how]
  /\ UNCHANGED <<callerCancelled, outcome, output>>

\* The call may still succeed.
Open == Failed = {} /\ ~callerCancelled

\* What an awaitable ends with counts only as long as the call is open.
Value(t) == Open /\ Settle(t, "value")

\* So at most one awaitable fails: its failure is the one that is reported.
Error(t) == Open /\ Settle(t, "error")

\* An awaitable is given up only because the call can no longer succeed.
Drop(t) == ~Open /\ Settle(t, "dropped")

CallerCancel ==
  /\ outcome = "none"
  /\ Failed = {}
  /\ callerCancelled' = TRUE
  /\ UNCHANGED <<settled, outcome, output>>

AllSettled == \A t \in Task : settled[t] # "pending"

Return ==
  /\ outcome = "none"
  /\ Open
  /\ \A t \in Task : settled[t] = "value"
  /\ outcome' = "returned"
  /\ output' = [t \in Task |-> ResultOf(t)]
  /\ UNCHANGED <<settled, callerCancelled>>

Raise ==
  /\ outcome = "none" /\ AllSettled
  /\ Failed # {}
  /\ outcome' = "raised"
  /\ UNCHANGED <<settled, callerCancelled, output>>

EndCancelled ==
  /\ outcome = "none" /\ AllSettled
  /\ Failed = {} /\ callerCancelled
  /\ outcome' = "cancelled"
  /\ UNCHANGED <<settled, callerCancelled, output>>

GatherNext ==
  \/ \E t \in Task : Value(t) \/ Error(t) \/ Drop(t)
  \/ CallerCancel
  \/ Return \/ Raise \/ EndCancelled

GatherSpec == GatherInit /\ [][GatherNext]_gatherVars
=============================================================================
