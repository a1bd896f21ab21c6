----------------------------- MODULE ActionRun ------------------------------
(***************************************************************************)
(* The runner for GitHub Actions, run of app/action/runner.py: one event,  *)
(* read from a file, goes through EventDispatch in the foreground and the  *)
(* way it ends becomes the exit status of the process.                     *)
(***************************************************************************)
EXTENDS EventDispatch

CONSTANT FailureCodes   \* the return codes that callbacks give to ActionFailure

ASSUME FailureCodesAssumption == FailureCodes \subseteq Nat

VARIABLES
  process,   \* where run is
  reason,    \* the exception that a callback raises, or would
  status     \* the exit status of the process, once it has exited

actionVars == <<vars, process, reason, status>>

\* An exception is any ordinary one, or a GitHubActionError with its outcome.
Crash == [kind |-> "crash", code |-> 1]
Success == [kind |-> "success", code |-> 0]
Neutral == [kind |-> "neutral", code |-> 78]
Failure(code) == [kind |-> "failure", code |-> code]

\* Mutant: the return code of ActionFailure is not validated.
FailureAsGiven(code) == Failure(code)

\* The validator of ActionFailure raises ValueError in the callback.
FailureOrError(code) == IF code \in {Success.code, Neutral.code} THEN Crash ELSE Failure(code)

Reason == {Crash, Success, Neutral} \cup {FailureOrError(code) : code \in FailureCodes}

ActionInit ==
  /\ Init
  /\ process = "starting"
  /\ reason = [r \in Router |-> [i \in Callback(r) |-> Crash]]
  /\ status = 0

-----------------------------------------------------------------------------
(* The event on its way through the routers *)

\* The event is read and goes to the routers without a lookup or a sleep.
EventRead ==
  /\ process = "starting"
  /\ process' = "dispatching"
  /\ UNCHANGED <<vars, reason, status>>

DispatchSteps ==
  /\ process = "dispatching"
  /\ \/ \E r \in Router : RouterStep(r)
     \/ \E r \in Router : \E i \in Callback(r) :
          CallbackBegins(r, i) \/ CallbackReturns(r, i) \/ CallbackCancelled(r, i)
     \/ DispatchEnds
  /\ UNCHANGED <<process, reason, status>>

\* An unfit callback never gets here: its TypeError is a crash.
CallbackFails(r, i, why) ==
  /\ process = "dispatching"
  /\ CallbackRaises(r, i)
  /\ reason' = [reason EXCEPT ![r][i] = why]
  /\ UNCHANGED <<process, status>>

-----------------------------------------------------------------------------
(* The end of the process *)

\* Mutant: route_github_event keeps the exception to itself, as in a server.
DroppedInAction(why) == IF why = Crash THEN 0 ELSE why.code

\* An ordinary exception is raised again by route_github_event and becomes an
\* ActionFailure; a GitHubActionError brings its own outcome.
CodeOf(why) == why.code

\* The exception that dispatch_event raised.
Reported ==
  LET r == CHOOSE s \in Router : settled[s] = "error"
  IN reason[r][CHOOSE i \in Callback(r) : i \in Culprits(r)]

\* asyncio.run cancels every task that is left and waits for it; SystemExit
\* carries the return code, of which the system keeps the lowest byte.
Exit(end, code) ==
  /\ process' = end
  /\ status' = code % 256
  /\ call' = [r \in Router |-> [i \in Callback(r) |->
                IF call[r][i] \in Live THEN "cancelled" ELSE call[r][i]]]
  /\ UNCHANGED <<unfit, body, gatherVars, reason>>

\* There is no metadata, no event file, no JSON in it or no JSON object.
EventUnreadable == process = "starting" /\ Exit("exited", Crash.code)

Processed == process = "dispatching" /\ outcome = "returned" /\ Exit("exited", Success.code)

Failed == process = "dispatching" /\ outcome = "raised" /\ Exit("exited", CodeOf(Reported))

\* A KeyboardInterrupt, whatever the dispatch has come to.
Interrupted == process \in {"starting", "dispatching"} /\ Exit("interrupted", Neutral.code)

Exited == process \in {"exited", "interrupted"} /\ UNCHANGED actionVars

ActionNext ==
  \/ EventRead
  \/ DispatchSteps
  \/ \E r \in Router : \E i \in Callback(r) : \E why \in Reason : CallbackFails(r, i, why)
  \/ EventUnreadable \/ Processed \/ Failed \/ Interrupted
  \/ Exited

ActionSpec == ActionInit /\ [][ActionNext]_actionVars

-----------------------------------------------------------------------------
(* Properties *)

\* The reasons of the callbacks of blocking routers that have failed.
Reasons ==
  UNION {{reason[r][i] : i \in Culprits(r)} : r \in Router}

\* The exit status 0 means that every callback of a blocking router ran to its
\* end, unless one of them ended the action successfully by itself or failed
\* with a code that does not fit in a byte.
SuccessMeansHandled ==
  process = "exited" /\ status = 0 =>
    \/ \A r \in Blocking : \A i \in Callback(r) : call[r][i] = "returned"
    \/ \E why \in Reasons : why = Success \/ why.code >= 256

\* An action whose callbacks raise nothing but ordinary exceptions fails with
\* status 1, whichever of them the gathers let through.
CrashFails == process = "exited" /\ Reasons = {Crash} => status = 1

\* A failure is never seen as one of the other outcomes, whose codes ActionFailure
\* rejects, as long as its code fits in a byte.
FailureIsNotSuccess ==
  process = "exited" /\ outcome = "raised" /\ Reported.kind = "failure" /\ Reported.code < 256 =>
    status \notin {Success.code, Neutral.code}
=============================================================================
