--------------------------- MODULE EventDispatch ----------------------------
(***************************************************************************)
(* GitHubEvent.dispatch_via of github/models/events.py: an event is handed *)
(* to every router of the app at once, and each router runs the callbacks  *)
(* that match the event by its own strategy (routing/routers.py).          *)
(*                                                                         *)
(* The routers run in one aio_gather, here the abstract Gather, whose      *)
(* variables are those of this module.  A concurrent router runs its       *)
(* callbacks in an aio_gather of its own, whose scope is nested in the     *)
(* outer one: what it does is shown to be a Gather, too.                   *)
(*                                                                         *)
(* A coroutine runs without a break from one suspension to the next.  The  *)
(* routers make their first steps one after the other, and so do the       *)
(* callbacks of a concurrent router; a failure in such a step shuts the    *)
(* gather before the next one begins, and who begins in a cancelled scope  *)
(* is not reached by its cancellation (see AioGather).                     *)
(***************************************************************************)
EXTENDS Naturals, Sequences

CONSTANTS
  Strategy,   \* of each router: a frozenset is unpacked in an arbitrary order
  Matching    \* the number of callbacks that each router has for the event

Strategies == {"sequential", "concurrent", "nonblocking"}

\* dispatch_via raises ValueError when it is called without any router.
ASSUME StrategyAssumption == Strategy \in Seq(Strategies) /\ Strategy # <<>>
ASSUME MatchingAssumption == Matching \in [1..Len(Strategy) -> Nat]

Router == 1..Len(Strategy)
Callback(r) == 1..Matching[r]
Blocking == {r \in Router : Strategy[r] # "nonblocking"}

VARIABLES
  unfit,   \* the first callback of each router that raises when it is called,
           \* before there is a coroutine; Matching[r] + 1 if there is none
  body,    \* how far the dispatch coroutine of each router is
  call,    \* what became of each callback of each router
  settled, callerCancelled, outcome, output   \* of the gather over the routers

Gathered == INSTANCE Gather WITH Task <- Router

gatherVars == <<settled, callerCancelled, outcome, output>>
vars == <<unfit, body, call, gatherVars>>

\* A router that began when the gather could not succeed any more is unreached.
BodyState == {"unstarted", "running", "unreached", "value", "error", "cancelled"}

\* A callback is called when there is a coroutine of it that has not begun, and
\* unreached when it began in a scope that was cancelled already.
Live == {"called", "running", "unreached"}
CallState == Live \cup {"idle", "returned", "raised", "cancelled"}

TypeOK ==
  /\ unfit \in [Router -> Nat]
  /\ \A r \in Router : unfit[r] \in 1..(Matching[r] + 1)
  /\ body \in [Router -> BodyState]
  /\ \A r \in Router : call[r] \in [Callback(r) -> CallState]
  /\ settled \in [Router -> {"pending", "value", "error", "dropped"}]
  /\ callerCancelled \in BOOLEAN
  /\ outcome \in {"none", "returned", "raised", "cancelled"}

\* process_webhook_payload calls its function with the keys of the payload: a
\* function with other parameters raises TypeError at once.
Init ==
  /\ unfit \in [Router -> UNION {1..(Matching[r] + 1) : r \in Router}]
  /\ \A r \in Router : unfit[r] <= Matching[r] + 1
  /\ body = [r \in Router |-> "unstarted"]
  /\ call = [r \in Router |-> [i \in Callback(r) |-> "idle"]]
  /\ Gathered!GatherInit

Some(r, state) == \E i \in Callback(r) : call[r][i] = state

-----------------------------------------------------------------------------
(* The dispatch coroutine of one router *)

\* The routers are spawned together and begin in their order.  A router goes on
\* in its first step, or after all have made theirs.
AllStarted == \A r \in Router : body[r] # "unstarted"

Begins(r) ==
  body[r] = "unstarted" /\ \A s \in Router : s < r => body[s] # "unstarted"

GoesOn(r) ==
  body[r] # "unstarted" /\ (AllStarted \/ \A s \in Router : s > r => body[s] = "unstarted")

\* In the step in which the coroutine ends, its end is put in the queue of the
\* gather, an exception shuts the gather, and what comes too late is dropped.
Settles(r, state) ==
  \/ state \in {"running", "unreached"} /\ UNCHANGED gatherVars
  \/ state = "value" /\ Gathered!Value(r)
  \/ state = "error" /\ Gathered!Error(r)
  \/ state \in {"value", "error", "cancelled"} /\ Gathered!Drop(r)

\* A step of the coroutine of router r.
Step(r, calls, state) ==
  /\ call' = [call EXCEPT ![r] = calls]
  /\ body' = [body EXCEPT ![r] = state]
  /\ Settles(r, state)
  /\ UNCHANGED unfit

\* A step of a callback that has a task of its own.
CallStep(r, i, state) ==
  /\ call' = [call EXCEPT ![r] = [call[r] EXCEPT ![i] = state]]
  /\ UNCHANGED <<unfit, body, gatherVars>>

InScope == IF Gathered!Open THEN "running" ELSE "unreached"

AllFit(r) == unfit[r] > Matching[r]

\* One turn of "for coro in callback_coros: await coro".
Proceed(r, calls, i) ==
  \/ i > Matching[r] /\ Step(r, calls, "value")
  \/ i \in Callback(r) /\ i = unfit[r] /\ Step(r, [calls EXCEPT ![i] = "raised"], "error")
  \/ i \in Callback(r) /\ i # unfit[r] /\ Step(r, [calls EXCEPT ![i] = InScope], InScope)

\* Mutant: the coroutines are made tasks before the first one is awaited.
StartTogether(r) ==
  /\ Strategy[r] = "sequential" /\ Begins(r)
  /\ Step(r, [i \in Callback(r) |-> IF i < unfit[r] THEN "running" ELSE "idle"],
          "running")

StartSequential(r) ==
  /\ Strategy[r] = "sequential" /\ Begins(r)
  /\ Proceed(r, call[r], 1)

\* Mutant: each coroutine becomes a task as soon as its callback is called.
TasksAsCalled(r) ==
  [i \in Callback(r) |->
     IF i < unfit[r] THEN "called" ELSE IF i = unfit[r] THEN "raised" ELSE "idle"]

\* aio_gather(*callback_coros) calls every callback before it runs any of them.
GatheredCalls(r) ==
  [i \in Callback(r) |->
     IF AllFit(r) THEN "called" ELSE IF i = unfit[r] THEN "raised" ELSE "idle"]

StartConcurrent(r) ==
  /\ Strategy[r] = "concurrent" /\ Begins(r)
  /\ Step(r, GatheredCalls(r), IF AllFit(r) THEN InScope ELSE "error")

\* set.update(map(create_task, callback_coros)) makes the tasks one by one, and
\* keeps those it has made when a callback raises.
ScheduledCalls(r) ==
  [i \in Callback(r) |->
     IF i < unfit[r] THEN "running" ELSE IF i = unfit[r] THEN "raised" ELSE "idle"]

StartNonBlocking(r) ==
  /\ Strategy[r] = "nonblocking" /\ Begins(r)
  /\ Step(r, ScheduledCalls(r), IF AllFit(r) THEN "value" ELSE "error")

-----------------------------------------------------------------------------
(* The callbacks *)

\* A sequential router runs its callback itself.  The callbacks of a concurrent
\* one begin in their order, and none goes on before all have begun.
MayStep(r, i) ==
  /\ GoesOn(r)
  /\ Strategy[r] # "sequential" => AllStarted
  /\ \/ call[r][i] = "called" /\ \A j \in Callback(r) : j < i => call[r][j] # "called"
     \/ call[r][i] \in {"running", "unreached"} /\ ~Some(r, "called")

\* The scope in which the callbacks of r run is cancelled, or one around it.
ScopeCancelled(r) ==
  /\ r \in Blocking
  /\ \/ ~Gathered!Open
     \/ Strategy[r] = "concurrent" /\ (Some(r, "raised") \/ Some(r, "cancelled"))

\* The first step of a callback of a concurrent router ends in a suspension.  When
\* its router has begun in time it cancels the scope of its callbacks later on.
CallbackBegins(r, i) ==
  /\ Strategy[r] = "concurrent"
  /\ call[r][i] = "called" /\ MayStep(r, i)
  /\ CallStep(r, i, IF body[r] = "unreached" \/ Some(r, "raised") \/ Some(r, "cancelled")
                    THEN "unreached" ELSE "running")

\* Mutant: a sequential router does not notice that it was cancelled.
UndisturbedSequence(r) == Strategy[r] = "sequential" \/ ~ScopeCancelled(r)

\* Mutant: a failing callback does not cancel the others of its router.
UndisturbedByOthers(r) == r \in Blocking => Gathered!Open

\* What a callback of r ends with counts.  The loop of an unreached router takes it
\* for what it is; the put in the gather of a concurrent router refuses it.
Undisturbed(r) ==
  ~ScopeCancelled(r) \/ (Strategy[r] = "sequential" /\ body[r] = "unreached")

Ends(r, i, state) ==
  \/ /\ Strategy[r] = "sequential"
     /\ Step(r, [call[r] EXCEPT ![i] = state], IF state = "raised" THEN "error" ELSE "cancelled")
  \/ Strategy[r] # "sequential" /\ CallStep(r, i, state)

CallbackReturns(r, i) ==
  /\ MayStep(r, i)
  /\ Undisturbed(r)
  /\ \/ Strategy[r] = "sequential" /\ Proceed(r, [call[r] EXCEPT ![i] = "returned"], i + 1)
     \/ Strategy[r] # "sequential" /\ Ends(r, i, "returned")

CallbackRaises(r, i) ==
  /\ MayStep(r, i)
  /\ Undisturbed(r)
  /\ Ends(r, i, "raised")

\* It ends with the CancelledError that it receives, or that a put or a get of
\* anyio raises in the cancelled scope.
CallbackCancelled(r, i) ==
  /\ MayStep(r, i)
  /\ ScopeCancelled(r)
  /\ Ends(r, i, "cancelled")

\* Mutant: the failures of the callbacks are returned as results.
ResultsOfCalls(r) == IF Some(r, "cancelled") THEN "cancelled" ELSE "value"

\* Mutant: the cancellations that a failure has caused are reported in its place.
CancelledFirst(r) ==
  IF Some(r, "cancelled") THEN "cancelled" ELSE IF Some(r, "raised") THEN "error" ELSE "value"

\* What the aio_gather of a concurrent router ends with.
EndOfCalls(r) ==
  IF Some(r, "raised") THEN "error" ELSE IF Some(r, "cancelled") THEN "cancelled" ELSE "value"

ConcurrentEnds(r) ==
  /\ Strategy[r] = "concurrent" /\ body[r] \in {"running", "unreached"}
  /\ GoesOn(r)
  /\ \A i \in Callback(r) : call[r][i] \notin Live
  /\ Step(r, call[r], EndOfCalls(r))

-----------------------------------------------------------------------------
(* The gather over the routers *)

\* The task that awaits the gather comes after the first steps of the routers.
CallerCancelled ==
  /\ AllStarted
  /\ Gathered!CallerCancel
  /\ UNCHANGED <<unfit, body, call>>

DispatchEnds ==
  /\ Gathered!Return \/ Gathered!Raise \/ Gathered!EndCancelled
  /\ UNCHANGED <<unfit, body, call>>

-----------------------------------------------------------------------------

RouterStep(r) ==
  StartSequential(r) \/ StartConcurrent(r) \/ StartNonBlocking(r) \/ ConcurrentEnds(r)

CallbackStep(r, i) ==
  \/ CallbackBegins(r, i)
  \/ CallbackReturns(r, i) \/ CallbackRaises(r, i) \/ CallbackCancelled(r, i)

\* Tasks of a non-blocking router may go on for ever.
Over == outcome # "none" /\ UNCHANGED vars

Next ==
  \/ \E r \in Router : RouterStep(r) \/ \E i \in Callback(r) : CallbackStep(r, i)
  \/ CallerCancelled \/ DispatchEnds
  \/ Over

Spec == Init /\ [][Next]_vars

CancellationArrives(r, i) == call[r][i] = "running" /\ CallbackCancelled(r, i)

\* The loop runs what is ready, and a callback that a cancellation reaches stops.  A
\* callback does not have to end by itself.
FairSpec ==
  /\ Spec
  /\ WF_vars(DispatchEnds)
  /\ \A r \in Router :
       /\ WF_vars(RouterStep(r))
       /\ \A i \in Callback(r) :
            WF_vars(CallbackBegins(r, i)) /\ WF_vars(CancellationArrives(r, i))

-----------------------------------------------------------------------------
(* Properties *)

\* A dispatch that returns normally has run every callback of the blocking
\* routers to its end and has left none of the non-blocking ones unscheduled.
ReturnedMeansHandled ==
  outcome = "returned" =>
    \A r \in Router : \A i \in Callback(r) :
      call[r][i] = "returned" \/ (r \notin Blocking /\ call[r][i] # "idle")

\* However the dispatch ends, no callback of a blocking router goes on after it.
NothingOutlivesDispatch ==
  outcome # "none" => \A r \in Blocking : \A i \in Callback(r) : call[r][i] \notin Live

\* The callbacks whose failure made router r fail.
Culprits(r) ==
  {i \in Callback(r) : call[r][i] = "raised" /\ (r \in Blocking \/ i = unfit[r])}

\* A failed dispatch is due to exactly one callback of exactly one router, so
\* that its exception is the one the caller sees.
OneCulprit ==
  outcome = "raised" =>
    \E r \in Router : /\ \A s \in Router : settled[s] = "error" <=> s = r
                      /\ \E i \in Callback(r) : Culprits(r) = {i}

\* The callbacks of a sequential router never overlap and follow the order of
\* the routes; once one did not return, no later one is called.
OneAfterAnother ==
  \A r \in Router : \A i \in Callback(r) :
    Strategy[r] = "sequential" /\ call[r][i] # "idle" =>
      \A j \in Callback(r) : j < i => call[r][j] = "returned"

\* A concurrent router with an unfit callback runs none of its callbacks.
AllOrNone ==
  \A r \in Router :
    Strategy[r] = "concurrent" /\ ~AllFit(r) =>
      \A i \in Callback(r) \ {unfit[r]} : call[r][i] = "idle"

\* Each strategy keeps its order: one after another, or all and otherwise none.
StrategiesKept == OneAfterAnother /\ AllOrNone

\* The aio_gather of a concurrent router, if it gets that far: its awaitables are
\* the callbacks and its caller is the coroutine in the outer gather.  A
\* cancellation that comes when all results are there is too late.
Concurrent == {r \in Router : Strategy[r] = "concurrent"}

SettledAs(state) ==
  CASE state = "returned" -> "value" [] state = "raised" -> "error"
    [] state = "cancelled" -> "dropped" [] OTHER -> "pending"

SettledCall(r) ==
  [i \in Callback(r) |-> IF AllFit(r) THEN SettledAs(call[r][i]) ELSE "pending"]

CancelledIn(r) ==
  /\ AllFit(r) /\ ~Gathered!Open
  /\ ~Some(r, "raised") /\ \E i \in Callback(r) : call[r][i] # "returned"

EndAs(state) ==
  CASE state = "value" -> "returned" [] state = "error" -> "raised"
    [] state = "cancelled" -> "cancelled" [] OTHER -> "none"

OutcomeOf(r) == IF AllFit(r) THEN EndAs(body[r]) ELSE "none"

OutputOf(r) ==
  IF OutcomeOf(r) = "returned" THEN [i \in Callback(r) |-> <<"value", i>>] ELSE <<>>

Calls(r) ==
  INSTANCE Gather WITH
    Task <- Callback(r), settled <- SettledCall(r), callerCancelled <- CancelledIn(r),
    outcome <- OutcomeOf(r), output <- OutputOf(r)

\* What a concurrent router does with its callbacks is what Gather promises, also
\* when the gather over the routers is cancelled at any moment of it.
ConcurrentRoutersGather ==
  /\ \A r \in Concurrent : Calls(r)!GatherInit
  /\ [][\A r \in Concurrent : [Calls(r)!GatherNext]_(Calls(r)!gatherVars)]_vars

\* Once a router has failed or the caller was cancelled, no blocking router that had
\* begun before calls a further callback.
NoCallAfterFailure ==
  [][~Gathered!Open =>
       \A r \in Blocking : body[r] \notin {"unstarted", "unreached"} =>
         \A i \in Callback(r) : call[r][i] = "idle" => call'[r][i] = "idle"]_vars

\* The routers with something that had not begun when a scope was cancelled, or has
\* not yet: only its own end will stop it.
Stragglers ==
  {r \in Blocking : \/ body[r] \in {"unstarted", "unreached"}
                    \/ Some(r, "called") \/ Some(r, "unreached")}

\* The failure of a blocking callback ends the whole dispatch, which does not return
\* normally, even if other callbacks would never have ended, unless these had not
\* begun when a callback failed.
FailureEndsDispatch ==
  (\E r \in Blocking : Some(r, "raised")) /\ Stragglers = {} ~>
    outcome \in {"raised", "cancelled"}
=============================================================================
