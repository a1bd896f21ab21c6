--------------------------- MODULE WebhookServer ----------------------------
(***************************************************************************)
(* The long-running GitHub App: run_forever of app/server/machinery.py,    *)
(* the HTTP entry point of app/routing/webhooks_dispatcher.py and the      *)
(* event task it starts for every accepted delivery, route_github_event of *)
(* routing/webhooks_dispatcher.py.                                         *)
(*                                                                         *)
(* Everything runs on one event loop: an action is what a task does        *)
(* between two suspension points.  An HTTP connection is kept alive and    *)
(* serves its requests one after another in one task, so its context       *)
(* outlives a request.  Handlers of one event run together in aio_gather:  *)
(* AioGather shows what is assumed of it here.                             *)
(***************************************************************************)
EXTENDS Naturals, FiniteSets

CONSTANTS
  Conn,           \* keep-alive HTTP connections
  Event,          \* webhook deliveries
  Installation,   \* installations of the app
  InstallOf,      \* the installation in the payload of an event, or NoInstall
  Routes,         \* the handlers that match an event
  NoInstall,      \* a payload without the key "installation", and None
  Unset           \* a context variable that was never set

ASSUME InstallOfAssumption == InstallOf \in [Event -> Installation \cup {NoInstall}]
ASSUME RoutesAssumption == \A e \in Event : IsFiniteSet(Routes[e])
ASSUME NoInstallAssumption == NoInstall \notin Installation
\* An event is processed in a task of its own, never in that of a connection.
ASSUME TaskAssumption == Conn \cap Event = {}
ASSUME UnsetAssumption == Unset \notin Event \cup Installation \cup {NoInstall}

VARIABLES
  secret,     \* a webhook secret is configured
  server,     \* where run_forever and the loop that runs it are
  conn,       \* the request each connection is serving
  task,       \* where the event task of each delivery is
  origin,     \* the request that started the event task, and its connection
  ctx,        \* RUNTIME_CONTEXT as seen from each connection and event task
  handler,    \* the state of each matching handler
  view,       \* RUNTIME_CONTEXT as copied into the handlers of an event
  cancelled,  \* the event tasks that were told to stop
  captured    \* the events whose failure went to Sentry and to the log

vars == <<secret, server, conn, task, origin, ctx, handler, view, cancelled, captured>>

Request == [method : {"POST", "GET"},
            signature : {"none", "good", "bad"},
            wellFormed : BOOLEAN]

Context == [github_event : Event \cup {Unset},
            app_installation : Installation \cup {NoInstall, Unset},
            app_installation_client : Installation \cup {Unset}]

EmptyContext == [github_event |-> Unset, app_installation |-> Unset,
                 app_installation_client |-> Unset]

Idle == [pc |-> "idle"]
Serving(pc, e, r) == [pc |-> pc, event |-> e, request |-> r]
ConnState == {Idle} \cup {Serving(pc, e, r) :
                            pc \in {"reading", "responding"}, e \in Event, r \in Request}

TaskEnded == {"done", "failed", "cancelled"}
TaskState == {"none", "created", "lookup", "sleep", "dispatch"} \cup TaskEnded
HandlerState == {"idle", "running", "returned", "raised", "cancelled"}
ServerState == {"preparing", "serving", "stopping", "stopped", "closed", "aborted"}

TypeOK ==
  /\ secret \in BOOLEAN
  /\ server \in ServerState
  /\ conn \in [Conn -> ConnState]
  /\ task \in [Event -> TaskState]
  /\ origin \in [Event -> {Unset} \cup (Conn \X Request)]
  /\ ctx \in [Conn \cup Event -> Context]
  /\ \A e \in Event : handler[e] \in [Routes[e] -> HandlerState]
  /\ view \in [Event -> Context]
  /\ cancelled \subseteq Event
  /\ captured \subseteq Event

Init ==
  /\ secret \in BOOLEAN
  /\ server = "preparing"
  /\ conn = [c \in Conn |-> Idle]
  /\ task = [e \in Event |-> "none"]
  /\ origin = [e \in Event |-> Unset]
  /\ ctx = [x \in Conn \cup Event |-> EmptyContext]
  /\ handler = [e \in Event |-> [h \in Routes[e] |-> "idle"]]
  /\ view = [e \in Event |-> EmptyContext]
  /\ cancelled = {}
  /\ captured = {}

eventVars == <<task, origin, ctx, handler, view, captured>>

Active(e) == task[e] \notin {"none"} \cup TaskEnded

-----------------------------------------------------------------------------
(* run_forever *)

\* log_installs_list got its list, or could not connect: both let it go on.
StartServing ==
  /\ server = "preparing"
  /\ server' = "serving"
  /\ UNCHANGED <<secret, conn, eventVars, cancelled>>

\* log_installs_list met any other error, or the process was interrupted: the
\* application does not start.
PrepareFails ==
  /\ server = "preparing"
  /\ server' = "aborted"
  /\ UNCHANGED <<secret, conn, eventVars, cancelled>>

TasksOfLoop == {e \in Event : Active(e)}

\* GracefulExit or KeyboardInterrupt leaves the loop; asyncio.run then cancels
\* every task there is: run_forever, the connections and the event tasks.
Shutdown ==
  /\ server = "serving"
  /\ server' = "stopping"
  /\ conn' = [c \in Conn |-> Idle]
  /\ cancelled' = TasksOfLoop
  /\ UNCHANGED <<secret, eventVars>>

\* _stop_site_on_cancel closes the site, then the client session is closed and
\* run_forever returns.
StopSite ==
  /\ server = "stopping"
  /\ server' = "stopped"
  /\ UNCHANGED <<secret, conn, eventVars, cancelled>>

\* asyncio.run closes the loop when the tasks it cancelled have ended.
CloseLoop ==
  /\ server = "stopped"
  /\ \A e \in cancelled : ~Active(e)
  /\ server' = "closed"
  /\ UNCHANGED <<secret, conn, eventVars, cancelled>>

-----------------------------------------------------------------------------
(* The HTTP entry point *)

\* Mutant: a signed payload is accepted although no secret is configured.
HeadersAcceptedLeniently(r) == r.method = "POST" /\ (secret => r.signature # "none")

\* validate_allowed_http_methods, then the checks before the body is read.
HeadersAccepted(r) ==
  /\ r.method = "POST"
  /\ secret <=> r.signature # "none"

\* The rest of get_trusted_http_payload, and the parsing of the body.
BodyAccepted(r) == r.signature # "bad" /\ r.wellFormed

\* A delivery is presented on one connection at a time and accepted once.
Presentable(e) ==
  /\ task[e] = "none"
  /\ \A c \in Conn : conn[c] # Idle => conn[c].event # e

\* Mutant: the site is left open when run_forever is cancelled.
StillListening == server \in {"serving", "stopping", "stopped"}

\* The site is open.
AcceptsRequests == server = "serving"

Receive(c, e, r) ==
  /\ AcceptsRequests
  /\ conn[c] = Idle
  /\ Presentable(e)
  /\ conn' = [conn EXCEPT ![c] =
                Serving(IF HeadersAccepted(r) THEN "reading" ELSE "responding", e, r)]
  /\ UNCHANGED <<secret, server, eventVars, cancelled>>

\* The body is in.  An accepted event gets a task of its own, whose context is
\* a copy of the context of the connection; otherwise the answer is an error.
ReadBody(c) ==
  /\ conn[c].pc = "reading"
  /\ conn' = [conn EXCEPT ![c].pc = "responding"]
  /\ LET e == conn[c].event
         r == conn[c].request
     IN IF BodyAccepted(r)
        THEN /\ task' = [task EXCEPT ![e] = "created"]
             /\ origin' = [origin EXCEPT ![e] = <<c, r>>]
             /\ ctx' = [ctx EXCEPT ![e] = ctx[c]]
        ELSE UNCHANGED <<task, origin, ctx>>
  /\ UNCHANGED <<secret, server, handler, view, cancelled, captured>>

\* Mutant: the answer is sent when the event has been processed.
ProcessedFirst(c) == ~Active(conn[c].event)

ReadyToAnswer(c) == TRUE

Answer(c) ==
  /\ conn[c].pc = "responding"
  /\ ReadyToAnswer(c)
  /\ conn' = [conn EXCEPT ![c] = Idle]
  /\ UNCHANGED <<secret, server, eventVars, cancelled>>

-----------------------------------------------------------------------------
(* route_github_event *)

\* Mutant: the event is routed in the task of the connection.
SetInConnection(e, new) == ctx' = [ctx EXCEPT ![e] = new, ![origin[e][1]] = new]

\* Assignments to RUNTIME_CONTEXT stay in the task that makes them.
SetContext(e, new) == ctx' = [ctx EXCEPT ![e] = new]

\* A cancelled task makes no step of its own.
Runs(e, pc) == task[e] = pc /\ e \notin cancelled

\* app_installation is reset, app_installation_client is not.
ContextOfEvent(e) ==
  [ctx[e] EXCEPT !.github_event = e, !.app_installation = NoInstall]

\* An event without an installation raises LookupError, which is suppressed.
StartRouting(e) ==
  /\ Runs(e, "created")
  /\ SetContext(e, ContextOfEvent(e))
  /\ task' = [task EXCEPT ![e] = IF InstallOf[e] = NoInstall THEN "sleep" ELSE "lookup"]
  /\ UNCHANGED <<secret, server, conn, origin, handler, view, cancelled, captured>>

LookupSucceeds(e) ==
  /\ Runs(e, "lookup")
  /\ SetContext(e, [ctx[e] EXCEPT !.app_installation = InstallOf[e],
                                  !.app_installation_client = InstallOf[e]])
  /\ task' = [task EXCEPT ![e] = "sleep"]
  /\ UNCHANGED <<secret, server, conn, origin, handler, view, cancelled, captured>>

\* The API answered with an error, the network failed or the request timed out:
\* none of these is a LookupError, and the try statement comes later.
LookupFails(e) ==
  /\ Runs(e, "lookup")
  /\ task' = [task EXCEPT ![e] = "failed"]
  /\ UNCHANGED <<secret, server, conn, origin, ctx, handler, view, cancelled, captured>>

\* async_sleep(1) is over: dispatch_event spawns the handlers.
SleepOver(e) ==
  /\ Runs(e, "sleep")
  /\ task' = [task EXCEPT ![e] = "dispatch"]
  /\ handler' = [handler EXCEPT ![e] = [h \in Routes[e] |-> "running"]]
  /\ view' = [view EXCEPT ![e] = ctx[e]]
  /\ UNCHANGED <<secret, server, conn, origin, ctx, cancelled, captured>>

\* Mutant: the sleep is shielded from cancellation.
SleepShielded == {"created", "lookup"}

Interruptible == {"created", "lookup", "sleep"}

\* The tasks cancelled at shutdown end where they are, without a handler.
TaskCancelled(e) ==
  /\ e \in cancelled
  /\ task[e] \in Interruptible
  /\ task' = [task EXCEPT ![e] = "cancelled"]
  /\ UNCHANGED <<secret, server, conn, origin, ctx, handler, view, cancelled, captured>>

SomeHandler(e, state) == \E h \in Routes[e] : handler[e][h] = state

\* The cancel scope of the gather that runs the handlers of e.
ScopeCancelled(e) == SomeHandler(e, "raised") \/ SomeHandler(e, "cancelled")

HandlerStep(e, h, state) ==
  /\ handler[e][h] = "running"
  /\ handler' = [handler EXCEPT ![e][h] = state]
  /\ UNCHANGED <<secret, server, conn, task, origin, ctx, view, cancelled, captured>>

HandlerReturns(e, h) == ~ScopeCancelled(e) /\ HandlerStep(e, h, "returned")

HandlerRaises(e, h) == ~ScopeCancelled(e) /\ HandlerStep(e, h, "raised")

\* Mutant: handlers run in tasks that a shutdown does not cancel.
OnlyFailureCancels(e) == ScopeCancelled(e)

CancelReaches(e) == ScopeCancelled(e) \/ e \in cancelled

HandlerCancelled(e, h) ==
  /\ CancelReaches(e)
  /\ HandlerStep(e, h, "cancelled")

\* Mutant: a failure ends the dispatch at once, as asyncio.gather does.
OverAtFailure(e) ==
  task[e] = "dispatch" /\ (SomeHandler(e, "raised") \/ ~SomeHandler(e, "running"))

HandlersOver(e) == task[e] = "dispatch" /\ ~SomeHandler(e, "running")

DispatchEnds(e, state) ==
  /\ HandlersOver(e)
  /\ task' = [task EXCEPT ![e] = state]
  /\ UNCHANGED <<secret, server, conn, origin, ctx, handler, view, cancelled>>

\* Every handler returned before the task was told to stop.
Succeeds(e) ==
  /\ ~ScopeCancelled(e) /\ e \notin cancelled
  /\ DispatchEnds(e, "done")
  /\ UNCHANGED captured

\* An ordinary exception is captured, logged and dropped.
CaptureFailure(e) ==
  /\ SomeHandler(e, "raised")
  /\ DispatchEnds(e, "done")
  /\ captured' = captured \cup {e}

\* A GitHubActionError is raised again, to a task nobody awaits.
BypassActionError(e) ==
  /\ SomeHandler(e, "raised")
  /\ DispatchEnds(e, "failed")
  /\ UNCHANGED captured

\* Mutant: the clause that raises a CancelledError again comes after the clause
\* for Exception, its base class in Python 3.7.
CapturedOnCancel(e) == captured \cup {e}

CapturedBefore(e) == captured

\* The cancellation is raised again, unless a handler task was the first to
\* receive it: then aio_gather takes it for its own and returns what it has.
InterruptedByShutdown(e) ==
  /\ e \in cancelled /\ ~SomeHandler(e, "raised")
  /\ \/ DispatchEnds(e, "cancelled")
     \/ SomeHandler(e, "cancelled") /\ DispatchEnds(e, "done")
  /\ captured' = CapturedBefore(e)

-----------------------------------------------------------------------------
(* The system *)

ServerStep == StartServing \/ PrepareFails \/ Shutdown \/ StopSite \/ CloseLoop

ConnStep(c) ==
  \/ \E e \in Event, r \in Request : Receive(c, e, r)
  \/ ReadBody(c)
  \/ Answer(c)

TaskStep(e) ==
  \/ StartRouting(e) \/ LookupSucceeds(e) \/ LookupFails(e) \/ SleepOver(e)
  \/ TaskCancelled(e)
  \/ Succeeds(e) \/ CaptureFailure(e) \/ BypassActionError(e)
  \/ InterruptedByShutdown(e)

HandlerSteps(e) == \E h \in Routes[e] :
  HandlerReturns(e, h) \/ HandlerRaises(e, h) \/ HandlerCancelled(e, h)

Stopped == server \in {"closed", "aborted"} /\ UNCHANGED vars

Next ==
  \/ ServerStep
  \/ \E c \in Conn : ConnStep(c)
  \/ \E e \in Event : TaskStep(e) \/ HandlerSteps(e)
  \/ Stopped

Spec == Init /\ [][Next]_vars

ShutdownReaches(e, h) == e \in cancelled /\ HandlerCancelled(e, h)

\* The loop runs what is ready; a request to the API ends, for its HTTP client
\* has a timeout; a handler stops that the shutdown cancels, for that reaches every
\* task.  A handler does not have to end by itself, nor when another one has failed
\* before it began, no client has to send anything and nobody has to stop the server.
FairSpec ==
  /\ Spec
  /\ WF_vars(StopSite) /\ WF_vars(CloseLoop)
  /\ \A c \in Conn : WF_vars(Answer(c))
  /\ \A e \in Event :
       /\ WF_vars(TaskStep(e))
       /\ \A h \in Routes[e] : WF_vars(ShutdownReaches(e, h))

-----------------------------------------------------------------------------
(* Properties *)

\* An event task exists only for a well-formed POST whose signature matches the
\* configuration: verified when there is a secret, absent when there is none.
OnlyTrustedDeliveries ==
  \A e \in Event : task[e] # "none" =>
    LET r == origin[e][2] IN
      /\ r.method = "POST" /\ r.wellFormed
      /\ r.signature = IF secret THEN "good" ELSE "none"

\* The handlers of an event see this event, its installation and the client of
\* its installation, whatever was processed before on the same connection and
\* whatever is processed at the same time; without an installation they see no
\* client, although route_github_event never resets that variable.
HandlersSeeTheirEvent ==
  \A e \in Event : SomeHandler(e, "running") =>
    view[e] = [github_event |-> e,
               app_installation |-> InstallOf[e],
               app_installation_client |->
                 IF InstallOf[e] = NoInstall THEN Unset ELSE InstallOf[e]]

\* Sentry hears of an event exactly when one handler of it failed and its task took
\* the failure and ended normally: not of a cancellation, nor of a failure that was
\* only a consequence of another.  A GitHubActionError is the one failure that it
\* does not hear of, and that ends the task.
FailuresCaptured ==
  \A e \in Event :
    e \in captured <=>
      /\ task[e] = "done"
      /\ Cardinality({h \in Routes[e] : handler[e][h] = "raised"}) = 1

SettledAs(state) ==
  CASE state = "returned" -> "value" [] state = "raised" -> "error"
    [] state = "cancelled" -> "dropped" [] OTHER -> "pending"

OutcomeOf(e) ==
  CASE task[e] \in {"done", "failed"} /\ SomeHandler(e, "raised") -> "raised"
    [] task[e] = "done" /\ ~SomeHandler(e, "raised") -> "returned"
    [] OTHER -> "none"

Handlers(e) ==
  INSTANCE Gather WITH
    Task <- Routes[e],
    settled <- [h \in Routes[e] |-> SettledAs(handler[e][h])],
    callerCancelled <- FALSE,
    outcome <- OutcomeOf(e),
    output <- IF OutcomeOf(e) = "returned" THEN [h \in Routes[e] |-> <<"value", h>>] ELSE <<>>

\* What an event task does with the handlers of its event is what Gather promises,
\* however many events are processed at a time: the task ends once, after all of
\* them, and for the one handler that failed. A shutdown is the exception: it cancels
\* the handlers one by one, and their gather takes that for its own doing.
HandlersAreGathered ==
  /\ \A e \in Event : Handlers(e)!GatherInit
  /\ [][\A e \in Event :
          e \notin cancelled' => [Handlers(e)!GatherNext]_(Handlers(e)!gatherVars)]_vars

\* When the loop is closed no event task and no handler is left half way.
NothingLeftRunning ==
  server = "closed" =>
    \A e \in Event : ~Active(e) /\ ~SomeHandler(e, "running")

\* A delivery is answered however long its event takes to process.
AnswerIsPrompt == \A c \in Conn : conn[c].pc = "responding" ~> conn[c].pc = "idle"

\* An accepted event comes to its handlers or to an end of its task: nothing in
\* the way to the handlers can hold it for ever.
EventMovesOn ==
  \A e \in Event : task[e] = "created" ~> task[e] \in {"dispatch"} \cup TaskEnded

\* A shutdown comes to its end while events are being processed.
ShutdownCompletes == server = "stopping" ~> server = "closed"
=============================================================================
