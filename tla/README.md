# octomachinery: models, checks and proofs

This directory holds TLA+ modules that model the control flow of
[octomachinery](../src), a framework for GitHub Apps and GitHub Actions on
top of `asyncio`, `anyio` 1.x and `aiohttp`, together with the TLC
configurations that check them and proofs checked by the TLA+ proof system.
All source paths below are relative to `src/octomachinery/`.

## The system

| Component | State | Operations | Talks to |
|---|---|---|---|
| Concurrent gather, `utils/asynctools.py` | task group, queue, results | `aio_gather` and its generator | routers, event dispatch |
| Routers, `routing/routers.py`, `default_router.py`, `decorators.py` | route tables filled at import; a set of handler tasks | `emit_routes_for`, three `dispatch` strategies, `process_event_actions` | gather, user handlers |
| Event dispatch, `routing/webhooks_dispatcher.py` | the runtime context of its task | `route_github_event` | app client, routers, Sentry |
| HTTP entry point, `app/routing/webhooks_dispatcher.py` | none of its own | method, signature and payload checks; starting an event task | aiohttp, event dispatch |
| Server lifecycle, `app/server/` | runner, site, HTTP session | prepare, serve, stop | HTTP entry point, app client |
| Runtime context, `runtime/` | context variables and their reset tokens | get, set, delete | every task |
| App client, `github/api/app_client.py` | config, HTTP session, routers | list and look up installations, JWT | GitHub API |
| Installation, `github/entities/app_installation.py` | cached access token | refresh on use | app client |
| Raw client, `github/api/raw_client.py`, `tokens.py`, `utils.py` | token or token factory | authenticated requests, preview headers | GitHub API |
| Action runner, `app/action/`, `github/entities/action.py`, `github/errors`, `github/models/action_outcomes.py` | outcome | run one event, map it to an exit code | event dispatch |
| Check run requests, `github/models/checks_api_requests.py` | attributes and their lists, one of them the default of all | construct, validate, turn into a query | handlers |
| Other models, `github/models/` | immutable values | parsing of events, tokens, keys | everything |
| Event probing, `github/utils/event_utils.py` | none | recognising JSON, YAML and HTTP fixtures; validating and making up headers | command line |
| Configuration, `app/config.py`, `github/config/`, `app/runtime/` | cached config | read from environment and dotenv files | runners |
| Command line, `cli/__main__.py` | the environment of the process | `receive` a fixture through an app or an action | config, events, dispatch |

How they work together. A server lists its installations, opens a site and
then answers webhook deliveries. An accepted delivery is acknowledged at once
and processed in an event task of its own: the task fills the runtime context,
looks up the installation, sleeps a second and hands the event to the routers.
A router runs the matching handlers in `aio_gather`, and the dispatch over
several routers is again one `aio_gather`. A handler uses the API client it
finds in the runtime context, which refreshes the installation token when
needed. An action is the same dispatch for one event in the foreground, whose
outcome becomes the exit code of the process.

What is hard: everything shares one event loop and is suspended at every
`await`; tasks are cancelled from three sides (a failing sibling, the caller,
a shutdown); the context is a global object that means something else in each
task; installation lookups and token refreshes take a round trip during which
what was checked may stop being true.

What makes each part correct:

- gather: all results in order, or one failure, never a part of the results;
  nothing is left running; it ends when it can;
- event dispatch: handlers see the context of their own event; failures are
  reported once and do not reach other events; every accepted event comes to
  its handlers;
- HTTP entry point: only trusted deliveries start a task; answers are prompt;
- lifecycle: a shutdown ends, and leaves nothing running;
- tokens: a request carries a token that is still valid; a failed refresh
  does not break later requests;
- runtime context: a task sees its own values or those it inherited;
- action runner: the exit code tells success, neutral and failure apart;
- app client: the list of installations is complete in spite of changes while
  it is read; a token is refused for nothing the server could have avoided;
- command line: a proper fixture is read, the run has the credentials of the
  command line, and a success means that the handlers have seen the event;
- check run requests: what is accepted makes sense to the API, is sent as it
  was given, and belongs to one request only, or to an output made before.

## Modules

| Module | What it is |
|---|---|
| `Gather` | abstract: what awaiting `aio_gather` promises, for any set of awaitables |
| `AioGather` | `aio_gather` as written, over anyio's task group and queue; refines `Gather` |
| `EventDispatch`, `MCEventDispatch` | an event at the routers of the app and their three strategies, over the abstract `Gather` |
| `RouteTable`, `MCRouteTable` | registration of routes and the generator that matches them with a payload |
| `ActionRun`, `MCActionRun` | the action runner: `EventDispatch` in the foreground, and the exit status |
| `WebhookServer`, `MCWebhookServer` | the server: lifecycle, HTTP entry point, event tasks, context, handlers |
| `RuntimeContext`, `MCRuntimeContext` | `_ContextMap`: attributes of tasks, with one shared map of reset tokens |
| `InstallationToken`, `MCInstallationToken` | the cached access token and its concurrent refreshes |
| `InstallationListing`, `MCInstallationListing` | the requests an app makes in its own name: the paged listing of installations, the lookups, and the JWT of each |
| `EventFixture` | reading an event from a fixture file |
| `CommandLine`, `MCCommandLine` | the command `receive`: `EventFixture`, then environment, routers, configuration, dispatch, exit status |
| `CheckRequests`, `MCCheckRequests` | requests for check runs: construction, shared lists, the query |
| `AioGatherProofs`, `EventDispatchProofs` (with `ActionRun`), `RouteTableProofs`, `WebhookServerProofs`, `RuntimeContextProofs`, `CredentialProofs` (of `InstallationToken`, and of `CommandLine` with `EventFixture`), `InstallationListingProofs`, `CheckRequestsProofs` | the theorems |

How they compose: `AioGather` implements `Gather`. `EventDispatch` instantiates
it for the gather over the routers and implements it with each concurrent
router; `WebhookServer` implements it with the handlers of each event, up to a
shutdown. `ActionRun` extends `EventDispatch`, `CommandLine` extends
`EventFixture`. `RuntimeContext`, `InstallationToken` and `InstallationListing` stand for
themselves and state what `WebhookServer` takes for granted of contexts, API
clients, the preparation of the server and the lookups. `CommandLine` uses the
dispatch by what `ActionRun` shows of it: it returns, fails, or ends in an
outcome. `CheckRequests` is used by handlers only.

### AioGather

One action is what one task does between two suspension points. The children
(`_send_task_res_to_q`) are `ChildBegins`, the first step of one that has to wait,
and `ChildReturns`, `ChildRaises`, `ChildSelfCancels` and `ChildCancelled`, which
end it in its first step or later: the end of the awaitable, the put, the raise and
the cancellation of the scope are one step. The first steps come in the order of
spawning and before anything else (`MayRun`). The host (`_aio_gather_iter_pairs` under `aio_gather`) is
`Spawn`, `HostGets`, `HostInterrupted` and `GroupExit`; `CancelHost` is anybody
calling `cancel()` on the task that awaits the gather. `Output` is the sorting
of `aio_gather`.

What the model takes from anyio 1.x, the version `setup.cfg` pins: `spawn` does
not suspend; `get` and `put` begin with a cancellation point; an exception that
leaves a child is recorded and the scope is cancelled in the same step, and so
a host blocked in `get` is interrupted before it can take another item; the
cancellation of a scope is delivered once, to the tasks that have begun, and a task
that begins in a cancelled scope is not disturbed until it reaches a cancellation
point of anyio, such as its own put (`unreached`); a
`CancelledError` that leaves a child cancels the scope but is dropped at the
end; a native cancellation of the host is raised again only when nobody
cancelled the scope before; leaving the group waits for all children. The library
is not part of the repository: how it delivers cancellations is an assumption of
this model, and of `EventDispatch`.

`SelfCancelling` is the set of awaitables that may raise `CancelledError` by
themselves: a handler that awaits a task somebody else cancelled does.

### EventDispatch

`body` is the dispatch coroutine of each router, `call` what became of each of
its matching callbacks, and `settled` to `outcome` are the variables of the
gather over the routers (`dispatch_via`). `StartSequential` and `Proceed` are
`GidgetHubRouterBase.dispatch`, `StartConcurrent` and `ConcurrentEnds` are
`ConcurrentRouter.dispatch`, `StartNonBlocking` is
`NonBlockingConcurrentRouter.dispatch`; `CallbackBegins` is the first step of a
callback that has a task of its own, `CallbackReturns`, `CallbackRaises` and
`CallbackCancelled` are the ways a callback may end, together with what a
sequential router does next in the same turn.

The coroutine that ends, its put, the raise and the cancellation of the scope are
one step (`Step`, with `Settles` for the gather). The routers begin in the order in
which they were spawned, and one may fail in its first step, before those after it
have begun: these then begin in a cancelled scope, are not reached by the
cancellation, call their first callback all the same, and end when that ends.
`unreached` is the state of such a router or callback.

A callback may also raise when it is *called*, before there is a coroutine to
await: `process_webhook_payload` passes the payload as keywords. `unfit` is the
first such callback of each router; later ones would never be called.

Assumptions: `dispatch_via` has at least one router (it raises `ValueError`
otherwise, before anything happens); no callback raises `CancelledError` by itself,
the case that `AioGather` is about.

### RouteTable

One event name is modelled: names are looked up in separate tables. `Register`
is `Router.add` of gidgethub, which the decorators of `default_router.py` call,
at import time or from a callback. `EmitShallow`, `ShallowOver`, `ToNextKey`,
`EmitDeep`, `DeepOver`, `Finish` and `IterationFails` are the steps of the
generator `emit_routes_for`, which a sequential router advances between two
callbacks and the others exhaust at once; `place` is where it is suspended.
Python's rules for lists and dictionaries that change while they are iterated
are part of the model: a list grows under its iterator, a dictionary fails.

### ActionRun

`EventRead`, `DispatchSteps` and `CallbackFails` are the foreground dispatch,
with the reason each callback gives; `Processed`, `Failed`, `EventUnreadable`
and `Interrupted` are the ways the process ends. `Exit` stands for
`SystemExit` and the end of `asyncio.run`: tasks that are left are cancelled,
and the status is the lowest byte of the return code. What a cancelled task
does in its cleanup is left out.

### WebhookServer

`server` follows `run_forever` and the `asyncio.run` around it, `conn` the
keep-alive connections of aiohttp, `task` the event tasks, `handler` the
children of the gather that runs the handlers of an event. `ctx` is the
content of `RUNTIME_CONTEXT` in each connection and event task: a task starts
with a copy of its creator's context (`ReadBody`), assignments stay in the task
(`SetContext`), and handlers get a copy when they are spawned (`view`).

The first failure of a handler cancels the scope of the others, one that ends in a
cancelled scope counts as cancelled, and the dispatch ends when all handlers have.
Which of them had begun by then (see `AioGather`) only matters for whether they end,
so no fairness is assumed of a handler whose scope a failure has cancelled; a
shutdown reaches them all. That
this is `Gather` is a property, `HandlersAreGathered`, where `Handlers(e)` is the
instance for the event `e`. It ends with the shutdown: every task is cancelled
at once then, and a handler task may be told before the event task is, so that
the gather takes the cancellation for its own and returns
(`InterruptedByShutdown`, second case), which `Gather` does not allow. From the
shutdown on the site accepts no requests.

Left out of this module: the three dispatch strategies of the routers (one
concurrent router is assumed, which is the default; `EventDispatch` has them
all), the content of payloads, deliveries that GitHub sends again, and a client
that disconnects in the middle of a request.

### RuntimeContext

`context` is what `contextvars` keep for each task, `token_map` the attribute
of that name, one for the whole process. `SetAttr`, `DelAttr` and `CreateTask`
are the operations; reading changes nothing, and an attribute that is not
declared is refused by all of them. The rules of `ContextVar.reset` (a token is
good once, and only in the context it was made in) are external. `heritage`
and `before` are history variables for the properties.

### InstallationToken

A request (`_make_request`) uses the cached token (`RequestWithToken`) or
awaits a new one (`BeginRefresh`, `EndRefresh`, `RefreshFails`); GitHub issues
it at a moment of its own (`Issue`), and time passes (`Tick`). There is no lock,
so `EndRefresh` may store an older token over a newer one. Two things are
assumed: the HTTP client gives up (aiohttp: five minutes) before a new token
can have expired (one hour), and the server's clock agrees with GitHub's, since
there is one `now`: `expired` compares the expiry that GitHub names with the clock
of the server, and one that is behind would send tokens that have expired.

### InstallationListing

`listing` follows `log_installs_list`, `request` is the one request that waits for
an answer: a page of the listing, asked for with the JWT of the first
(`PageArrives`), or a lookup for an event, with a JWT of its own (`LookUp`).
`Serve` is GitHub, which looks at the token and at what is installed when it
answers; meanwhile users install and uninstall the app (`Install` puts the new
installation anywhere in GitHub's order, `Uninstall` moves the rest to the left)
and time passes (`Tick`). The clock of the server is `skew` ahead of GitHub's.
`Converted` and `Refused` are `amap` over the model class, which ignores keys it
does not know and raises for those it misses or a `target_type` it does not
expect. Lookups of several events do not interact, so one at a time is modelled.

### EventFixture

A file is described by what the parsers make of it: the documents YAML finds or
the exception it raises, what JSON makes of each line and of the whole. `Content`
is all such descriptions, `Consistent` what the grammars have to do with one
another: a file that is one JSON object cannot be two YAML documents. The
constant `File` is any set of consistent contents (`FileAssumption`); the
instance for TLC has one of every kind the probes tell apart. A list is one of
headers or one that holds something else (`badList`), a text may be JSON of an object
(`objectText`), and a header that is there is right, wrong, or no text at all
(`other`, such as a number that YAML has read). `ParseFixture` is the chain
`_probe_yaml`, `_probe_jsonl`, `_probe_json` over one open file, and the
conversion of the headers (`TransformErrors`); `NameEvent`, `Augment` and `Validate`
are the headers, the latter in the order of `validate_http_headers`, and `Build` the
payload's converter and validator.

### CommandLine

One step per stage of `receive`: `CheckOptions`, `ReadEvent` (all of
`EventFixture`), `UpdateEnvironment`, `LoadRouters`, `MakeConfig`, `MakeApp` and
the dispatch. `env` is `os.environ` with `.env`, by whose value each variable has:
one left over from before, the one of an option, or none. The constant `LeftOver`
is what may be there before the command, any set of environments. The configuration is
made of it (`ConfigError`, `ConfigMade`) and cached; `cached` may be set early by
a module that `LoadRouters` imports, for the code of the user is free to ask for
the configuration. `Exit` stands for `ctx.fail`, for exceptions that leave the
command, and for its normal end.

### CheckRequests

`lists` are the list objects, by identity: each request's own, the one default
of all attributes, those that belong to a handler, and the annotations of a
`CheckOutput` that a handler has built itself. `Construct` is the constructor of
`NewCheckRequest` or `UpdateCheckRequest`: all converters, then all validators.
`ListOf` is where its lists come from: `optional_list_converter` makes a new one
(`Converted`), `optional_converter` takes a built output as it is. `Add` and `Reuse`
are handlers that add to a list of a request, or to one of their own, later on; no
validator looks at what they add. `ToGhQuery` is
`to_gh_query` on what `attr.asdict` makes of a request. `expected` and `checked` are
history variables: what was put into each list, and how many actions the validator
has seen. Left out: conversions of single values, images (they are treated as
annotations are), sequences other than lists (which the types do not allow, and
which are neither converted nor copied), assignment to attributes (which no
validator sees), and changes to the items of a list, which are shared as well when
they were built before.

## Runs

| Run | Instance | Shows |
|---|---|---|
| `gather` | 4 awaitables | results in order; the host never waits for a pair that nobody will put; refinement of `Gather` |
| `gather_self_cancel` | 4 awaitables, one may cancel itself | a failure is raised and the call ends, once those are done that a cancellation does not reach |
| `gather_partial` | 2 awaitables, one may cancel itself | **violated**: `aio_gather` returns a partial result |
| `webhook_server` | 2 connections, 2 events (with and without an installation), 2 and 1 handlers | who is served, what handlers see, that exactly the failures are reported, what a shutdown leaves; the handlers of an event are a gather in the sense of `Gather`; answers are prompt, events move on, shutdowns end |
| `event_dispatch` | a sequential, a concurrent and another sequential router with 2 callbacks each, a non-blocking one with 1 | each router keeps the order of its strategy; a concurrent router's gather is one in the sense of `Gather`; what a dispatch that returned, failed or was cancelled has done and left; a failure ends it |
| `action_run` | 3 routers, 5 callbacks, failures asked for with the codes 0, 2, 78, 256 and 334 | what the exit status says of what was done |
| `installation_token` | 3 clients, lifetime 3, timeout 2, clock up to 9 | no expired token is sent; refreshes are rare |
| `runtime_context` | a server and 2 tasks, 1 attribute, 2 values | isolation of tasks; deletion undoes the right assignment |
| `route_table` | 2 keys, 2 values, up to 4 routes | which routes are emitted, how often, in which order; why it fails |
| `installation_listing` | 5 installations, one of them refused by the model class; pages of 2, lifetime 3, answers within 1, clock up to 6, skews -1, 0 and 1 | what a listing may miss; when a token is refused |
| `command_line` | all options, 31 kinds of file with all header mixtures, environments of an app (with a good or a broken key), of an action and empty, each with three fingerprints | what is read and what is refused; whose credentials are used; what a success means |
| `check_requests` | 2 requests, a built output, lists that are empty or not, or have 4 actions, and grow to 2 items, by such as a validator refuses | consistent requests, separate lists, complete queries |

Bounds. Four awaitables are enough for two failures, a success that was taken
and one that was not to coexist. Two events suffice for any interference of
contexts, which is pairwise; two connections for events that share a connection
and events that do not; two handlers for one that fails and one that is
cancelled for it. A delivery is accepted once, which bounds `WebhookServer`;
rejected deliveries may be presented again. Two callbacks per router are one
that fails and one that is before or after it or runs beside it; the second
sequential router is one that begins after the failure of another. Three clients
are two overlapping refreshes and a request that sees what they left; the clock
(`MaxTime`) covers three lifetimes, a refresh, its late answer and the next
expiry. Attributes of the runtime context do not interact, so one is enough;
three tasks are a creator, its child and a stranger. Four routes (`MaxRoutes`)
on two keys are two in one list, one in another and one that a callback adds.
Five installations are three pages, so that one can move from a page not yet
read to one that has been read and another one the other way; the lifetime of
three answers lets the first page's token expire for the third page when all
answers are slow and the clocks agree, for the second one when the server's clock is
behind, and never for the first or for a lookup. Two requests are enough for sharing
lists, which is pairwise; four actions are one too many, and a list that grows by
two items is longer than what its validator has seen. The steps of `CommandLine` are
finite; its files have up to three documents and three lines, since the probes
look at no more, and its environments are what an app or an action would have left.

Fairness. The event loop runs what is ready, hence weak fairness of the steps
of hosts, routers, event tasks, the site and the loop, and of the first steps of
children and callbacks. A coroutine that a cancellation reaches is assumed to stop.
The cancellation of a scope reaches only what had begun before
(`CancellationArrives`), so `FailureIsRaised`, `EndsWhenSettled` and
`FailureEndsDispatch` ask for those that had not (`Stragglers`) to end by themselves;
a shutdown cancels every task natively, begun or not (`ShutdownReaches`). A request
to the API ends because `aiohttp` gives every request of a `ClientSession` a total
timeout. No fairness is assumed of handlers or callbacks ending by themselves, of
clients sending their requests, or of anybody stopping the server.

## What the violated run shows

`gather_partial`: an awaitable that ends in a `CancelledError` of its own makes
`aio_gather` return normally with results missing, against its docstring
(`utils/asynctools.py:60`).

## Observations

What the models describe as the code does it, and no run asks about:

- Only `LookupError` is suppressed around the installation lookup, so an API
  error (404 for an installation just deleted) drops the event before the `try`
  statement: no handler runs and nothing is reported (`WebhookServer`,
  `LookupFails`; `routing/webhooks_dispatcher.py:62`).
- `ActionFailure` refuses the codes 0 and 78, and the system sees the lowest byte
  of a code: 256 is accepted and exits with 0, 334 with 78
  (`github/models/action_outcomes.py:51`). `SuccessMeansHandled` excepts such codes and
  `FailureIsNotSuccess` is about codes of one byte.
- `auto_cleanup_aio_tasks`, "Ensure all subtasks finish", decorates `run_forever`,
  but event tasks are not in its task group: the HTTP session is closed while
  handlers may still be cleaning up (`WebhookServer`, between `StopSite` and
  `CloseLoop`).
- A JSON fixture indented with tabs makes PyYAML raise `ScannerError`, which
  `_probe_yaml` does not turn into a `ValueError`, so the JSON probe is never
  tried (`EventFixture`, `ReRaised`). A payload that is a list, a number or null
  raises `TypeError` in its converter, before the validator that documents
  `ValueError` (`ConversionError`).
- `receive` without `-r` always ends in a traceback: `target_routers or None` hands
  `None` to `frozenset`, instead of leaving out the argument for its default
  (`CommandLine`, `MakeApp`; `cli/__main__.py:133`). A payload whose `head_commit` is
  null ends it, too (`UpdateEnvironment`; `cli/__main__.py:182`), and an
  `AttributeError` raised by the entry module is reported as a router that was not
  found (`LoadRouters`; `cli/__main__.py:111`).
- One installation that the model class refuses keeps the server from starting
  (`InstallationListing`, `PageArrives`), and so does any API error other than
  a connection that cannot be made.
- A JWT has no leeway: `iat` is the server's current second
  (`github/models/private_key.py:138`), so a server whose clock is ahead of
  GitHub's is refused (`RefusedForAReason`, its first case).
- A conclusion is accepted with a status that is unset, against the comment at
  `github/models/checks_api_requests.py:164`, and `QueriesAreConsistent` allows it;
  a tuple of dictionaries is not converted; and an update always
  sends `status: queued`, an empty text and empty lists unless it says otherwise
  (`CheckRequests`, `Present`).
- A failure in a first step comes before the tasks spawned later have begun. Their
  cancellation is lost on them: handlers, callbacks and whole routers that begin
  afterwards are called, run to their own end, and are waited for
  (`AioGather`, `EventDispatch`, state `unreached`; `utils/asynctools.py:43`).
- A header of a fixture that is no text ends `validate_http_headers` with an
  `AttributeError` or a `TypeError` instead of its `ValueError`, and so a traceback
  (`HeaderErrors`; `github/utils/event_utils.py:106`); `GitHubEvent` takes a name that
  is no text, which only `os.environ` refuses later. A list whose items are no
  mappings ends in such an exception, too (`TransformErrors`). A payload that is a
  text holding JSON of an object is accepted.
- Requests that were given the same built `CheckOutput` share its lists
  (`ListOf`; `github/models/checks_api_requests.py:43`), and an action that is added
  after the construction is not validated: more than three, or one with a label that
  is too long, are sent (`Add`).

## What is proved

All theorems hold for every value of the constants, under the named assumptions
of the modules. Each follows from an inductive invariant by the same argument:
it holds initially, every action keeps it, it implies the property.

`AioGatherProofs`, for every number of awaitables `N`:

- for every set `SelfCancelling`: `TypeOK`, `NoExceptionAsResult`,
  `FirstFailureWins`, `PutNeverBlocks`, `HostIsNotStranded`;
- if no awaitable cancels itself: `CancellationNotSwallowed`,
  `ReturnedInOrder`, and the refinement of `Gather`.

None of these is inductive. `IInv` adds what ties the parts together: pairs in
the queue and among the results name distinct children and agree with how
these ended; the scope is cancelled exactly when something went wrong; the
recorded errors are the children that raised, one at most; and where the host
is bounds what it has seen. The queue has room because its pairs inject into
the tasks other than the running one. A normal return has taken `N` pairs,
which name every task since an injection between sets of equal size is onto;
the pair of rank `i` is then the pair of task `i`, because exactly `i - 1` ids
are smaller. `HostIsNotStranded` needs `PairsKept`: the pair of every child that returned is in
the queue or taken, and a child that ended otherwise has cancelled the scope. If
all have returned and the queue is empty, the host has taken `N` pairs and does not
wait any more.

`EventDispatchProofs`, for every number of routers, every choice of strategies
and every number of callbacks: `TypeOK`, `NothingOutlivesDispatch`,
`ReturnedMeansHandled`, `OneCulprit`, `StrategiesKept` (`OneAfterAnother` and `AllOrNone`),
`NoCallAfterFailure` and `ConcurrentRoutersGather`. The invariant says, for each strategy, which shapes the
calls of a router can have in each state of its coroutine (a sequential router
in a running state has a prefix of returned calls and one running call, and so
on), and what the gather knows of it: a settled router has a coroutine that
ended in the same way, at most one is settled as an error, and an outcome means
that all are settled. The shapes are stated as operators on values, so each
action's lemma is about one router, and the others are unchanged.

`ConcurrentRoutersGather` is the refinement of `Gather` by the callbacks of each
concurrent router (`Calls(r)`). Its caller is the coroutine in the outer gather: it
counts as cancelled when that one cannot succeed any more, unless a callback has
raised or all have returned before. The steps of the router map to steps of the
gather, those of the rest to its `CallerCancel` or to nothing. The proof needs one
more invariant, `CancelledForCause`: what has been cancelled in a scope whose
callbacks have not failed is due to the outer gather, which stays shut. A router
with an unfit callback never calls `aio_gather`, so its gather never begins.

`RuntimeContextProofs`, for all tasks, attributes and values: `TypeOK`,
`OnlyOwnOrInherited`, `NoTokenTwice`, `DeleteUndoesLast`. The invariant adds
that a token in the map is unused, that its owner is alive and saw its old
value before the last assignment, and that whatever a task saw before is in its
heritage.

`CredentialProofs`, first of `InstallationToken`, for all clients, lifetimes and timeouts within them:
`TypeOK`, `SentFresh`, `RefreshedRarely`. The invariant bounds the expiry of an
issued token by the moment its refresh began and that of the cached one by the
moment it was stored: an answer is at most a timeout late, so a stored token
has at least `Lifetime - Timeout` to go.

`CredentialProofs` goes on with `CommandLine` and `EventFixture`, for files of any
number of documents and lines under `FileAssumption`, and for whatever is in the
environment (`LeftOverAssumption` is its type): the type invariants,
`FormatsAreRead`, `EventsAreSound`, `OwnCredentials` and `SuccessMeansProcessed`. The
command implements `FixtureSpec`, so what is proved of the reading holds in it. The
invariant of the reading, `FixtureIInv`, adds that the file is rewound and that
what a probe has tried before has failed for the reason the file gives (`Tried`);
that headers are those of the file, with only missing ones made up
(`HeadersOfFile`); and that a file in one of the formats yields an object
(`ObjectRead`). `Consistent` is needed where a probe gets what another has failed
on: without it, a file that is one JSON object could have a first line that is
JSON of another kind.
The invariant of the command, `CommandIInv`, says whose the credentials in the
environment, in the cached configuration and in that of the run are, stage by
stage (`Credentials`): options come over the environment before any router is
imported, so what a router has cached early is made of them.

`RouteTableProofs`, for all routes, keys and values: `TypeOK`,
`EmittedMatchOnce`, `InOrder`, `NoneForgotten`, `FailsForAReason`. The invariant
says that each list of the table holds exactly the routes registered for its
detail, in the order of registration; that the keys counted when the iteration
began are among those counted now; and what the generator, from the place where
it is, has emitted and has still to emit. The dictionary's keys distinguish the
routes of two lists, so nothing is emitted twice. The iteration visits each key
that it counted at the start unless one has been added, in which case it raises.

`EventDispatchProofs` goes on with `ActionRun`, for all return codes as well:
`SuccessMeansHandled`, `CrashFails`, `FailureIsNotSuccess`. Until the process exits the
dispatch keeps the invariant above. At the exit, what `asyncio.run` cancels is
neither to blame nor has it returned, so that the reasons stay what they were; a
dispatch that returned has nobody to blame, and one that failed has a single
callback to blame, whose exception is the one reported.

`WebhookServerProofs`, for all connections, deliveries, installations and
handlers: `TypeOK`, `OnlyTrustedDeliveries`, `HandlersSeeTheirEvent`,
`FailuresCaptured`, `NothingLeftRunning`, `HandlersAreGathered`. The invariant has a part for each
actor. A delivery that is being read is on one connection and has no task yet.
Connections never set anything in their own context, so an event task starts
with nothing of another event; what it sees at each stage is what it has put
there itself up to then, and the handlers got a copy of that. Handlers run only
while their event is dispatched, and at most one of them has failed. After the
shutdown began no connection accepts anything, and whatever is still active has
been cancelled, so that the loop is closed over nothing. The one assumption,
`TaskAssumption`, is that the tasks of connections are not those of events.

`HandlersAreGathered` is the refinement of `Gather` by the handlers of every event at
once. `GatherInv` adds that nobody is cancelled before the shutdown, that handlers
are idle until the dispatch and not after its start, and that one of an event that
was not cancelled is cancelled only for another one's failure. `EveryStepOf` sorts
what each action is to one event: nothing, an approach to the dispatch, the spawning
of the handlers, the end of one handler, or the end of the task; each of these maps
to one step of the gather, or to none.

`InstallationListingProofs`, for all sets of installations that are finite, page
sizes, lifetimes of tokens, delays of answers and clocks: `TypeOK`,
`RefusedForAReason`, `FewAreMissed`. The invariant adds when a request was sent:
page `n` of a listing at most `n - 1` delays after the token was made, a lookup at
the moment its token was made. A refused token was therefore either made in
GitHub's future, or the `n` delays and what the server's clock is behind come to its
lifetime. A second invariant,
`MissedInv`, counts the installations that are below the bound of the pages taken
without having been taken: those removed are as many at least. Only an
uninstallation moves another installation below the bound, one at most, and it
adds to the removed; a page that is served covers exactly what is between the old
bound and the new one; and after the last page there is nothing above the bound.

`CheckRequestsProofs`, for any number of requests and lists of any length, and for
whatever lists a handler may have: the type invariant, `RequestsAreSeparate`,
`QueriesAreConsistent` and `SentAsGiven`. The invariant says that a request has its
own lists, those of the built output it was given, or `None`, never the default and
never one that a handler has kept, and that what the validators have looked at is
still there, at the beginning of what may have grown. The lemmas about the query say what
`to_gh_query` keeps of an item, a list, an output and a request. `NoneAssumption`
says that `None` is none of the values that take its place.

Only model-checked: the liveness properties (`FailureIsRaised`, `EndsWhenSettled`,
`AnswerIsPrompt`, `EventMovesOn`, `ShutdownCompletes`, `FailureEndsDispatch`), which need
fairness and `ENABLED`. Every invariant and every other action property of the
passing runs is proved. Proved and therefore in no run are the type invariants, and
`NoExceptionAsResult`, `CancellationNotSwallowed`, `FirstFailureWins`, `PutNeverBlocks`
and `NoTokenTwice`.

## State of the project

All modules are model-checked and have theorems. What is left is to connect
modules that stand for themselves: `WebhookServer` takes a copy of a context for what
`RuntimeContext` shows of it and a client for one that `InstallationToken` keeps
usable, and no refinement between them is stated.

## Not modelled

- Values without state: keys, fingerprints and secrets
  (`github/models/private_key.py`, `github/models/utils.py`), preview headers
  (`github/api/utils.py`), reprs.
- `app/runtime/installation_utils.py`, which reads one file of a repository, from
  the checkout or with one request, and parses it as YAML: nothing is kept
  between its calls, and its errors leave it as they come.
- Logging, packaging, `utils/versiontools.py`, docs and build files.
- aiohttp, anyio, gidgethub, PyJWT, PyYAML and the GitHub API, other than by
  what the code relies on.
