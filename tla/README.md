# Formal models of mcp-suite

TLA+ specifications of the stateful parts of `mcp-suite`, the TLC runs that
check them on small instances and the TLAPS proofs that establish the most
important properties for every instance. `PROJECT.json` lists the components,
the runs, the theorems, the lines of source each definition stands for and the
hazards the properties are aimed at.

## The system

`mcp-suite` is a monorepo of TypeScript packages around the Model Context
Protocol. `shared` carries the client, server and transports; `sentinel` is a
proxy that polices tool calls; `composer` aggregates servers; `forge` runs
pipelines of tool calls; `atlas` is a registry that probes servers;
`observatory` keeps traces and alerts; `bridge` generates servers from API
documents; `apps/lab` is a desktop client. A tool call typically passes
sentinel, then composer or forge, each of which is an MCP client of the next.

| Component | State | Operations | What is hard | What is asked of it |
| --- | --- | --- | --- | --- |
| Sentinel `ApprovalStore` | three SQLite tables shared by all processes on the file: requests, capabilities, events | createOrReuse, decide, claimExecution, cancel, expire, expireDue, recordDispatch(Failure), get, list | reads outside transactions, clocks read before a lock is waited for, races of timeout and answer, crash | one outcome per request, for good; one claim; a capability spent once, in time; events that tell the row |
| Sentinel `ApprovalGate` | calls suspended in `publish()` or in the polling loop; adapters | request, holdRequest, decide, cancel, abort | duplicates sharing a key, channels failing after another one delivered, abort against answer, crash of a waiter | one release per request, under an approval of just that call; results that stay true; no early timeout; waits that end |
| Sentinel `SentinelProxy`, `PolicyEngine`, `AuditLog` | calls in flight, audit table | handleToolCall, enforceApproval, record, prune, remediate | crash between claim, upstream call and record; exceptions past the record | upstream called at most once per approval and never against the rules; a record in the log agrees with tables and upstream |
| Sentinel `KeyManager`, `RequestPipeline` | table of virtual keys; per-process sliding windows | create, revoke, rotate, validate; allow list, limiter | non-atomic rotation, concurrent administrators, window edges, restart | revocation is final; a rotated key is dead and its heir has its terms; the rate is bounded |
| Shared `MCPClient`, transports | pending requests with timers, connection flag | connect, request, notify, disconnect, message and close events | answer against timer against close; connect that times out | every request settles once, with its own answer; an entry has its waiter and its timer |
| Shared `MCPServer`, router | initialised flag, handlers | start, stop, handleMessage | messages before initialisation, stop with handlers running | every request is settled |
| Shared `RateLimiter`, `retry`, `safeFetch` | tokens; attempts; redirect hops | acquire; withRetry; fetch | boundaries; retry after a late success; a redirect to another origin | every hop's address reviewed, credentials kept at their origin, bodies forwarded by one rule (limiter and retry are not modelled) |
| Forge `ForgeEngine`, `Executor`, `RunStore`, `Scheduler` | runs and step rows, data bus, timers | start, stop, run, executeSerial, executeParallel, schedule | failing sibling of a parallel step, retry after timeout, crash during a run | steps in order; a run that ended is recorded, for good; a server is not called more often than allowed; a loop's child gets its own item where no other step writes the loop's variable |
| Forge `ConnectionManager`, `ServerPool`, `HealthChecker` | clients by name, pooled connections, failure counters | getClient, shutdown, acquire, release, cleanup, check | check, await, then act; sweep of a list in use | a pooled connection is open and in one hand; what the manager hands out has connected (the size is exceeded and connections leak: see below) |
| Forge `WebSocketHub` | connections, subscriptions, budgets | upgrade, message, broadcast, liveness, close | close during a send, budgets at the edge of a window | the limits of a principal hold in every window; a closed hub holds no socket; dead peers are dropped |
| Atlas `HealthMonitor` | timer, probes in flight, child processes | start, stop, checkAll, checkServer, probe | overlapping rounds, deletion during a probe, exit against line against timeout | each probe ends; a verdict is earned; a late result hides no newer one; only a probe in flight leaves a row of a deleted server |
| Atlas `ServerStore`, `RegistryServer` | server and health rows; submission windows | add, update, delete, recordHealthCheck; submit | id collisions, windows, bodies that break off | the window of submissions holds; one valid row for each acceptance |
| Composer `BackendManager`, `ComposerProxy`, `ToolRouter` | backends by name | add, remove, reconnectAll, route | overlapping adds and reconnects, awaits inside a removal, separator inside a name | a call reaches the backend that listed the tool, if the backend's name is unambiguous; an answered listing is whole; an entry was not killed; no backend is lost unless a call fails |
| Observatory `AnomalyDetector`, `AlertManager`, `SQLiteStore`, `ErrorBudget` | metrics table shared by processes, intervals, recent alerts | recordCall, check, trigger, getErrorRate, calculate | a failed send after the mark, several intervals with jitter, two queries with a writer between them | a quiet cool-down, a lasting anomaly alerted again, a spent budget told |
| Lab IPC handlers | one active client, process, session | connect, disconnect, call | overlapping handlers share the three variables | one server process; if clicks take turns, renderer, catalogue and history tell the server |
| Release scripts | npm registry | plan, publish, verify | failure between two packages, rerun | dependencies first; only good tarballs of this build; a completed run is this build's |
| Bridge; redaction; DSL schema; CLI parsing; pages of the UIs | none, or none that matters here | | | not modelled: pure transformations or I/O |

Components interact in three ways: through SQLite tables that several
processes open (sentinel's proxy and its `approvals` and `keys` commands),
through calls over an `MCPClient` (proxy to upstream, composer to backends,
forge to servers), and through callbacks and events in one event loop
(adapters, transports, timers).

## Modules

    ApprovalLifecycle            what the approval store promises
          ^ implements
    ApprovalStore                tables and transactions
          ^ extends
    ApprovalGate                 concurrent held calls over the store
          ^ extends
    SentinelProxy                the whole tool call: policy, hold, upstream, audit

    VirtualKeys                  keys, allow list and rate limiter

    MCPClient                    the client of all packages and its transport
    SafeFetch                    one reviewed HTTP call with its redirects
    HealthProbe                  one probe of a server, over HTTP or a pipe
    AtlasHealth                  rounds of probes over the registry's rows
    AtlasSubmissions             submissions to the registry
    ForgeRuns                    engine, executor, nodes and the runs table
    ForgePool, ForgeConnections  pool; connection manager and health checker
    ForgeHub, ForgeApi           the event channel and the HTTP API
    Composer                     composer behind an MCPServer
    LabSession                   the desktop client's active server
    Observatory                  metrics, alerts and error budget
    NpmRelease                   publication of a release to npm

    MCShared                     suite: MCPClient, SafeFetch, HealthProbe, AtlasHealth, AtlasSubmissions
    Forge                        suite: ForgeHub, ForgeApi, ForgeRuns, ForgePool, ForgeConnections
    MCForge                      the values Forge is checked with
    Apps                         suite: NpmRelease, LabSession, Composer, Observatory
    MCApps                       the values Apps is checked with
    MCEnds                       suite: the liveness of nine of them

    ApprovalStoreProofs          theorems about ApprovalStore
          ^ extends
    SentinelProofs               theorems about ApprovalGate and SentinelProxy
    VirtualKeysProofs            theorems about VirtualKeys
    MCPClientProofs              theorems about MCPClient
    SafeFetchProofs              theorems about SafeFetch
          ^ instantiates both
    SharedProofs                 theorems about MCShared
    ForgeProofs                  theorems about Forge
    AppsProofs                   theorems about Apps

The second group has one module per place where the code keeps state across
awaits or processes; where one of them calls another package it sees that
package through what its calls may do (`HealthProbe` is summed up in
`AtlasHealth` as a verdict that arrives some time after the probe began,
`MCPClient` in `ForgeConnections`, `Composer` and `LabSession` as a connect
that is answered, fails, or is closed under its caller).

`MCApprovalStore`, `MCApprovalGate`, `MCSentinelProxy` and `MCVirtualKeys` hold
the values TLC needs for one specification each. The other `MC` modules are
suites: machines of independent components side by side. A suite takes every
module by `INSTANCE` and has one more variable, `part`, which names the machine
and case a behaviour is about and never changes. `MCShared`, `Forge` and `Apps`
take all values as constants, so that their theorems hold for every choice of
them. What differs between two cases of one machine is a bound on its steps
(`HubBounds`, `RunBounds`), which a proof never uses, or in `Apps` the
constants of the machine itself: `LabCases` and `WatchCases` are functions from
a case to its record of values. The machine of the part moves as its module
says; the others keep the state in which they began. Since no
two of the machines share state, their interleavings would show
nothing that the separate behaviours do not. A suite's properties conjoin
those of its modules, under the names the modules give them, and its assumption
conjoins theirs.

A definition introduced as "variant with a bug" belongs to no specification:
`PROJECT.json` names, for every checked property, the definition such a variant
takes the place of, to see that the property notices.

### ApprovalStore (`approval/ApprovalStore.ts`)

`request`, `capability` and `log` are the three tables; the event table is
split by request, which keeps the order within a request. `now` is the wall
clock and `op[h]` what a non-transactional operation on handle `h` has read
and not yet acted on. Every method that runs inside `db.transaction()` is one
action, because SQLite serialises those. The clock is not in the
transaction: methods read it before `BEGIN` and may then wait for the lock, so
an action takes any past instant `t` as its reading. `expireDue` is two
actions, `SelectDue` and `ExpireDue`; `recordDispatch` and its failure variant
are `RequirePending` and `RecordDispatch`; another process may do anything in
between, and `Crash` may lose the second half. A call that ends in an error
and writes nothing is a stuttering step; a call that finds its request due
settles it as expired and then throws, which is the `ExpireRowIfDue` branch of
`Decide`, `ClaimExecution` and `Cancel`.

The payload of a request is a model value that stands for what the fingerprint
covers besides the columns, the sanitised tool call and the channels. A
capability is the one of its request; possession of the token is the guard of
whoever calls `Decide`.

`ApprovalLifecycle` says the same without tables: a request is opened once,
settled once by an authority entitled to the outcome (approver, requester or
the timeout policy), and released at most once if approved. `Phase` and
`Authority` map the rows to it.

### ApprovalGate (`approval/ApprovalGate.ts`)

One record per concurrent `holdRequest()`, whose `pc` names the await, or the
gap between two transactions, at which it stands. `Request` joins or opens a
request; `Publish`, `Published` and `DeliveryFails` go through the channels;
`TimeOutWait`, `AbortWait` and `SeeOutcome` are the branches of one turn of
the polling loop in the code's order; `Claim` is `claimExecution()` as the
proxy calls it. `Answer`, `Withdraw` and `Sweep` are other processes and
`CrashProcess(S)` the death of the process that runs the calls in `S`.
`undelivered` is a history variable. Readings of the clock are fresh here, the
store's runs having covered stale ones.

### SentinelProxy (`proxy/SentinelProxy.ts`, `policy/PolicyEngine.ts`)

Adds to every gate call the handler around it: `Arrive` runs the pipeline and
the first matching policy rule, `Hold` embeds the steps of the gate, `Enforce`
claims and records a denial, `Invoke` sends the call upstream and `Return`
writes the audit record. An exception inside the hold leaves the handler with
no record, as in the code. The pipeline's own two middlewares may refuse any
call here; what they do is in `VirtualKeys`.

### VirtualKeys (`auth/KeyManager.ts`, `proxy/RequestPipeline.ts`)

The table of keys, the two halves of `rotate()`, the limiter's times per
proxy, and tool calls between the allow list and the limiter, which are in
different turns of the event loop. A limit of 0 is no limit, as in the code.
`heir` and `passed` are history variables. The limiter's array of times is
a set of stamps, each the number of a call and its time (`Stamp`): the code only
filters and counts the array and appends to it, never reads it by position.
The logs of `AtlasSubmissions`, `ForgeHub` and `ForgeApi` are sets of the same
kind.

### MCPClient (`shared/client/MCPClient.ts`, `shared/transport/http.ts`)

`pending` is the map of entries with their timers; each `connect()`,
`request()` and `disconnect()` is a process that stops at its awaits, so that
several of each overlap at every one of them. The HTTP transport's delegates
are connections of their own that may open after `connect()` gave up. With
`Serial` the application awaits its calls and disconnects before it connects
again, which is what every caller in the repository does.

### SafeFetch (`shared/security/safeFetch.ts`, `security/url.ts`)

One call: the lookup and review of a hop's addresses, the pinned connection,
headers, body in chunks, redirect, timer and abort. The resolver may answer
differently each time it is asked. Host names and address ranges are
membership in `Allowed`, `Trusted` and `Public`. The request is the one object
that the code edits in place from hop to hop. A 301 or 302 of a method other
than POST keeps method and body, as in the code.

### HealthProbe, AtlasHealth, AtlasSubmissions (`atlas/registry`)

`HealthProbe` is one probe: the answers of an HTTP peer, or a child process
whose lines, noise, exit, output limit and deadline arrive in any order, with
the waiters of the session, the kill and its timer. A child that ends between
its answer and the next write brings the process down (no listener for EPIPE);
the model has that as an end of its own. `AtlasHealth` runs rounds of probes
that overlap, from the interval or another process, over servers that are
added, deleted and seeded. A probe that fails looks up the last success
(`EndProbe`) and its row is inserted in a step of its own (`RecordHealthCheck`),
because rounds of other processes write to the same file in between; `found` is what
a round holds there, and a row's `seen` how many rows there had been at the look. `AtlasSubmissions` is the HTTP handler: token, sliding
window per address, body, validation, the id made of the name and the
millisecond, and the insert. A submission with more than 100 stdio arguments is
accepted and later refused by the monitor; the model does not count arguments.
`update()`, `delete()` and `monitor.start()` have no callers but tests.

### ForgeRuns (`forge/engine`, `forge/nodes`, `forge/dsl/compiler.ts`)

`Groups` gives each run the groups of its pipeline. A run executes them in
order, a group its steps at once; a step calls its
tool, retries, times out, and its late answer may still come after the group
was rejected. `bus` is the one map of a run, by the names of variables: a loop sets
its variable as an iteration begins (`SetItem`), each child reads what the map
holds when it resolves its input (`BeginCall`), and outputs of children and steps go
to the same map (`AfterChild`, `WithOutput`). So loops of one group with the same `as`
overwrite each other, and a child sees its own item only where the loop's variable is its
own (`OwnVariable`). After `stop()` a call may still reach a server, as
`getClient()` opens a new connection. `rows` is the runs table, which stop and crash leave as they find
it. The step's own `timeout`, `backoff` and `initial_delay` are ignored by the
code and absent here; `run_steps` is never written by the engine; a condition
whose output is false is not put on the bus; a pipeline saved over the API is
not scheduled until the next start.

### ForgePool, ForgeConnections (`forge/connections`)

Callers of `acquire()` stop at the connection they await and in the queue; the
sweep replaces the array of one server's entries while they hold the old one,
so both arrays are state. `ForgeConnections` has the connection manager with
steps and rounds of health checks as its callers, and `shutdown()`.

### ForgeHub, ForgeApi (`forge/server`)

`ForgeHub` has the options its constructor resolved (a variable that no step
changes), sockets with their state, token and subscriptions, the
per-principal windows, the pings, the queue of a slow socket, and close. Errors
come before the close of a socket, which comes later than the decision to
close it. The token's expiry is looked at when the socket is opened, not
after. `ForgeApi` has the window and log of requests, authentication, the
routes that save, run and read, and the two stores that `serve` opens.

### Composer (`composer`, `shared/server`)

Requests to the proxy stop at each backend they ask; `addBackend` and
`reconnectAll` stop at each disconnect and each connection. `add[k]` is where
the k-th call stands: it has asked an HTTP backend to end its session
(`SessionEnds`), it is about to kill and delete (`Removed`), or it
connects (`ConnectEnds`). Calls overlap in every order, so an entry may be listed
while its client is closed, and a call may delete what another one has just put in.
Connections are numbered, so that what is listed, killed or left behind is a
particular one; those over HTTP have no process. The separator given
to `ComposerProxy` does not reach its router (`ComposerProxy.ts:7`), so there
is one separator. A name is the sequence of its characters, which `Route` divides
at the first `__`, wherever that stands. A backend that fails to connect leaves its process running,
and the command line alive with its exit code set; `list-backends` and
`list-tools` do not disconnect theirs.

### LabSession (`apps/lab/src/main/ipc/handlers.ts`, `renderer`)

Operations (connect and disconnect) share the active client, process and
session of the main process and stop at their awaits; the renderer's view
follows the events it gets. `Serial` is a user whose window waits for one
operation before it offers the next; otherwise operations overlap as the
handlers permit. Every connect makes a new row, even from a saved connection.

### Observatory (`observatory`)

The metrics table, as the number of rows of each name that are not older than
each instant, which is all its queries ask for; a program that records calls row by row;
the intervals of `start()`, each of which fires once a period, in either half of
it; the detector's comparison with the baseline, squared so that it stays in
the integers; the alert manager's mark; and the dashboard's error rate, one query at
a time from another process. `sent`, `hot` and the reader's `over` are history
variables.

### NpmRelease (`scripts/npm-release-lib.mjs` and its commands)

Builds of several packages with a dependency graph, tarballs that may be from
another build or bad, runs of the workflow that die anywhere, the registry, and
its metadata, which lag behind it. `sortPackages()` calls itself; `stack` holds
its calls under way and `order` what they have put out, and a turn of one of its
loops is a step. `release-state` reports what the metadata say.

## Runs

| Run | Instance | Shows |
| --- | --- | --- |
| `store_one` | 1 request, 2 handles, 3 ticks, fail-open permitted | row, capability and log stay consistent under stale clocks, sweeps, dispatch records and crashes; refinement |
| `gate_calls` | 2 calls, 2 requests, 4 inputs, 2 channels of which one has an adapter | one row per requester and key, at most one release per request, results that stay true, no early or unasked timeout |
| `proxy_calls` | 2 calls, 2 requests, one rule per action | invocations, approvals and audit records agree |
| `proxy_returns` | 2 calls, one key, with fairness | every held call returns or dies with its process |
| `keys` | 3 keys, 2 administrators, 2 calls, window 1 of 2 ticks | revocation, rotation and the sliding window |
| `shared` | the cases of `MCShared` | below |
| `forge` | the cases of `MCForge` | below |
| `apps` | the cases of `MCApps` | below |
| `ends` | the machines of `MCEnds`, with fairness | below |
| `gate_delivery`, `proxy_audit`, `forge_dry` | the smallest that shows it | the disagreements below |

| Property of a suite | Cases | What it says |
| --- | --- | --- |
| `ClientPromises` | requests, connects and disconnects that overlap; connects awaited in turn | an unsettled promise has its entry and its timer; the connected flag tells the truth |
| `SharedSteps` | the same, and rounds of checks | outcomes are final, answers come over the connection that was asked, a close leaves nobody waiting; a late check hides no later one |
| `VerdictIsEarned` | 2 lines, output limit | ready takes a handshake, reachable something heard |
| `HealthTellsTheServer` | 1 server with overlapping rounds; 2 servers | a failure's row knows the successes on record when its probe had failed, orphan rows were in flight, a round checks its list |
| `SubmissionsAdmitted` | 2 clients over several windows; submissions of one name with every payload | the limit holds, addresses are forgotten, one row for each acceptance, consistent and private |
| `FetchStaysInPolicy` | 3 origins, redirects, names that are rebound | only reviewed addresses; credentials stay with their origin; a body crosses origins only on a 301 or 302 of a method other than POST |
| `HubLimitsHold` | 3 tokens of 2 principals; scopes; the message window; the API with a reader, a writer and a stranger | connections, subscriptions, messages and requests stay within their limits; a closed hub holds no socket |
| `RunsKeepOrder`, `ForgeSteps` | 2 runs of a parallel group and a step with retries; two loops side by side, on variables of their own and on one they share; a condition | order, number of calls, items of loops that own their variable, records of ended runs that stay; health events that follow results |
| `ConnectionsExclusive` | 3 callers of a pool of 2 with a sweep; callers and checks of the manager | one holder, and a connection that is open |
| `ReleaseInOrder` | 3 packages, several graphs, 2 runs that die anywhere | dependencies first, this build's good tarballs only, reports that are true |
| `LabTellsTheServer` | clicks in turn with a tool call; clicks that overlap | renderer, catalogue and history tell the server; one server process |
| `ComposerKeepsBackends` | 2 backends, `a` over HTTP and `a_` over stdio, tools that hold the separator, 2 changes that overlap, 4 connections | calls reach what was listed, listings are whole, entries were not killed, no backend is lost |
| `AlertsAreTimely` | 2 intervals with channels that fail; a dashboard read between writes | the cool-down is quiet and no longer than itself; a spent budget is told |
| `RequestsEnd`, `ProbesEnd`, `WorkEnds` | one small instance per machine | requests, handshakes, clicks; probes, rounds, fetches, vanished peers; runs |

The last three have the form "again and again, nothing is pending": on
instances where each request, click, probe, round or run happens once, and what is
settled stays so, that is that each of them ends. Sockets may be used again, so
for them it is asked of each socket. Fairness there is one condition per slot
(`Fair(i)`): actions of one process that are never enabled together share a
slot, and a slot's fairness is then that of each of them.

Bounds. `MaxTime` stops the clock; two or three ticks hold a creation, an
instant before the expiry, the expiry and one after. `MaxEvents` bounds the
dispatch records of one request, the only unbounded part of its log; four
allows two of them beside creation, so that one can precede and one follow the
outcome. The gate needs no such bound because a call records each channel
once. Two calls are what a race needs and two requests what sharing a key
needs; the limiter gets two calls for a limit of one. In the gate a call
only starts if the clock can still reach its expiry, otherwise a liveness
violation would be the bound's and not the code's. Requests, calls, keys and
administrators are interchangeable, and used as symmetry sets wherever no
liveness is checked. Deadlock is not checked: all calls over and the clock at its
bound is a legitimate end.

Outside sentinel the bounds follow the same idea. A race over a check before
an await needs two actors, and a third where the second may be followed by one that finds
the mess (pool, overlapping rounds, lab operations). Limits are one or two, so
that instances are at them, one under and one past them. Three packages are the
least in which a dependency has a dependency. `MaxRows` keeps the health rows
of a server, of which the properties look at the latest two. `MaxConns` of the
composer allows each of two backends one replacement, or one backend two by calls that overlap;
the second name differs from the first by the half of a separator, so that one
name is that of both their tools. Detector and budget need
more samples than actors: one slow call exceeds three standard deviations only
beside more than nine fast ones, and a share of one in a thousand needs a
thousand calls, so good calls come in bursts of 12 and 1000. Time in the observatory is
scaled: the five minutes are two periods of the detector.

Fairness. In sentinel's liveness run only: timers of waiting calls fire again
and again (the event loop), a handler whose await is over is resumed, the upstream
call is bounded by `MCPClient`'s request timeout, and time passes. Nothing is
assumed of approvers or of adapters: `publish()` is awaited without a timeout,
so a call stuck there may wait for ever, and the property begins at the wait.

Elsewhere, again only where something must end: timers fire (requests, connect,
probe deadline, kill, pings, hop timeout), a continuation whose await is over is
resumed, SIGKILL ends a child, and what the code awaits without a timer of its own is
assumed to come back only where a lower layer has one (tool calls of forge and
requests of the composer through `MCPClient`). One such layer is not of the
repository: what ends the lab's `CloseEnds` when a server does not answer the DELETE of
its session (`http.ts:105`) is the time limit that the platform's `fetch` has for response headers. Peers need never answer. No
fairness is assumed of users, of peers, or of crashes staying away: a process that dies is an
end.

### Disagreements found

* `gate_delivery`. `packages/sentinel/README.md:114` says that a failed
  delivery or a missing adapter cancels the request and fails closed. If the
  approver answers through the first channel before a later one fails, the
  cancellation is refused, the failing call throws, and another call with the
  same key is released under the approval (`ApprovalGate.ts:133-143`).
* `proxy_audit`. `docs/packages/sentinel.md:31` sends the reader to the audit
  log when approvals appear inconsistent. A call whose hold throws, for instance
  because the approver decided while `publish()` was still pending, ends in an
  error that the log does not contain (`SentinelProxy.ts:191`).
* `forge_dry`. `forge/src/cli.ts:20` promises a dry run that calls no tools;
  `executeParallel()` never asks.

The modules state further promises that the code does not keep; TLC found each of
them violated on an instance like those of the suites, but no run repeats it:

* `SafeFetch!BodiesStayAtOrigin`. The error at `safeFetch.ts:239`: "cross-origin
  redirect cannot forward a request body". Only 307 and 308 are looked at: a PUT
  is sent on to another origin, body and all, after a 301 or 302.
* `AtlasHealth!OnlyReadinessIsRewarded`. `docs/security.md:84`: "Registry quality
  scores reward only successful MCP readiness." Reachability alone earns five points.
* `ForgeRuns!OtherBranchDoesNotRun`. `forge/README.md:40` promises branching;
  nobody reads the branch a condition selects, and both run.
* `ForgeRuns!FailuresAreOfSteps`. The README's `type: tool` passes the schema
  and is unknown to the factory.
* `ForgePool!SizeBounded`. `ServerPool.ts:36`: "Create new if below max"; callers
  that create at once exceed it.
* `ForgeConnections!ShutdownLeavesNothing`. A test says the manager "shuts everything
  down"; a connection that lost the race for its place in the map stays open.
* `ForgeApi!AnsweredRunsAreListed`. Without a database path the engine and the API
  have one in-memory store each, so a run is unknown to the API that answered for it.
* `NpmRelease!SafeMeansNew`. `docs/release-state-machine.md:29`: a version that
  exists makes `safe_to_publish` false. It does not.
* `LabSession!ConnectedServes`, `LabSession!FailuresAreReported`. An overlapping
  operation's client is cleared and the window says connected; a failure whose
  clean-up fails is never reported.
* `Composer!OneProcessEach`, `Composer!NamesLeadHome`. Each reconnection leaves the old
  client and process behind; a backend whose name holds the separator, or ends
  in a half of it, lists tools under names that lead elsewhere.

Not violations of a promise, but worth knowing: the fingerprint leaves
out `on_timeout`, so a fail-closed caller can be released by a fail-open one's
timeout; a key is not validated again after a hold; `rotate()` of a revoked
key, or two at once, yields a further working key; a crash between its halves
yields none; one error among few calls, recorded between the
dashboard's two queries, makes it report a breach that never was; a success that
another process records between a failed check's look at the last success
(`HealthMonitor.ts:116`) and its insert (`:131`) is missing in the failure's row; loops of one
group with the same `as`, and outputs stored under it, overwrite each other's
item (`LoopNode.ts:30`); while `removeBackend()` awaits a disconnect its entry is
listed and answers nothing, and it may then delete the fresh entry of
another `addBackend()` (`BackendManager.ts:61-63`), whose client and process stay
behind - the deleting call puts the name back, unless it fails.

## Proofs

Every safety invariant and action property that a run checks is also proved for
every value of the constants. Each invariant below was first checked by TLC as
an invariant of the run it belongs to.

**ApprovalStoreProofs.** The properties are not inductive as they stand.
`StepForms` first reduces `Next`: whatever the operation, a step leaves the
tables alone, moves pending rows to one outcome, inserts one row, records one
decision, one claim or one dispatch event. The inductive invariant then has one
part per table relation: `RowInv` says of each row that it is coherent - an
absent row is blank, an opened one has its requester, approver and a capability
with the same expiry and the earlier of the two bounds; an unsettled row has
neither author nor claim; a settled one has an author entitled to the outcome; a
spent capability was spent by its approver before its expiry - and `OpInv` that
what handles hold between read and write names rows that exist.
`DecisionInTime`, for instance, follows only because the capability's expiry is
the row's and the row's is the earlier of the two. `LogTellsTheRow` is inductive
given these and the step forms; `SettledForGood` and the refinement of
`ApprovalLifecycle` are one case per form.

**SentinelProofs.** To the tables a step of the gate does what a step of the
store does (`GateForms`), so the store's lemmas about forms hold of the gate, and
with them the refinement and the event log. `CallInv` says what a call may
believe of its row: while it waits, that the row is one of its own requester
over what it asked; once it has an outcome, that the row is settled that way;
once it is released, that the row was claimed. It survives the steps of other
calls because rows keep what they were inserted with and settled rows stay.
`OneReleasePerRequest` follows because a claim takes an unclaimed row and a
released call's row is claimed; `NoEarlyTimeout` because the only steps that
settle a row in the name of the timeout find it due. For the proxy,
`ProxyImplementsGate` shows that each of its steps is a step of the gate or none,
and `StageInv` ties the place where `handleToolCall()` stands to its gate call, to
the audit table and to the upstream server.

**VirtualKeysProofs.** `KeyInv` adds to the checked properties that a rotation in
flight has already revoked its key, so the terms it will copy can no longer
change, and that an absent row has no predecessor. `LimiterInv` says that the
limiter's log holds every call of the last window and that the calls of any window,
wherever it starts, are at most the limit; that is what `RateBounded` needs,
since the log is pruned only when it is looked at.

**MCPClientProofs, SafeFetchProofs.** `WaitInv` is `EntryPerWaiter` with the fact
that a `connect()` that is still opening has sent nothing. `Turns` describes an application
that awaits its calls: one `connect()` or `disconnect()` at a time, each on
a delegate of its own; only then does the connected flag tell the truth.
`FetchInv` says what a call carries to its next hop: reviewed addresses,
credentials only if no hop led away, a body to another origin only by
a 301 or 302 that keeps a method other than POST, and as many requests as
redirects followed. `BodiesGoByRule` is that rule, not more: under it a body may cross. Both modules state their theorems
under the module's assumption, so that `SharedProofs` can instantiate them.

**SharedProofs.** `ProbeInv` is what is known at each place of a
probe: which messages came, and that a child process that was started is running,
exited or killed. `HealthInv` says of the rows what is checked, and of each round in flight that
every server of its list is still before it, deleted since, or has a row of this
round, that a server deleted under a probe was deleted after the probe began,
and that what a failed probe has found, and not recorded yet, names a success as
late as any of the first `seen` rows: rows inserted since come after those.
`SubmitInv` has the limiter's argument again, for one address at a time, and that
records are what accepted submissions made.

**ForgeProofs.** One invariant for each of the five machines. `PoolInv`: a held
client's entry is marked used and not idle, no two callers hold one client, and
until the shutdown the entries of the current array, those held, and the free
ones of every array somebody still waits on are connected - the array of a
waiter may have been replaced by a sweep. `ManagerInv`: until the shutdown a
client in the map or in a caller's hands has connected, and the last results of
a server are failures, as many as its status counts. `HubInv`: the sockets in
the map are within both shares, a socket is open only while it is in the map,
and a principal's log holds all of its messages of the last window. `ApiInv`:
the same of requests. `RunsInv`: of each run's groups those before a front are
over and those behind it are untouched (`Front`), the record agrees with where
the run stands (`RecordInv`), and a server got at most
`max_attempts * (call - 1) + attempts` calls of a step that is at its `call`-th (`CallOK`); between the
first call of a loop that owns its variable and its end the run's `bus` holds the
item of the iteration there, because every other step that may write now writes other
variables. All steps of the nodes go through one lemma
(`StepKeeps`): a step of one node of one run, whose end may move that run and
nothing else.

**AppsProofs.** One invariant for each of four machines.

`ReleaseInv`. That dependencies are published first is decided long before
anything is published: by a loop that recurses. `StackInv` says of every
call of `visit()` under way that each dependency it was given is still before
it, in the order already, or the very next call on the stack; so when a call
ends, its dependencies are in the order. `OrderInv` carries that on: whatever
stands in the order has its dependencies before it or on the registry, which
remains true while the order is shortened from its front, because what leaves it
has been published, or was found there (`RunInv`). That needs no assumption
that the graph has no cycle: in one, the sort ends in an error.

`LabInv`. `OneServer` holds however clicks overlap: a client that is closing has
somebody who waits for it, alone (`ClosingInv`). The rest holds only while clicks
take turns, and `TurnInv` is what turns buy: at most one click is busy, what it
closes is what is active (`ClientInv`), the session and the renderer's status
follow from where that click stands (`MainInv`, `ViewInv`), what a listing or a
call asked is the active client or a closed one (`AskInv`), and an answer that
has come is handled before another event (`AnswerInv`): without it a server could
die between the answer and the code that runs on it.

`HubInv`. `MapInv` says that the entries of the map have distinct names, and that
each is a connection to the backend of its name that was made and not killed, open
unless its process ended or a call of `addBackend()` that is about to delete it has
closed it. What a call of `addBackend()` awaits to disconnect or connect is described with it,
since any other call may come in between. `StayInv`: until a call fails every
backend is in the map or about to be put there, and every entry that is deleted is deleted by a call
that will put its name back; until the first change that is why a
listing answered is whole. `RequestInv` says of a request that what was
listed under a name is cut by the router where the listing joined it: lemmas on
sequences show that a name is divided in one way only if its backend's name
neither holds the separator nor ends in `_`.

`WatchInv`. Of alerts, that what was sent was sent by the last mark, which was
itself sent, and that each anomaly found has an alert less than a cool-down
before it, or after (`AlertInv`). Of a read of the dashboard, that its window has
been over budget since it began, and that the calls it counted are still there
(`ReadInv`): rows are only added, so the errors it counts later are at least
those that went with them.

Suites. A machine whose part it is not stands still, so every invariant holds of
every part and is proved of the instance, with the other machines' steps as
stuttering. Bounds on time and steps appear only as further conjuncts of a step.

Assumed of the constants is only what `ASSUME`s state, by name: durations,
limits and clocks are natural numbers, positive where the code checks that;
`None` (and `NoKey`, and `"system:timeout"`) is none of the values it stands
beside; `Servers` and `Requests` of the registry, `Sockets` and `Categories` of the
hub are finite, since the code counts them; the ids of a pipeline's steps are
distinct (`compiler.ts:19`) and `max_attempts` is positive (the schema). In
`Apps` the packages are a finite set of positive numbers, the names of backends
and tools are finite sequences of strings, and the cool-down is a whole number of
the detector's periods.

Only model-checked: liveness (`HeldCallReturns` and the run `ends`), which the
proof system does not reach, and with it the fairness those runs assume.

## Assumptions and what is left out

The clock does not run backwards. `SQLITE_BUSY` and other database errors are
calls that change nothing. A requester's request header values arrive as
written. `adapter.cancel()` notifications are left out because nobody reads
their results. Redaction is a function: equal sanitised calls are equal
payloads. Duration parsing, formatting, logging and the list handlers that only pass
through are left out.

Not modelled, by component: sentinel's redaction and PII detection, the bridge,
Atlas scoring weights, seed data and installer output, forge's schema and templates (pure
functions over text and data); shared protocol types, telemetry, and the rate
limiter and retry helpers, which no package uses on a path modelled here; the
pages of the user interfaces; the scripts that check coverage, workflows and
toolchain over files. Partly modelled components say in `PROJECT.json` what is
left out of each. In the lab, deep links sent before the page has loaded are not modelled.

## Plan

1. `AuditLog`: record, retention and remediation of legacy rows between writers.
2. An abstract "each request settles once" that `MCPClient` implements, and
   `MCPClient` composed with `MCPServer` over a transport that drops and closes.
3. `RateLimiter` and `retry` as functions checked against reference definitions.
