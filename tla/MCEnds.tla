------------------------------- MODULE MCEnds -------------------------------
(***************************************************************************)
(* What must come to an end, under the fairness of each module: requests,  *)
(* probes, rounds, runs, clicks.  The machines share no state, so a        *)
(* behaviour is one machine's: `part' names it and never changes, and the  *)
(* others stay in their initial state.                                     *)
(***************************************************************************)
EXTENDS Naturals, TLC

CONSTANTS
  c1, k1, q1,         \* a request, a connect, a disconnect
  s1, s2, m1,         \* servers, a round of checks
  home, other, pub,        \* origins and addresses
  w1, w2,             \* sockets
  o1, o2,             \* clicks in the lab
  r1, r2,             \* requests to Composer
  None

VARIABLES
  part,
  isConnected, pending, timers, result, via, started, closed, delegate, dstate, pc, closing,
                                                                             \* MCPClient
  transport, probePc, messages, closedError, outputBytes, exited, woken, expired, caps,
  heard, child, sigkill, outcome,                                            \* HealthProbe
  present, verified, health, inserted, clock, roundPc, left, listed, at, found, buried,
                                                                             \* AtlasHealth
  dns, fetchPc, fetched, target, pinned, redirectCount, cameBy, method, body, credentials,
  timer, aborted, chunks, sent,                                              \* SafeFetch
  options, hub, now, conn, messageLog, accepted,                             \* ForgeHub
  runPhase, rows, run, task, bus, exec,                                      \* ForgeRuns
  deps, registry, seen, releasePc, runs, stack, artifact, order, plan, attempt, report,  \* NpmRelease
  activeClient, activeProcess, activeSession, client, process, status, info, catalog,
  taskPc, kind, chosen, ready, closer, record,                               \* LabSession
  phase, conns, clients, add, changes, initialized, req                      \* Composer

clientVars == <<isConnected, pending, timers, result, via, started, closed, delegate, dstate,
                pc, closing>>
probeVars == <<transport, probePc, messages, closedError, outputBytes, exited, woken, expired,
               caps, heard, child, sigkill, outcome>>
roundVars == <<present, verified, health, inserted, clock, roundPc, left, listed, at, found,
               buried>>
fetchVars == <<dns, fetchPc, fetched, target, pinned, redirectCount, cameBy, method, body,
               credentials, timer, aborted, chunks, sent>>
hubVars == <<options, hub, now, conn, messageLog, accepted>>
runVars == <<runPhase, rows, run, task, bus, exec>>
releaseVars == <<deps, registry, seen, releasePc, runs, stack, artifact, order, plan, attempt, report>>
labVars == <<activeClient, activeProcess, activeSession, client, process, status, info, catalog,
             taskPc, kind, chosen, ready, closer, record>>
composerVars == <<phase, conns, clients, add, changes, initialized, req>>

--------------------------------------------------------------------------

Client == INSTANCE MCPClient WITH
  Calls <- {c1}, Connects <- {k1}, Disconnects <- {q1}, Serial <- FALSE, MayDrop <- TRUE

\* One line at a time.
Probe == INSTANCE HealthProbe WITH pc <- probePc, MaxOutput <- 1, MaxLines <- 2

Round == INSTANCE AtlasHealth WITH
  pc <- roundPc, todo <- left, Servers <- {s1, s2}, Seeds <- {s1}, Rounds <- {m1},
  MaxClock <- 1, MaxRows <- 2

\* A server that stalls, before or after a redirect.
Fetch == INSTANCE SafeFetch WITH
  pc <- fetchPc, result <- fetched, via <- cameBy, Origins <- {home, other},
  Allowed <- {home, other}, Trusted <- {other}, Addresses <- {pub}, Public <- {pub},
  MaxRedirects <- 1, MaxChunks <- 1

\* A peer that vanishes while another one talks.
Hub == INSTANCE ForgeHub WITH
  Sockets <- {w1, w2}, Tokens <- {"full"}, IdOf <- [full |-> "ann"],
  Scopes <- [full |-> {"events:read"}], ExpiresAt <- [full |-> 9],
  Categories <- {"runs"}, MaxTime <- 2,
  OptionSets <- {[allowedCategories |-> {}, maxConnections |-> 2, maxConnectionsPerPrincipal |-> 2,
                  maxSubscriptions |-> 1, maxQueue |-> 1, maxMessages |-> 1, window |-> 1,
                  idleTimeout |-> 1]}

\* A condition, a parallel group with a retried step, and a last step.
Engine == INSTANCE ForgeRuns WITH
  phase <- runPhase, Runs <- {"r"}, Groups <- [r |-> << <<"if">>, <<"a", "b">>, <<"c">> >>],
  Kind <- ("if" :> "condition") @@ ("a" :> "tool") @@ ("b" :> "tool") @@ ("c" :> "local"),
  MaxAttempts <- ("a" :> 2) @@ [s \in {"if", "b", "c"} |-> 1],
  Items <- 2, Children <- 2, Branches <- {"a", "c"},
  Variables <- {"x"}, As <- <<>>, ChildOutputAs <- <<>>,
  OutputAs <- ("a" :> "x") @@ [s \in {"if", "b", "c"} |-> None]

Tarball(p, b) == [pkg |-> p, build |-> b, fault |-> "none"]
Release == INSTANCE NpmRelease WITH
  pc <- releasePc, Packages <- 1..2, Graphs <- {<<{2}, {}>>, <<{2}, {1}>>},
  Directories <- {{Tarball(1, b), Tarball(2, c)} : b \in 1..2, c \in 1..2},
  Attempts <- 2, MaxRuns <- 2

\* Clicks that overlap.
Lab == INSTANCE LabSession WITH
  pc <- taskPc, target <- chosen, Ops <- {o1, o2}, Calls <- {}, Serial <- FALSE

\* A change of the backends while they serve.
Composer == INSTANCE Composer WITH
  Requests <- {r1, r2}, Transports <- {"stdio", "http"},
  Servers <- <<[name |-> <<"a">>, transport |-> "stdio"], [name |-> <<"b">>, transport |-> "http"]>>,
  Tools <- (<<"a">> :> {<<"t">>}) @@ (<<"b">> :> {<<"t">>}),
  MaxConns <- 3, MaxChanges <- 1

ASSUME EndsAssumption ==
  /\ Client!ClientAssumption /\ Probe!ProbeAssumption /\ Round!HealthAssumption
  /\ Fetch!FetchAssumption /\ Hub!HubAssumption /\ Engine!RunsAssumption
  /\ Release!ReleaseAssumption /\ Lab!LabAssumption /\ Composer!ComposerAssumption

--------------------------------------------------------------------------

Init ==
  /\ part \in {"client", "probe", "round", "fetch", "hub", "engine", "release", "lab", "composer"}
  /\ Client!Init /\ Hub!Init /\ Engine!Init /\ Lab!Init /\ Composer!Init
  /\ Probe!Init /\ (part # "probe" => transport = "http")
  /\ Round!Init /\ (part # "round" => verified = {})
  /\ Fetch!Init
  /\ part # "fetch" => dns = {pub} /\ target = home /\ method = "GET" /\ ~credentials
  /\ Release!Init /\ (part # "release" => deps = <<{2}, {}>>)

OnlyClient ==
  /\ part = "client"
  /\ UNCHANGED <<part, probeVars, roundVars, fetchVars, hubVars, runVars, releaseVars,
                 labVars, composerVars>>

OnlyProbe ==
  /\ part = "probe"
  /\ UNCHANGED <<part, clientVars, roundVars, fetchVars, hubVars, runVars, releaseVars,
                 labVars, composerVars>>

OnlyRound ==
  /\ part = "round"
  /\ UNCHANGED <<part, clientVars, probeVars, fetchVars, hubVars, runVars, releaseVars,
                 labVars, composerVars>>

OnlyFetch ==
  /\ part = "fetch"
  /\ UNCHANGED <<part, clientVars, probeVars, roundVars, hubVars, runVars, releaseVars,
                 labVars, composerVars>>

OnlyHub ==
  /\ part = "hub"
  /\ UNCHANGED <<part, clientVars, probeVars, roundVars, fetchVars, runVars, releaseVars,
                 labVars, composerVars>>

OnlyEngine ==
  /\ part = "engine"
  /\ UNCHANGED <<part, clientVars, probeVars, roundVars, fetchVars, hubVars, releaseVars,
                 labVars, composerVars>>

OnlyRelease ==
  /\ part = "release"
  /\ UNCHANGED <<part, clientVars, probeVars, roundVars, fetchVars, hubVars, runVars,
                 labVars, composerVars>>

OnlyLab ==
  /\ part = "lab"
  /\ UNCHANGED <<part, clientVars, probeVars, roundVars, fetchVars, hubVars, runVars,
                 releaseVars, composerVars>>

OnlyComposer ==
  /\ part = "composer"
  /\ UNCHANGED <<part, clientVars, probeVars, roundVars, fetchVars, hubVars, runVars,
                 releaseVars, labVars>>

Next ==
  \/ OnlyClient /\ Client!Next
  \/ OnlyProbe /\ Probe!Next
  \/ OnlyRound /\ Round!Next
  \/ OnlyFetch /\ Fetch!Next
  \/ OnlyHub /\ Hub!Next
  \/ OnlyEngine /\ Engine!Next
  \/ OnlyRelease /\ Release!Next
  \/ OnlyLab /\ Lab!Next
  \/ OnlyComposer /\ Composer!Next

vars == <<part, clientVars, probeVars, roundVars, fetchVars, hubVars, runVars, releaseVars,
          labVars, composerVars>>

--------------------------------------------------------------------------
(* Fairness.  One machine moves in a behaviour, so weak fairness, for each *)
(* i, of the i-th action of whichever it is, is the Fairness of its module *)
(* for that machine, and asks nothing of the others.                       *)

Slot ==
  (c1 :> 1) @@ (k1 :> 2) @@ (w1 :> 2) @@ (w2 :> 3) @@ (o1 :> 2) @@ (o2 :> 3)
  @@ (r1 :> 1) @@ (r2 :> 2) @@ ("a" :> 2) @@ ("b" :> 3)

ClientFair(i) ==
  \/ \E r \in {c1, k1} : i = Slot[r] /\ Client!Timeout(r)
  \/ i = 3 /\ Client!ConnectTimesOut(k1)
  \/ i = 4 /\ (Client!Opened(k1) \/ Client!HandshakeFails(k1) \/ Client!Handshake(k1)
               \/ Client!Reject(k1))

ProbeFair(i) ==
  \/ i = 1 /\ (Probe!Refuse \/ Probe!Start \/ Probe!HttpAnswer \/ Probe!HttpFails
               \/ Probe!HttpNotified \/ Probe!Resume)
  \/ i = 2 /\ Probe!Deadline
  \/ i = 3 /\ Probe!KillTimer
  \/ i = 4 /\ ((Probe!ChildEnds /\ child = "killed") \/ \E code \in {0, 1} : Probe!OnExit(code))

FetchFair(i) ==
  \/ i = 1 /\ (Fetch!Resolve \/ Fetch!Send)
  \/ i = 2 /\ Fetch!Timeout
  \/ i = 3 /\ Fetch!Abort

HubFair(i) ==
  \/ i = 1 /\ Hub!CheckLiveness
  \/ \E w \in {w1, w2} : i = Slot[w] /\ Hub!Closed(w)

EngineFair(i) ==
  \/ i = 1 /\ (Engine!Execute("r") \/ Engine!Step("r", "if") \/ Engine!Step("r", "c"))
  \/ \E s \in {"a", "b"} : i = Slot[s] /\ Engine!Step("r", s)

LabFair(i) ==
  \/ i = 1 /\ Lab!Resumes
  \/ \E o \in {o1, o2} :
       i = Slot[o] /\ (Lab!CloseEnds(o) \/ Lab!ConnectEnds(o) \/ Lab!ListEnds(o))

Fair(i) ==
  \/ OnlyClient /\ ClientFair(i)
  \/ OnlyProbe /\ ProbeFair(i)
  \/ OnlyRound /\ i = 1 /\ Round!RoundStep(m1)
  \/ OnlyFetch /\ FetchFair(i)
  \/ OnlyHub /\ HubFair(i)
  \/ OnlyEngine /\ EngineFair(i)
  \/ OnlyRelease /\ i = 1 /\ Release!Run
  \/ OnlyLab /\ LabFair(i)
  \/ OnlyComposer /\ \E r \in {r1, r2} : i = Slot[r] /\ Composer!Handle(r)

Fairness == \A i \in 1..4 : WF_vars(Fair(i))

Spec == Init /\ [][Next]_vars /\ Fairness

--------------------------------------------------------------------------
(* Properties: each is that of its machines' modules.  What is settled once *)
(* stays so, so a moment when nothing pends comes, again and again.        *)

\* A request is settled, a handshake left, a call of the lab's or Composer's
\* user answered, although the peer never says a word, connections drop and
\* clicks and changes of the backends overlap (MCPClient.ts, handlers.ts,
\* ToolProxy.ts).
NobodyWaits ==
  CASE part = "client" -> Client!NobodyWaits
    [] part = "lab" -> Lab!NothingPends
    [] part = "composer" -> Composer!NobodyWaits
    [] OTHER -> TRUE
RequestsEnd == []<>NobodyWaits

\* A probe comes to a verdict and leaves no process, a round to its end, a
\* fetch to an answer or an error, and a peer that vanished loses its socket
\* (HealthMonitor.ts, safeFetch.ts, WebSocketHub.ts).
NothingLingers(w) ==
  CASE part = "probe" -> Probe!AllOver
    [] part = "round" -> Round!NoRoundRuns
    [] part = "fetch" -> fetchPc = "ended"
    [] part = "hub" -> Hub!NoGhost(w)
    [] OTHER -> TRUE
ProbesEnd == \A w \in {w1, w2} : []<>NothingLingers(w)

\* A run of a pipeline and a run of the release workflow end, although steps
\* fail and the registry may never show what it took (Executor.ts,
\* publish-npm-artifacts.mjs).
NothingRuns ==
  CASE part = "engine" -> Engine!NothingRuns
    [] part = "release" -> Release!NothingRuns
    [] OTHER -> TRUE
WorkEnds == []<>NothingRuns
=============================================================================
