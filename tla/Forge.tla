-------------------------------- MODULE Forge --------------------------------
(***************************************************************************)
(* The machines of Forge side by side.  They share no state, so a          *)
(* behaviour is one machine's: `part' names it and never changes, the      *)
(* others stay in their initial state.  The hub and the engine have a part *)
(* for each of their cases.                                                *)
(***************************************************************************)
EXTENDS Naturals, FiniteSets

CONSTANTS
  Sockets, HubTokens, IdOf, HubScopes, HubExpiresAt, Categories, HubClock,
  HubCases,        \* per part of the hub: its options, and bounds: [options, tokens, time]
  Runs, Groups, Kind, MaxAttempts, Items, Children, Branches,   \* ForgeRuns
  Variables, As, OutputAs, ChildOutputAs,
  RunCases,        \* per part of the engine: bound: the runs that start in it
  Callers, Rounds, \* of the pool and the manager; rounds of checks among them
  Clients, PoolSize, MaxSweeps,                                 \* ForgePool
  Ips, ApiTokens, Strange, ApiScopes, ApiExpiresAt, MaxRequests, ApiWindow,
  Pipelines, RunIds, SharedStore, ApiClock,                     \* ForgeApi
  None

VARIABLES
  part,
  options, hub, hubNow, conn, messageLog, accepted,            \* ForgeHub
  phase, rows, run, task, bus, exec,                           \* ForgeRuns
  arrays, entry, borrower, down,                               \* ForgePool
  stdio, getter, connected, alive, pool, processes, shutdown,
  status, results, events,                                     \* ForgeConnections
  apiNow, requestLog, admitted, saved, runs, listed, running, answered   \* ForgeApi

HubParts == DOMAIN HubCases
RunParts == DOMAIN RunCases

--------------------------------------------------------------------------

Hub == INSTANCE ForgeHub WITH
  now <- hubNow, Tokens <- HubTokens, Scopes <- HubScopes, ExpiresAt <- HubExpiresAt,
  OptionSets <- {HubCases[c].options : c \in HubParts}, MaxTime <- HubClock
hubVars == <<options, hub, hubNow, conn, messageLog, accepted>>
HubBounds ==
  /\ hubNow' <= HubCases[part].time
  /\ \A s \in Sockets : conn'[s].mapped => conn'[s].token \in HubCases[part].tokens

Engine == INSTANCE ForgeRuns
runVars == <<phase, rows, run, task, bus, exec>>
RunBounds == \A r \in Runs \ RunCases[part] : rows'[r] = "none"

Pool == INSTANCE ForgePool WITH caller <- borrower, MaxSize <- PoolSize
poolVars == <<arrays, entry, borrower, down>>

Manager == INSTANCE ForgeConnections WITH caller <- getter
managerVars ==
  <<stdio, getter, connected, alive, pool, processes, shutdown, status, results, events>>

Api == INSTANCE ForgeApi WITH
  now <- apiNow, accepted <- admitted, Tokens <- ApiTokens, Scopes <- ApiScopes,
  ExpiresAt <- ApiExpiresAt, Window <- ApiWindow, MaxTime <- ApiClock
apiVars == <<apiNow, requestLog, admitted, saved, runs, listed, running, answered>>

ASSUME ForgeAssumption ==
  /\ Hub!HubAssumption /\ Engine!RunsAssumption /\ Pool!PoolAssumption
  /\ Manager!ConnectionsAssumption /\ Api!ApiAssumption

--------------------------------------------------------------------------

Init ==
  /\ part \in HubParts \cup RunParts \cup {"pool", "manager", "api"}
  /\ Hub!Init /\ Engine!Init /\ Pool!Init /\ Manager!Init /\ Api!Init
  /\ options = HubCases[IF part \in HubParts THEN part ELSE CHOOSE c \in HubParts : TRUE].options
  /\ part # "manager" => stdio

HubStep ==
  /\ part \in HubParts /\ Hub!Next /\ HubBounds
  /\ UNCHANGED <<part, runVars, poolVars, managerVars, apiVars>>

RunStep ==
  /\ part \in RunParts /\ Engine!Next /\ RunBounds
  /\ UNCHANGED <<part, hubVars, poolVars, managerVars, apiVars>>

PoolStep == part = "pool" /\ Pool!Next /\ UNCHANGED <<part, hubVars, runVars, managerVars, apiVars>>

ManagerStep ==
  part = "manager" /\ Manager!Next /\ UNCHANGED <<part, hubVars, runVars, poolVars, apiVars>>

ApiStep == part = "api" /\ Api!Next /\ UNCHANGED <<part, hubVars, runVars, poolVars, managerVars>>

Next == HubStep \/ RunStep \/ PoolStep \/ ManagerStep \/ ApiStep

vars == <<part, hubVars, runVars, poolVars, managerVars, apiVars>>

Spec == Init /\ [][Next]_vars

--------------------------------------------------------------------------
(* Properties: each is that of its modules, for every part.                *)

\* The limits of the event channel and of the API hold, over several tokens,
\* sockets and reconnects of one principal: connections, subscriptions,
\* messages and requests; a closed hub leaves no socket open, and strangers
\* leave no trace in the log (WebSocketHub.ts, ApiServer.ts).
HubLimitsHold ==
  /\ part \in HubParts => /\ Hub!TypeOK /\ Hub!ConnectionsBounded /\ Hub!SubscriptionsWithinScope
                          /\ Hub!MessagesBounded /\ Hub!NothingOutlivesTheHub
  /\ part = "api" => Api!TypeOK /\ Api!RequestsBounded /\ Api!StrangersAreNotLogged

\* With retries, late answers, siblings that run on, stops, crashes and other
\* runs: steps start in order, an ended run is recorded, a server is called no
\* more often than allowed, and a child of a loop sees its own item where nothing
\* beside the loop sets the loop's variable (Executor.ts, ForgeEngine.ts, the
\* nodes).
RunsKeepOrder ==
  part \in RunParts => /\ Engine!TypeOK /\ Engine!StepsInOrder /\ Engine!EndedRunsAreRecorded
                       /\ Engine!InvocationsBounded /\ Engine!ChildrenSeeTheirItem

\* A pooled connection is in the hands of one caller and connected while it
\* is, whatever acquires, releases and sweeps overlap; and what the manager
\* hands out has shaken hands (ServerPool.ts, ConnectionManager.ts).
ConnectionsExclusive ==
  /\ part = "pool" => Pool!TypeOK /\ Pool!ExclusiveUse /\ Pool!HeldIsConnected
  /\ part = "manager" => Manager!TypeOK /\ Manager!HandedOutIsConnected

\* No step rewrites the record of an ended run, and a server's health is told
\* to have changed only by the results that changed it (ForgeRuns'
\* RecordsAreFinal, ForgeConnections' EventsFollowResults).
ForgeSteps ==
  [][/\ part \in RunParts => Engine!RecordStays
     /\ part = "manager" => Manager!EventFollowsResult]_vars

\* cli.ts, line 20: `--dry-run', "simulate execution without calling tools".
DryRunCallsNothing == part \in RunParts => Engine!DryRunCallsNothing
=============================================================================
