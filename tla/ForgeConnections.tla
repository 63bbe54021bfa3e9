---------------------------- MODULE ForgeConnections ----------------------------
(***************************************************************************)
(* forge/src/connections/ConnectionManager.ts and HealthChecker.ts, for    *)
(* one server: steps and health checks share the client of the pool, which *)
(* getClient() looks up, opens and stores in three moments.                *)
(***************************************************************************)
EXTENDS Naturals, Sequences, FiniteSets

CONSTANTS Callers, Rounds, None   \* callers of getClient(); rounds of checkAll() among them

ConnectionsAssumption == Rounds \subseteq Callers /\ None \notin Callers

VARIABLES
  stdio,            \* the transport of the server
  caller,           \* per caller: [pc, got]
  connected, alive, \* clients that are connected, processes that run, named by who opened them
  pool, processes,  \* the maps, at the server's name
  shutdown,         \* no, disconnecting, done
  status,           \* of the health checker: [isHealthy, consecutiveFailures]
  results, events   \* history: the last results of the checks; the last event

vars == <<stdio, caller, connected, alive, pool, processes, shutdown, status, results, events>>
healthVars == <<status, results, events>>

Init ==
  /\ stdio \in BOOLEAN
  /\ caller = [c \in Callers |-> [pc |-> "idle", got |-> None]]
  /\ connected = {} /\ alive = {}
  /\ pool = None /\ processes = None /\ shutdown = "no"
  /\ status = [isHealthy |-> TRUE, consecutiveFailures |-> 0]
  /\ results = <<>> /\ events = "recovered"

--------------------------------------------------------------------------
(* ConnectionManager                                                       *)

\* The client of the pool, or a new one; a process is registered at once.
GetClient(c) ==
  /\ caller[c].pc = "idle"
  /\ IF pool # None
       THEN /\ caller' = [caller EXCEPT ![c] = [pc |-> "has", got |-> pool]]
            /\ UNCHANGED <<alive, processes>>
       ELSE /\ caller' = [caller EXCEPT ![c].pc = "connecting"]
            /\ IF stdio THEN alive' = alive \cup {c} /\ processes' = c
               ELSE UNCHANGED <<alive, processes>>
  /\ UNCHANGED <<stdio, connected, pool, shutdown, healthVars>>

Connected(c) ==
  /\ caller[c].pc = "connecting" /\ (stdio => c \in alive)
  /\ connected' = connected \cup {c}
  /\ pool' = c
  /\ caller' = [caller EXCEPT ![c] = [pc |-> "has", got |-> c]]
  /\ UNCHANGED <<stdio, alive, processes, shutdown, healthVars>>

\* connect() throws, and a step's caller has failed.
ConnectFails(c) ==
  /\ caller[c].pc = "connecting" /\ c \notin Rounds
  /\ caller' = [caller EXCEPT ![c].pc = "failed"]
  /\ UNCHANGED <<stdio, connected, alive, pool, processes, shutdown, healthVars>>

\* The step is over; its client stays in the pool (releaseClient).
ReleaseClient(c) ==
  /\ caller[c].pc = "has" /\ c \notin Rounds
  /\ caller' = [caller EXCEPT ![c] = [pc |-> "idle", got |-> None]]
  /\ UNCHANGED <<stdio, connected, alive, pool, processes, shutdown, healthVars>>

\* Disconnects what the pool holds, then kills what the map holds, and clears.
Shutdown ==
  \/ /\ shutdown = "no" /\ shutdown' = "disconnecting"
     /\ connected' = connected \ {pool}
     /\ UNCHANGED <<stdio, caller, alive, pool, processes, healthVars>>
  \/ /\ shutdown = "disconnecting" /\ shutdown' = "done"
     /\ alive' = alive \ {processes} /\ pool' = None /\ processes' = None
     /\ UNCHANGED <<stdio, caller, connected, healthVars>>

--------------------------------------------------------------------------
(* HealthChecker                                                           *)

Succeeds == [isHealthy |-> TRUE, consecutiveFailures |-> 0]

\* The count is capped here at 3: beyond it nothing changes.
Fails ==
  LET n == IF status.consecutiveFailures < 3 THEN status.consecutiveFailures + 1 ELSE 3
  IN  [isHealthy |-> status.isHealthy /\ n < 3, consecutiveFailures |-> n]

\* checkServer() of a round has its client and pings, or has none; rounds that
\* overlap share the status.
Check(c, ok) ==
  /\ c \in Rounds
  /\ IF ok THEN caller[c].pc = "has" ELSE caller[c].pc \in {"has", "connecting"}
  /\ LET next == IF ok THEN Succeeds ELSE Fails
     IN  /\ status' = next
         /\ events' = IF next.isHealthy = status.isHealthy THEN events
                      ELSE IF next.isHealthy THEN "recovered" ELSE "unhealthy"
  /\ results' = LET all == Append(results, ok) IN IF Len(all) > 3 THEN Tail(all) ELSE all
  /\ caller' = [caller EXCEPT ![c] = [pc |-> "idle", got |-> None]]
  /\ UNCHANGED <<stdio, connected, alive, pool, processes, shutdown>>

Next ==
  \/ \E c \in Callers : \/ GetClient(c) \/ Connected(c) \/ ConnectFails(c) \/ ReleaseClient(c)
                        \/ \E ok \in BOOLEAN : Check(c, ok)
  \/ Shutdown

Spec == Init /\ [][Next]_vars

--------------------------------------------------------------------------
(* Properties                                                              *)

TypeOK ==
  /\ connected \subseteq Callers /\ alive \subseteq Callers
  /\ pool \in Callers \cup {None} /\ processes \in Callers \cup {None}
  /\ status.consecutiveFailures \in 0..3
  /\ status.isHealthy <=> status.consecutiveFailures < 3
  /\ \A c \in Callers : caller[c].pc = "has" <=> caller[c].got # None

\* As long as nobody shuts the connections down, what getClient() hands out
\* has shaken hands, with callers that race for the same server (lines 10-14,
\* 80).  That its server may have died since, the manager never learns.
HandedOutIsConnected ==
  shutdown = "no" => \A c \in Callers : caller[c].got # None => caller[c].got \in connected

\* A server is told unhealthy after three failures with no success between
\* them, healthy again after a success, in turns, although rounds that take
\* longer than the interval overlap (checkServer).
EventFollowsResult ==
  events' # events =>
    IF events' = "unhealthy" THEN results' = <<FALSE, FALSE, FALSE>>
    ELSE results'[Len(results')]
EventsFollowResults == [][EventFollowsResult]_vars

\* connection-manager.test.ts: the manager "shuts everything down".
ShutdownLeavesNothing == shutdown = "done" => connected = {} /\ alive = {}
=============================================================================
