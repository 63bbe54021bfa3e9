------------------------------ MODULE MCShared ------------------------------
(***************************************************************************)
(* The machines of the shared package and of Atlas that a run checks       *)
(* together.  They share no state here, so a behaviour is one machine's:   *)
(* `part' names it, or one of its instances, and never changes, and the    *)
(* others stay in their initial state.                                     *)
(***************************************************************************)
EXTENDS Naturals

CONSTANTS
  Calls, Connects, Disconnects,                   \* MCPClient
  MaxOutput, MaxLines,                            \* HealthProbe
  Servers, Seeds, Rounds, HealthClock, MaxRows,   \* AtlasHealth
  Submissions, Clients, Names, TokenSet, SubmissionMax, WindowMs, SubmitClock,
                                                  \* AtlasSubmissions
  Origins, Allowed, Trusted, Addresses, Public, MaxRedirects, MaxChunks,   \* SafeFetch
  None

VARIABLES
  part,
  isConnected, pending, timers, result, via, started, closed, delegate, dstate, pc, closing,
                                                                      \* MCPClient
  transport, probePc, messages, closedError, outputBytes, exited, woken, expired, caps,
  heard, child, sigkill, outcome,                                     \* HealthProbe
  present, verified, health, inserted, clock, roundPc, todo, listed, at, found, buried,
                                                                      \* AtlasHealth
  up, now, recent, pruned, admitted, submitPc, from, records, shown,  \* AtlasSubmissions
  dns, fetchPc, fetched, target, pinned, redirectCount, cameBy, method, body, credentials,
  timer, aborted, chunks, sent                                        \* SafeFetch

--------------------------------------------------------------------------
(* MCPClient: calls that overlap over connections that drop; calls that do *)
(* not.                                                                    *)

Overlapping == INSTANCE MCPClient WITH Serial <- FALSE, MayDrop <- TRUE
InTurn == INSTANCE MCPClient WITH Serial <- TRUE, MayDrop <- FALSE
clientVars == <<isConnected, pending, timers, result, via, started, closed, delegate, dstate,
                pc, closing>>
ClientParts == {"client", "serial"}

--------------------------------------------------------------------------
(* HealthProbe                                                             *)

Probe == INSTANCE HealthProbe WITH pc <- probePc
probeVars == <<transport, probePc, messages, closedError, outputBytes, exited, woken, expired,
               caps, heard, child, sigkill, outcome>>

--------------------------------------------------------------------------
(* AtlasHealth: rounds over the built-in servers while the clock goes on;  *)
(* rounds over servers that come and go, at one instant.                   *)

Health == INSTANCE AtlasHealth WITH pc <- roundPc, MaxClock <- HealthClock
RoundParts == {"rounds", "lists"}
RoundBounds ==
  /\ part = "rounds" => present' \subseteq Seeds
  /\ part = "lists" => clock' = 1 /\ inserted' <= 2
roundVars == <<present, verified, health, inserted, clock, roundPc, todo, listed, at, found,
               buried>>

--------------------------------------------------------------------------
(* AtlasSubmissions: the window over time, with rows that are alike; the   *)
(* rows of one instant, with every kind of payload.                        *)

Submit == INSTANCE AtlasSubmissions WITH
  clock <- now, pc <- submitPc, Requests <- Submissions, MaxClock <- SubmitClock
submitVars == <<up, now, recent, pruned, admitted, submitPc, from, records, shown>>
SubmitParts == {"window", "rows"}
SubmitBounds ==
  /\ part = "window" => \A q \in records' : q.transports = {"stdio"} /\ q.probe = None
  /\ part = "rows" => now' = 0

--------------------------------------------------------------------------
(* SafeFetch                                                               *)

Fetch == INSTANCE SafeFetch WITH pc <- fetchPc, result <- fetched, via <- cameBy
fetchVars == <<dns, fetchPc, fetched, target, pinned, redirectCount, cameBy, method, body,
               credentials, timer, aborted, chunks, sent>>

ASSUME SharedAssumption ==
  /\ Overlapping!ClientAssumption /\ InTurn!ClientAssumption /\ Probe!ProbeAssumption
  /\ Health!HealthAssumption /\ Submit!SubmissionsAssumption /\ Fetch!FetchAssumption

--------------------------------------------------------------------------

\* A machine whose part it is not begins in one of its initial states.
Init ==
  /\ part \in ClientParts \cup RoundParts \cup SubmitParts \cup {"probe", "fetch"}
  /\ Overlapping!Init /\ Probe!Init /\ Health!Init /\ Submit!Init /\ Fetch!Init
  /\ part # "probe" => transport = "http"
  /\ part \in RoundParts \/ verified = {}
  /\ part # "fetch" =>
       dns = Public /\ target = (CHOOSE o \in Origins : TRUE) /\ method = "GET" /\ ~credentials

ClientStep ==
  /\ \/ part = "client" /\ Overlapping!Next
     \/ part = "serial" /\ InTurn!Next
  /\ UNCHANGED <<part, probeVars, roundVars, submitVars, fetchVars>>

ProbeStep ==
  part = "probe" /\ Probe!Next /\ UNCHANGED <<part, clientVars, roundVars, submitVars, fetchVars>>

RoundStep ==
  /\ part \in RoundParts /\ Health!Next /\ RoundBounds
  /\ UNCHANGED <<part, clientVars, probeVars, submitVars, fetchVars>>

SubmitStep ==
  /\ part \in SubmitParts /\ Submit!Next /\ SubmitBounds
  /\ UNCHANGED <<part, clientVars, probeVars, roundVars, fetchVars>>

FetchStep ==
  part = "fetch" /\ Fetch!Next /\ UNCHANGED <<part, clientVars, probeVars, roundVars, submitVars>>

Next == ClientStep \/ ProbeStep \/ RoundStep \/ SubmitStep \/ FetchStep

vars == <<part, clientVars, probeVars, roundVars, submitVars, fetchVars>>

Spec == Init /\ [][Next]_vars

--------------------------------------------------------------------------
(* Properties: each is that of its modules, for every part.                *)

\* However timers, answers, failing sends and closes race, a promise that is
\* not settled has its entry and its timer; and a client whose application
\* calls in turn has a live connection when it counts as connected
\* (MCPClient.ts, http.ts).
ClientPromises ==
  /\ part \in ClientParts => Overlapping!TypeOK /\ Overlapping!EntryPerWaiter
  /\ part = "serial" => InTurn!ConnectedMeansOpen

\* An outcome is final, an answer comes over the connection that was asked,
\* and a connection that closes leaves nobody waiting; and a check that ends
\* late hides no later one (MCPClient.ts; HealthMonitor.ts, ServerStore.ts).
SharedSteps ==
  [][/\ part \in ClientParts => /\ Overlapping!OutcomeStays
                                /\ Overlapping!AnswerComesBack /\ Overlapping!CloseEndsWaits
     /\ part \in RoundParts => Health!LateRowHidesNothing]_vars

\* A verdict is earned: ready by a handshake that was completed, reachable by
\* something heard, whatever the order of answers, exit, output limit and
\* deadline (HealthMonitor.ts).
VerdictIsEarned ==
  part = "probe" => /\ Probe!TypeOK /\ Probe!ReadyIsEarned /\ Probe!HandshakeMeansReachable
                    /\ Probe!ReachableSpoke

\* What is on record of a server's health is consistent although rounds
\* overlap and servers are deleted under them (HealthMonitor.ts,
\* ServerStore.ts).
HealthTellsTheServer ==
  part \in RoundParts => /\ Health!TypeOK /\ Health!FailureKnowsSuccess
                         /\ Health!OrphansWereInFlight /\ Health!RoundCovers

\* The registry lets through no more submissions than its window allows and
\* forgets who has gone; each that was answered 201 is a row, with a probe that
\* fits its server and that no view shows (RegistryServer.ts).
SubmissionsAdmitted ==
  part \in SubmitParts => /\ Submit!TypeOK /\ Submit!RateBounded
                          /\ Submit!StaleAddressesForgotten /\ Submit!OneRecordEach
                          /\ Submit!ProbeMatchesTransport /\ Submit!ProbesStayInside

\* Over all hops of a call, with names rebound at any time: connections go to
\* reviewed addresses only, credentials stay at the first origin, a body goes to
\* another one only on a 301 or 302 that keeps its method, and redirects are
\* bounded (safeFetch.ts).
FetchStaysInPolicy ==
  part = "fetch" => /\ Fetch!TypeOK /\ Fetch!OnlyReviewedAddresses /\ Fetch!CredentialsStayHome
                    /\ Fetch!RedirectsBounded /\ Fetch!BodyForwarding
=============================================================================
