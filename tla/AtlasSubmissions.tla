--------------------------- MODULE AtlasSubmissions ---------------------------
(***************************************************************************)
(* atlas/src/registry/RegistryServer.ts: POST /api/submissions from the    *)
(* token check to the row in the registry, the sliding window kept per     *)
(* client address, and the public views of the records.                    *)
(*                                                                         *)
(* A payload is what the validation tells apart: required fields, the      *)
(* transports it lists (None: left out), and its probe configuration.  An  *)
(* error that handleSubmission does not know is thrown again out of an     *)
(* event handler (`void this.handle`), which ends the process.             *)
(***************************************************************************)
EXTENDS Naturals, FiniteSets

CONSTANTS
  Requests, Clients, Names, None,
  TokenSet,              \* a submission token is configured
  SubmissionMax, WindowMs,         \* submissionRateLimit
  MaxClock               \* bound: milliseconds

SubmissionsAssumption ==
  /\ IsFiniteSet(Requests) /\ TokenSet \in BOOLEAN
  /\ SubmissionMax \in Nat \ {0} /\ WindowMs \in Nat /\ MaxClock \in Nat

VARIABLES
  up, clock,
  recent,        \* submissionRequests: per client, which request came when; absent when empty
  pruned,        \* start of the window at the last submission
  admitted,      \* history: per client, every submission let through since the start
  pc, from,      \* per request: where it stands or its status code; its client
  records,       \* rows: [id, transports, probe]
  shown          \* what clients were sent: <<how, record>>

vars == <<up, clock, recent, pruned, admitted, pc, from, records, shown>>

Transports == {"stdio", "http"}
\* limits and mapping stand for every check of validateHttp/StdioHealthConfig.
Probes == {None} \cup [transport : Transports, sound : BOOLEAN]
Payloads ==
  [required : BOOLEAN, transports : {None} \cup (SUBSET Transports \ {{}}), probe : Probes]
Codes == {"created", "badRequest", "unauthorized", "tooLarge", "limited", "unavailable"}

Init ==
  /\ up = TRUE /\ clock = 0
  /\ recent = [c \in Clients |-> {}] /\ pruned = 0 /\ admitted = recent
  /\ pc = [r \in Requests |-> "new"] /\ from = [r \in Requests |-> None]
  /\ records = {} /\ shown = {}

Tick ==
  /\ clock < MaxClock /\ clock' = clock + 1
  /\ UNCHANGED <<up, recent, pruned, admitted, pc, from, records, shown>>

--------------------------------------------------------------------------
(* The window                                                              *)

WindowStart == IF clock < WindowMs THEN 0 ELSE clock - WindowMs

\* pruneSubmissionRequests, then the filter of this client.
Pruned == [k \in Clients |-> {x \in recent[k] : x.at >= WindowStart}]

Stamp(r) == [request |-> r, at |-> clock]

\* Variant with a bug: the limit is compared after the timestamp was added.
AllowsOneMore(n) == n <= SubmissionMax

Allows(n) == n < SubmissionMax

Arrive(r) ==
  /\ up /\ pc[r] = "new"
  /\ \E c \in Clients, authorized \in BOOLEAN :
       /\ from' = [from EXCEPT ![r] = c]
       /\ IF ~(TokenSet /\ authorized)
            THEN /\ pc' = [pc EXCEPT ![r] = IF TokenSet THEN "unauthorized" ELSE "unavailable"]
                 /\ UNCHANGED <<recent, pruned, admitted>>
            ELSE /\ pruned' = WindowStart
                 /\ IF Allows(Cardinality(Pruned[c]))
                      THEN /\ recent' = [Pruned EXCEPT ![c] = @ \cup {Stamp(r)}]
                           /\ admitted' = [admitted EXCEPT ![c] = @ \cup {Stamp(r)}]
                           /\ pc' = [pc EXCEPT ![r] = "reading"]
                      ELSE /\ recent' = Pruned
                           /\ pc' = [pc EXCEPT ![r] = "limited"]
                           /\ UNCHANGED admitted
  /\ UNCHANGED <<up, clock, records, shown>>

--------------------------------------------------------------------------
(* The body                                                                *)

Default(transports) == IF transports = None THEN {"stdio"} ELSE transports

\* validateSubmission.
Valid(p) ==
  /\ p.required
  /\ p.probe # None => p.probe.sound /\ p.probe.transport \in Default(p.transports)

\* toPublicRecord.
ToPublicRecord(record) == [record EXCEPT !.probe = None]

\* An error nobody handles: the process ends, and with it what is in memory.
Crash ==
  /\ up' = FALSE
  /\ recent' = [c \in Clients |-> {}] /\ pruned' = 0 /\ admitted' = recent'
  /\ pc' = [r \in Requests |-> IF pc[r] = "reading" THEN "lost" ELSE pc[r]]
  /\ UNCHANGED <<clock, from, records, shown>>

\* add(): the id is the name and the time; two in one millisecond collide and
\* the INSERT throws.
Insert(r, record) ==
  IF \E q \in records : q.id = record.id THEN Crash
  ELSE /\ records' = records \cup {record}
       /\ shown' = shown \cup {<<"created", ToPublicRecord(record)>>}
       /\ pc' = [pc EXCEPT ![r] = "created"]
       /\ UNCHANGED <<up, clock, recent, pruned, admitted, from>>

\* The body was too large, not JSON, or not a submission.
RefuseBody(r) ==
  /\ up /\ pc[r] = "reading"
  /\ \E code \in {"tooLarge", "badRequest"} : pc' = [pc EXCEPT ![r] = code]
  /\ UNCHANGED <<up, clock, recent, pruned, admitted, from, records, shown>>

Submit(r) ==
  /\ up /\ pc[r] = "reading"
  /\ \E name \in Names, p \in {q \in Payloads : Valid(q)} :
       Insert(r, [id |-> <<name, clock>>, transports |-> Default(p.transports), probe |-> p.probe])

\* The client goes away before its body is complete.
BodyAborted(r) == up /\ pc[r] = "reading" /\ Crash

\* GET /api/servers, /api/trending and /api/servers/:id.
Browse ==
  /\ up
  /\ \E seen \in SUBSET records : shown' = shown \cup {<<"listed", ToPublicRecord(q)>> : q \in seen}
  /\ UNCHANGED <<up, clock, recent, pruned, admitted, pc, from, records>>

Restart ==
  /\ ~up /\ up' = TRUE
  /\ UNCHANGED <<clock, recent, pruned, admitted, pc, from, records, shown>>

Next ==
  \/ Tick \/ Browse \/ Restart
  \/ \E r \in Requests : Arrive(r) \/ RefuseBody(r) \/ Submit(r) \/ BodyAborted(r)

Spec == Init /\ [][Next]_vars

--------------------------------------------------------------------------

\* The server and its requests are well formed.
TypeOK ==
  /\ up \in BOOLEAN /\ clock \in 0..MaxClock
  /\ {recent, admitted} \subseteq [Clients -> SUBSET [request : Requests, at : 0..clock]]
  /\ pc \in [Requests -> {"new", "reading", "lost"} \cup Codes]
  /\ from \in [Requests -> Clients \cup {None}]
  /\ \A q \in records : q.transports \subseteq Transports /\ q.probe \in Probes

\* Since the process started, no client was let through more than SubmissionMax times in
\* any stretch of WindowMs, however the requests of the clients mix.
RateBounded ==
  \A c \in Clients : \A x \in admitted[c] :
    Cardinality({y \in admitted[c] : y.at \in x.at..(x.at + WindowMs)}) <= SubmissionMax

\* The map of addresses does not grow with clients that have gone: after each
\* submission it holds no address whose timestamps have all left the window.
StaleAddressesForgotten ==
  \A c \in Clients : \A x \in recent[c] : x.at >= pruned

\* Every 201 stands for a row of its own, also across collisions and crashes.
OneRecordEach == Cardinality(records) = Cardinality({r \in Requests : pc[r] = "created"})

\* A stored probe uses a transport its server declares, also when the payload
\* declares none and both sides fill in the default.
ProbeMatchesTransport ==
  \A q \in records : q.probe # None => q.probe.sound /\ q.probe.transport \in q.transports

\* Commands, URLs and environment names of a probe never leave the registry.
ProbesStayInside == \A q \in shown : q[2].probe = None
==========================================================================
