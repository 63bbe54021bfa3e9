----------------------------- MODULE HealthProbe -----------------------------
(***************************************************************************)
(* One readiness probe of atlas/src/registry/HealthMonitor.ts, over HTTP   *)
(* or over the pipes of a child process, against a peer that may answer    *)
(* anything, late, twice or never.                                         *)
(*                                                                         *)
(* An event of the child notifies the probe, which runs before the next    *)
(* event is handled (a microtask): while woken, only Resume is enabled.    *)
(* A message is <<id, body>>; a body is what the checks of the probe tell  *)
(* apart.  "tools" and "plain" are the two good initialize results, with   *)
(* and without the tools capability, and "array" the good tools/list.      *)
(***************************************************************************)
EXTENDS Naturals, Sequences, FiniteSets

CONSTANTS
  None,
  MaxOutput,      \* bound: chunks a child may write before the output limit
  MaxLines        \* bound: lines in a chunk

Categories == {"policy_blocked", "timeout", "transport_error", "malformed_response",
               "initialize_failed", "incompatible_protocol", "capability_failed",
               "unconfigured", "command_not_allowed", "command_failed", "output_limit"}
Good == {"tools", "plain"}

ProbeAssumption ==
  MaxOutput \in Nat \ {0} /\ MaxLines \in Nat \ {0} /\ None \notin Categories \cup Good

VARIABLES
  transport, pc,            \* the configured transport; where the probe stands
  messages, closedError, outputBytes, exited,   \* JsonLineSession
  woken, expired,           \* a waiter was notified; its deadline has passed
  caps,                     \* the good initialize result the probe accepted
  heard,                    \* every message the peer has sent
  child, sigkill,           \* the process itself; the 100 ms timer of close()
  outcome                   \* the snapshot, or None

session == <<messages, closedError, outputBytes, exited>>
vars == <<transport, pc, session, woken, expired, caps, heard, child, sigkill, outcome>>

Waiting == {"initializing", "listing"}
InitBodies == Good \cup {"error", "incomplete", "badVersion"}
ListBodies == {"array", "noArray", "error"}
Messages == ({1} \X InitBodies) \cup ({2} \X ListBodies)
Lines == Messages \cup {<<0, "malformed">>}
Failure(category, liveness) == [category |-> category, liveness |-> liveness]

Init ==
  /\ transport \in {"http", "stdio"} /\ pc = "new"
  /\ messages = <<>> /\ closedError = None /\ outputBytes = 0 /\ exited = FALSE
  /\ woken = FALSE /\ expired = FALSE
  /\ caps = None /\ heard = {} /\ child = "none" /\ sigkill = FALSE
  /\ outcome = None

--------------------------------------------------------------------------
(* What a probe ends with                                                  *)

Ready(toolCount) ==
  [status |-> "online", liveness |-> "reachable", readiness |-> "ready",
   category |-> None, toolCount |-> toolCount]

\* The snapshot checkServer makes of a failure.
NotReady(f) ==
  [status |-> IF f.liveness = "reachable" THEN "degraded" ELSE "offline",
   liveness |-> f.liveness, readiness |-> "not_ready", category |-> f.category,
   toolCount |-> None]

\* Every failure after a good initialize is that of a reachable server.
Marked(f) == IF caps = None THEN f ELSE [f EXCEPT !.liveness = "reachable"]

\* The checks on an initialize response that end the probe, by body.
InitFailure(body) ==
  Failure(CASE body = "error"      -> "initialize_failed"
            [] body = "incomplete" -> "malformed_response"
            [] body = "badVersion" -> "incompatible_protocol", "reachable")

\* session.close(): end its input, SIGTERM, SIGKILL after 100 ms.
Close ==
  /\ sigkill' = (transport = "stdio" /\ ~exited /\ child # "none")
  /\ UNCHANGED child

Finish(snapshot) ==
  /\ pc' = "ended" /\ outcome' = snapshot
  /\ Close

Fail(f) == Finish(NotReady(Marked(f)))

--------------------------------------------------------------------------
(* HTTP: initialize, the notification, tools/list                          *)

\* fetchJsonRpc and fetchNotification: what goes wrong below the response.
FetchFailures ==
  {Failure("policy_blocked", "unreachable"), Failure("timeout", "unreachable"),
   Failure("transport_error", "unreachable")}

UnusableAnswers == FetchFailures \cup {Failure("malformed_response", "reachable")}

ConfigFailures(t) ==
  {Failure("unconfigured", "unknown"), Failure("transport_error", "unreachable")}
    \cup (IF t = "stdio" THEN {Failure("command_not_allowed", "unknown")} ELSE {})

\* The configuration, its environment variables or spawn() are refused.
Refuse ==
  /\ pc = "new"
  /\ \E f \in ConfigFailures(transport) : Fail(f)
  /\ UNCHANGED <<transport, session, woken, expired, caps, heard>>

Start ==
  /\ pc = "new"
  /\ pc' = "initializing"
  /\ child' = IF transport = "stdio" THEN "running" ELSE child
  /\ UNCHANGED <<transport, session, woken, expired, caps, heard, sigkill, outcome>>

\* A good initialize response: over HTTP the notification is a request of its
\* own; over the pipe it is written, and tools/list after it, in one go.
Initialized(body) ==
  /\ caps' = body
  /\ IF transport = "http"
       THEN pc' = "notifying" /\ UNCHANGED <<outcome, child, sigkill>>
       ELSE IF body = "tools"
              THEN pc' = "listing" /\ UNCHANGED <<outcome, child, sigkill>>
              ELSE Finish(Ready(None))

TakeInitialize(body) ==
  IF body \in Good THEN Initialized(body)
  ELSE Fail(InitFailure(body)) /\ UNCHANGED caps

\* Variant with a bug: an error or a result without tools counts as a list.
TakeAnyList(body) == Finish(Ready(0)) /\ UNCHANGED caps

TakeList(body) ==
  /\ IF body = "array" THEN Finish(Ready(0))
     ELSE Fail(Failure("capability_failed", "reachable"))
  /\ UNCHANGED caps

HttpAnswer ==
  /\ transport = "http" /\ pc \in Waiting
  /\ \E m \in Messages :
       /\ m[1] = (IF pc = "initializing" THEN 1 ELSE 2)
       /\ heard' = heard \cup {m}
       /\ IF pc = "initializing" THEN TakeInitialize(m[2]) ELSE TakeList(m[2])
  /\ UNCHANGED <<transport, session, woken, expired>>

\* No response, or none that parses with the id asked for, or not a 2xx one.
HttpFails ==
  /\ transport = "http" /\ pc \in Waiting \cup {"notifying"}
  /\ \E f \in (CASE pc = "initializing" -> UnusableAnswers \cup {Failure("transport_error", "reachable")}
                 [] pc = "notifying" -> FetchFailures \cup {Failure("initialize_failed", "reachable")}
                 [] pc = "listing" -> UnusableAnswers \cup {Failure("capability_failed", "reachable")}) :
       Fail(f)
  /\ UNCHANGED <<transport, session, woken, expired, caps, heard>>

HttpNotified ==
  /\ transport = "http" /\ pc = "notifying"
  /\ IF caps = "tools" THEN pc' = "listing" /\ UNCHANGED <<outcome, child, sigkill>>
                       ELSE Finish(Ready(None))
  /\ UNCHANGED <<transport, session, woken, expired, caps, heard>>

--------------------------------------------------------------------------
(* stdio: the events of the child.  Output may be read after the child was  *)
(* killed or has ended, before its exit event or after it.                 *)

Wake == woken' = (pc \in Waiting)

Event == transport = "stdio" /\ pc # "new" /\ ~woken

Reading == Event /\ pc \in Waiting /\ child # "none" /\ outputBytes <= MaxOutput

SigKilled == IF child = "running" THEN "killed" ELSE child

\* fail(): the first failure stands, and every waiter is notified.
FailSession(category, liveness) ==
  /\ closedError' = IF closedError = None THEN Failure(category, liveness) ELSE closedError
  /\ Wake

\* onData: lines are queued up to the first malformed one, which kills the child.
OnData ==
  /\ Reading
  /\ outputBytes' = outputBytes + 1
  /\ \E n \in 1..MaxLines : \E lines \in [1..n -> Lines], kept \in 0..n :
         /\ \A i \in 1..kept : lines[i] \in Messages
         /\ kept < n => lines[kept + 1] \notin Messages
         /\ IF outputBytes' > MaxOutput
              THEN /\ FailSession("output_limit", "reachable")
                   /\ child' = SigKilled
                   /\ UNCHANGED <<messages, heard>>
              ELSE /\ messages' = messages \o SubSeq(lines, 1, kept)
                   /\ heard' = heard \cup {lines[i] : i \in 1..kept}
                   /\ IF kept = n
                        THEN Wake /\ UNCHANGED <<closedError, child>>
                        ELSE /\ FailSession("malformed_response", "reachable")
                             /\ child' = SigKilled
  /\ UNCHANGED <<transport, pc, exited, expired, caps, sigkill, outcome>>

\* stderr, or part of a line: only the output limit sees it.
OnAuxiliaryData ==
  /\ Reading
  /\ outputBytes' = outputBytes + 1
  /\ IF outputBytes' > MaxOutput
       THEN FailSession("output_limit", "reachable") /\ child' = SigKilled
       ELSE UNCHANGED <<closedError, woken, child>>
  /\ UNCHANGED <<transport, pc, messages, exited, expired, caps, heard, sigkill, outcome>>

\* The process ends: by itself, or as it was told to by a signal.
ChildEnds ==
  /\ transport = "stdio" /\ child \in {"running", "killed"}
  /\ child' = "gone"
  /\ UNCHANGED <<transport, pc, session, woken, expired, caps, heard, sigkill, outcome>>

\* The exit event.  Code 0 is no failure: the waiter is left to its deadline.
OnExit(code) ==
  /\ Event /\ child = "gone" /\ ~exited
  /\ exited' = TRUE
  /\ IF closedError = None /\ code # 0
       THEN FailSession("command_failed", IF outputBytes > 0 THEN "reachable" ELSE "unreachable")
       ELSE UNCHANGED <<closedError, woken>>
  /\ UNCHANGED <<transport, pc, messages, outputBytes, expired, caps, heard, child, sigkill, outcome>>

\* The command could not be started: no exit event follows.
OnSpawnError ==
  /\ Event /\ child = "running" /\ outputBytes = 0 /\ pc = "initializing"
  /\ FailSession("command_failed", "unreachable")
  /\ child' = "none"
  /\ UNCHANGED <<transport, pc, messages, outputBytes, exited, expired, caps, heard, sigkill, outcome>>

\* Variant with a bug: only an event of the child ends a wait.
NoDeadline == FALSE /\ UNCHANGED vars

Deadline ==
  /\ Event /\ pc \in Waiting
  /\ expired' = TRUE /\ Wake
  /\ UNCHANGED <<transport, pc, session, caps, heard, child, sigkill, outcome>>

\* messages.findIndex(): the oldest message with this id.
FirstMessage(id) ==
  {i \in 1..Len(messages) : messages[i][1] = id /\ \A j \in 1..(i - 1) : messages[j][1] # id}

WithoutIndex(s, k) == SubSeq(s, 1, k - 1) \o SubSeq(s, k + 1, Len(s))

\* The writes after the initialize response meet a child that is gone but not
\* yet reported: EPIPE on child.stdin, which has no error listener.
WriteBreaks == child = "gone" /\ ~exited

\* One turn of waitForResponse's loop: a message first, then the failure, then
\* the deadline; a later turn waits again.
Resume ==
  /\ woken
  /\ LET id == IF pc = "initializing" THEN 1 ELSE 2
         found == FirstMessage(id)
     IN IF found # {}
          THEN \E i \in found :
                 /\ messages' = WithoutIndex(messages, i)
                 /\ IF id = 2 THEN TakeList(messages[i][2])
                    ELSE \/ TakeInitialize(messages[i][2])
                         \/ /\ messages[i][2] \in Good /\ WriteBreaks
                            /\ pc' = "crashed"
                            /\ UNCHANGED <<caps, child, sigkill, outcome>>
          ELSE /\ UNCHANGED <<messages, caps>>
               /\ IF closedError # None THEN Fail(closedError)
                  ELSE IF expired THEN Fail(Failure("timeout", "unreachable"))
                  ELSE UNCHANGED <<pc, child, sigkill, outcome>>
  /\ expired' = FALSE
  /\ woken' = (pc' = "listing" /\ pc # "listing")   \* the next wait looks first
  /\ UNCHANGED <<transport, closedError, outputBytes, exited, heard>>

KillTimer ==
  /\ sigkill
  /\ sigkill' = FALSE
  /\ child' = IF ~exited /\ child = "running" THEN "killed" ELSE child
  /\ UNCHANGED <<transport, pc, session, woken, expired, caps, heard, outcome>>

Next ==
  \/ Refuse \/ Start
  \/ HttpAnswer \/ HttpFails \/ HttpNotified
  \/ OnData \/ OnAuxiliaryData \/ OnSpawnError \/ ChildEnds
  \/ \E code \in {0, 1} : OnExit(code)
  \/ Deadline \/ Resume \/ KillTimer

Spec == Init /\ [][Next]_vars

\* fetch has its own timeout; timers fire; a process that was sent SIGKILL ends.
Fairness ==
  /\ WF_vars(Refuse \/ Start) /\ WF_vars(HttpAnswer \/ HttpFails \/ HttpNotified)
  /\ WF_vars(Deadline) /\ WF_vars(Resume) /\ WF_vars(KillTimer)
  /\ WF_vars(ChildEnds /\ child = "killed") /\ WF_vars(\E code \in {0, 1} : OnExit(code))

FairSpec == Spec /\ Fairness

--------------------------------------------------------------------------

\* The probe, its session and its child are well formed.
TypeOK ==
  /\ transport \in {"http", "stdio"}
  /\ pc \in Waiting \cup {"new", "notifying", "ended", "crashed"}
  /\ messages \in Seq(Messages) /\ heard \subseteq Messages
  /\ closedError \in {None} \cup [category : Categories, liveness : {"reachable", "unreachable"}]
  /\ outputBytes \in 0..(MaxOutput + 1)
  /\ {exited, woken, expired, sigkill} \subseteq BOOLEAN
  /\ caps \in Good \cup {None}
  /\ child \in {"none", "running", "killed", "gone"}
  /\ outcome # None =>
       /\ outcome.category \in Categories \cup {None}
       /\ outcome.status = "online" <=> outcome.readiness = "ready"
       /\ outcome.readiness = "ready" <=> outcome.category = None

\* A server is shown online only for a handshake it really completed: a good
\* answer to initialize, and a list of tools under the id that asked for it if
\* it advertised the capability, whatever else it sent and in whatever order.
ReadyIsEarned ==
  outcome # None /\ outcome.readiness = "ready" =>
    /\ caps # None /\ <<1, caps>> \in heard
    /\ caps = "tools" => <<2, "array">> \in heard

\* A server whose handshake succeeded is degraded by what fails later (deadline,
\* exit, output limit, lost connection), never offline.
HandshakeMeansReachable ==
  outcome # None /\ caps # None => outcome.status # "offline"

\* A child is called reachable only if it wrote something before the verdict.
ReachableSpoke ==
  outcome # None /\ transport = "stdio" /\ outcome.liveness = "reachable" => outputBytes > 0

\* A probe comes to a verdict even if the peer never says a word, and leaves no
\* process behind, not even one that ignores SIGTERM.
AllOver == /\ pc \notin Waiting \cup {"notifying"}
           /\ pc = "ended" => child # "running"
ProbeEnds == []<>AllOver
==========================================================================
