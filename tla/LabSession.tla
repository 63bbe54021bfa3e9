----------------------------- MODULE LabSession -----------------------------
(***************************************************************************)
(* apps/lab: the one active server of the main process                     *)
(* (main/ipc/handlers.ts), the view the renderer has of it                 *)
(* (renderer/stores/connectionStore.ts) and the tool calls it records.     *)
(*                                                                         *)
(* An operation is a click, and names the client, the process and the      *)
(* session it makes.  The handlers suspend at their awaits; ready[t] says  *)
(* that what t awaits is settled.  Continuations that are ready run before *)
(* any other event, in any order.  disconnectActiveServer() and what its   *)
(* caller does after it are one step; so are an answer and the renderer's  *)
(* use of it, as messages between the two processes keep their order.      *)
(***************************************************************************)
EXTENDS FiniteSets

CONSTANTS
  Ops,        \* clicks on connect, disconnect and refresh
  Calls,      \* calls of a tool
  None,
  Serial      \* nobody clicks while the last connect or disconnect is under way

LabAssumption ==
  /\ Ops \cap Calls = {} /\ Serial \in BOOLEAN
  /\ None \notin Ops \cup Calls \cup {"ok", "threw", "active"}

VARIABLES
  activeClient, activeProcess, activeSession,   \* the main process
  client, process,                              \* per operation: what it made
  status, info, catalog,                        \* the renderer: whose session, whose tools it shows
  pc, kind, target, ready,                      \* tasks: where, what, on which client
  closer,                                       \* per client: whose disconnect() closes it
  record                                        \* per call: the session it was recorded under

mainVars == <<activeClient, activeProcess, activeSession>>
viewVars == <<status, info, catalog>>
taskVars == <<pc, kind, target>>
vars == <<mainVars, client, process, viewVars, taskVars, ready, closer, record>>

Tasks == Ops \cup Calls

Init ==
  /\ activeClient = None /\ activeProcess = None /\ activeSession = None
  /\ client = [o \in Ops |-> "none"] /\ process = [o \in Ops |-> "none"]
  /\ status = "idle" /\ info = None /\ catalog = None
  /\ pc = [t \in Tasks |-> "new"] /\ kind = [o \in Ops |-> None]
  /\ target = [t \in Tasks |-> None] /\ ready = [t \in Tasks |-> None]
  /\ closer = [o \in Ops |-> None]
  /\ record = [c \in Calls |-> None]

Quiet == \A t \in Tasks : ready[t] = None
Goto(t, where) == pc' = [pc EXCEPT ![t] = where]

--------------------------------------------------------------------------
(* A client is closed                                                      *)

\* Who awaits an answer of client x.
Awaiters(x) ==
  {o \in Ops : pc[o] = "connecting" /\ o = x} \cup {t \in Tasks : pc[t] \in {"listing", "calling"} /\ target[t] = x}

\* o awaits activeClient.disconnect(), x being that client or None: over at
\* once, unless it has to end its session with an HTTP server.
Close(o, x) ==
  IF x = None \/ client[x] \in {"closing", "closed"}
    THEN ready' = [ready EXCEPT ![o] = "ok"] /\ UNCHANGED <<client, closer>>
  ELSE \/ /\ client' = [client EXCEPT ![x] = "closed"] /\ UNCHANGED closer
          /\ ready' = [t \in Tasks |-> IF t = o THEN "ok" ELSE IF t \in Awaiters(x) THEN "threw" ELSE ready[t]]
       \/ /\ kind[x] = "http"
          /\ client' = [client EXCEPT ![x] = "closing"] /\ closer' = [closer EXCEPT ![x] = o]
          /\ ready' = [ready EXCEPT ![o] = None]

\* The server has ended the session, or failed to.
CloseEnds(x) ==
  /\ Quiet /\ client[x] = "closing"
  /\ client' = [client EXCEPT ![x] = "closed"]
  /\ \E outcome \in {"ok", "threw"} :
       ready' = [t \in Tasks |-> IF t = closer[x] THEN outcome
                                 ELSE IF t \in Awaiters(x) THEN "threw" ELSE ready[t]]
  /\ UNCHANGED <<mainVars, process, viewVars, taskVars, closer, record>>

ServerExits(x) ==
  /\ Quiet /\ process[x] \in {"running", "killed"} /\ process' = [process EXCEPT ![x] = "exited"]
  /\ IF client[x] \in {"opening", "open"}
       THEN /\ client' = [client EXCEPT ![x] = "closed"]
            /\ ready' = [t \in Tasks |-> IF t \in Awaiters(x) THEN "threw" ELSE ready[t]]
       ELSE UNCHANGED <<client, ready>>
  /\ UNCHANGED <<mainVars, viewVars, taskVars, closer, record>>

Killed == [x \in Ops |-> IF x = activeProcess /\ process[x] = "running" THEN "killed" ELSE process[x]]

\* Variant with a bug: the session stays.
ClearedButSession ==
  process' = Killed /\ activeClient' = None /\ activeProcess' = None /\ UNCHANGED activeSession

\* disconnectActiveServer() after its await: what is active now, not what was.
Cleared ==
  process' = Killed /\ activeClient' = None /\ activeProcess' = None /\ activeSession' = None

--------------------------------------------------------------------------
(* The catalog of the renderer                                             *)

\* refreshCatalog(): the lists are asked of the active client, and empty
\* without one.
List(o, session) ==
  IF session # None /\ activeClient # None
    THEN Goto(o, "listing") /\ target' = [target EXCEPT ![o] = activeClient] /\ UNCHANGED catalog
    ELSE Goto(o, "done") /\ catalog' = None /\ UNCHANGED target

ListEnds(o) ==
  /\ Quiet /\ pc[o] = "listing"
  /\ \E outcome \in {"ok", "threw"} :
       /\ outcome = "ok" => client[target[o]] \in {"open", "closing"}
       /\ ready' = [ready EXCEPT ![o] = outcome]
  /\ UNCHANGED <<mainVars, client, process, viewVars, taskVars, closer, record>>

ShowCatalog(o) ==
  /\ pc[o] = "listing" /\ ready[o] # None /\ ready' = [ready EXCEPT ![o] = None]
  /\ catalog' = IF ready[o] = "ok" THEN target[o] ELSE None
  /\ Goto(o, "done")
  /\ UNCHANGED <<mainVars, client, process, status, info, kind, target, closer, record>>

--------------------------------------------------------------------------
(* The operations                                                          *)

MayClick == Serial => \A o \in Ops : pc[o] \notin {"clearing", "connecting", "recovering", "disconnecting"}

\* The button of the form is disabled while the status is "connecting", the
\* chips of the favourites never are.
Connect(o, type) ==
  /\ Quiet /\ pc[o] = "new" /\ MayClick
  /\ status' = "connecting" /\ UNCHANGED <<info, catalog>>
  /\ kind' = [kind EXCEPT ![o] = type]
  /\ Goto(o, "clearing") /\ Close(o, activeClient)
  /\ UNCHANGED <<mainVars, process, target, record>>

\* disconnectActiveServer() failed: the catch calls it again.
Recover(o) ==
  /\ pc[o] \in {"clearing", "connecting"} /\ ready[o] = "threw"
  /\ Goto(o, "recovering")
  /\ Close(o, activeClient)
  /\ UNCHANGED <<mainVars, process, viewVars, kind, target, record>>

\* The last server is gone; createTransport() refuses the options or the
\* command, or starts the process; then connect().
Open(o) ==
  /\ pc[o] = "clearing" /\ ready[o] = "ok" /\ ready' = [ready EXCEPT ![o] = None]
  /\ \/ /\ Cleared /\ Goto(o, "failed") /\ status' = "error" /\ UNCHANGED client
     \/ /\ process' = IF kind[o] = "stdio" THEN [Killed EXCEPT ![o] = "running"] ELSE Killed
        /\ activeProcess' = IF kind[o] = "stdio" THEN o ELSE None
        /\ activeClient' = o /\ activeSession' = None
        /\ client' = [client EXCEPT ![o] = "opening"]
        /\ Goto(o, "connecting") /\ UNCHANGED status
  /\ UNCHANGED <<info, catalog, kind, target, closer, record>>

\* The handshake ends, or runs out of time.
ConnectEnds(o) ==
  /\ Quiet /\ pc[o] = "connecting"
  /\ \/ /\ client[o] = "opening" /\ client' = [client EXCEPT ![o] = "open"]
        /\ ready' = [ready EXCEPT ![o] = "ok"]
     \/ /\ ready' = [ready EXCEPT ![o] = "threw"]
        /\ \/ client[o] = "opening" /\ client' = [client EXCEPT ![o] = "closed"]
           \/ UNCHANGED client
  /\ UNCHANGED <<mainVars, process, viewVars, taskVars, closer, record>>

Connected(o) ==
  /\ pc[o] = "connecting" /\ ready[o] = "ok" /\ ready' = [ready EXCEPT ![o] = None]
  /\ activeSession' = o /\ status' = "connected" /\ info' = o
  /\ List(o, o)
  /\ UNCHANGED <<activeClient, activeProcess, client, process, kind, closer, record>>

\* Without an answer if it failed again: the status stays "connecting".
Recovered(o) ==
  /\ pc[o] = "recovering" /\ ready[o] # None /\ ready' = [ready EXCEPT ![o] = None]
  /\ IF ready[o] = "ok"
       THEN Cleared /\ Goto(o, "failed") /\ status' = "error"
       ELSE Goto(o, "threw") /\ UNCHANGED <<mainVars, process, status>>
  /\ UNCHANGED <<client, info, catalog, kind, target, closer, record>>

Disconnect(o) ==
  /\ Quiet /\ pc[o] = "new" /\ MayClick /\ status = "connected"
  /\ kind' = [kind EXCEPT ![o] = "disconnect"]
  /\ Goto(o, "disconnecting") /\ Close(o, activeClient)
  /\ UNCHANGED <<mainVars, process, viewVars, target, record>>

Disconnected(o) ==
  /\ pc[o] = "disconnecting" /\ ready[o] # None /\ ready' = [ready EXCEPT ![o] = None]
  /\ IF ready[o] = "ok"
       THEN /\ Cleared /\ Goto(o, "done")
            /\ status' = "idle" /\ info' = None /\ catalog' = None
       ELSE Goto(o, "threw") /\ UNCHANGED <<mainVars, process, viewVars>>
  /\ UNCHANGED <<client, kind, target, closer, record>>

\* The Refresh button, and the first view.
Hydrate(o) ==
  /\ Quiet /\ pc[o] = "new" /\ MayClick
  /\ kind' = [kind EXCEPT ![o] = "hydrate"]
  /\ status' = IF activeSession # None THEN "connected" ELSE "idle"
  /\ info' = activeSession /\ List(o, activeSession)
  /\ UNCHANGED <<mainVars, client, process, ready, closer, record>>

--------------------------------------------------------------------------
(* Calls of tools                                                          *)

CallTool(c) ==
  /\ Quiet /\ pc[c] = "new"
  /\ IF activeClient # None /\ activeSession # None
       THEN /\ Goto(c, "calling") /\ target' = [target EXCEPT ![c] = activeClient]
            /\ ready' = [ready EXCEPT ![c] = IF client[activeClient] = "open" THEN None ELSE "threw"]
       ELSE Goto(c, "refused") /\ UNCHANGED <<target, ready>>
  /\ UNCHANGED <<mainVars, client, process, viewVars, kind, closer, record>>

\* An answer, or the end of its time.
CallEnds(c) ==
  /\ Quiet /\ pc[c] = "calling"
  /\ \E outcome \in {"ok", "threw"} :
       /\ outcome = "ok" => client[target[c]] \in {"open", "closing"}
       /\ ready' = [ready EXCEPT ![c] = outcome]
  /\ UNCHANGED <<mainVars, client, process, viewVars, taskVars, closer, record>>

RecordToolCall(c) ==
  /\ pc[c] = "calling" /\ ready[c] # None /\ ready' = [ready EXCEPT ![c] = None]
  /\ record' = [record EXCEPT ![c] = IF activeSession # None THEN activeSession ELSE "active"]
  /\ Goto(c, "recorded")
  /\ UNCHANGED <<mainVars, client, process, viewVars, kind, target, closer>>

--------------------------------------------------------------------------
Click == \E o \in Ops : (\E type \in {"stdio", "http"} : Connect(o, type)) \/ Disconnect(o) \/ Hydrate(o)
Settles == \E o \in Ops : CloseEnds(o) \/ ConnectEnds(o) \/ ListEnds(o)
Resumes == \E o \in Ops : Open(o) \/ Recover(o) \/ Connected(o) \/ Recovered(o) \/ Disconnected(o) \/ ShowCatalog(o)
ToolCalls == \E c \in Calls : CallTool(c) \/ CallEnds(c) \/ RecordToolCall(c)

Next == Click \/ Settles \/ Resumes \/ ToolCalls \/ \E o \in Ops : ServerExits(o)

\* Every request has a time limit, and the event loop runs.
Fairness ==
  /\ \A o \in Ops : WF_vars(CloseEnds(o)) /\ WF_vars(ConnectEnds(o)) /\ WF_vars(ListEnds(o))
  /\ WF_vars(Resumes) /\ \A c \in Calls : WF_vars(RecordToolCall(c))

Spec == Init /\ [][Next]_vars /\ Fairness

--------------------------------------------------------------------------
(* Properties                                                              *)

\* One of each type, and who resumes had something to await.
TypeOK ==
  /\ {activeClient, activeProcess, activeSession, info, catalog} \subseteq Ops \cup {None}
  /\ client \in [Ops -> {"none", "opening", "open", "closing", "closed"}]
  /\ process \in [Ops -> {"none", "running", "killed", "exited"}]
  /\ status \in {"idle", "connecting", "connected", "error"}
  /\ \A t \in Tasks : ready[t] # None =>
       pc[t] \in {"clearing", "connecting", "recovering", "disconnecting", "listing", "calling"}
  /\ \A c \in Calls : record[c] # None <=> pc[c] = "recorded"

\* No server process is left behind: one that was not killed is the active
\* one, whatever connects and disconnects overlap (disconnectActiveServer,
\* createTransport).
OneServer == \A o \in Ops : process[o] = "running" => activeProcess = o

\* Between two operations the renderer shows the session the main process has.
RendererTellsMain ==
  MayClick => /\ status = "connected" => info # None /\ activeSession = info
              /\ status \in {"idle", "error"} => activeSession = None

\* Once listed, the tools shown are those of the server that is shown, although
\* another listing was under way when it was connected.
CatalogIsOfServer ==
  status = "connected" /\ (\A o \in Ops : pc[o] # "listing") => catalog \in {None, info}

\* A call is recorded under the session it was made in, or under none, although
\* the session may end before the answer.
HistoryTellsServer ==
  \A c \in Calls : record[c] \notin {None, "active"} => record[c] = target[c]

\* Every click is done with.
NothingPends == \A o \in Ops : pc[o] \in {"new", "done", "failed", "threw"}
OpsEnd == []<>NothingPends

\* handlers.test.ts: "serves connected operations": what says it is connected
\* has a client.
ConnectedServes == activeSession # None => activeClient = activeSession

\* handlers.test.ts: "returns structured errors when connection setup fails".
FailuresAreReported == \A o \in Ops : pc[o] = "threw" => kind[o] = "disconnect"
=============================================================================
