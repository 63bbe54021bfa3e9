------------------------------- MODULE Composer -------------------------------
(***************************************************************************)
(* packages/composer: serve, which puts the tools of several backends      *)
(* behind one server, each under the name of its backend.  It composes     *)
(* BackendManager, ComposerProxy and ToolRouter with MCPServer and         *)
(* MCPRouter of packages/shared.                                           *)
(*                                                                         *)
(* A name is the sequence of its characters, as far as they matter: "_" is *)
(* one.  The n-th client that addBackend() makes, and its process if the   *)
(* transport is stdio, are conns[n].  add[0] is the loop of serve, add[k]  *)
(* the k-th call of addBackend() or reconnectAll() while it serves, by     *)
(* whoever embeds the classes.  The resources and the prompts are listed   *)
(* as the tools are.  A command that cannot be started has no listener for *)
(* its error and ends the process, which is not modelled.                  *)
(***************************************************************************)
EXTENDS Naturals, Sequences, SequencesExt

CONSTANTS
  Servers,      \* [name, transport], as composer.yml has them in its order
  Transports,   \* that later calls ask for: stdio, http, or incomplete, without url or command
  Tools,        \* what each backend offers
  Requests,     \* of the client above
  None,
  MaxConns,     \* bound of the clients that are made
  MaxChanges    \* bound of calls of addBackend() and reconnectAll() while it serves

Backends == {Servers[i].name : i \in DOMAIN Servers}
Configs == [name : Backends, transport : {"stdio", "http", "incomplete"}]

ComposerAssumption ==
  /\ MaxConns \in Nat /\ MaxChanges \in Nat
  /\ Servers \in Seq(Configs) /\ Transports \subseteq {"stdio", "http", "incomplete"}
  /\ \A b \in Backends : b \in Seq(STRING) /\ Tools[b] \subseteq Seq(STRING)
  /\ None \notin Requests

VARIABLES
  phase,               \* of serve: connecting, serving, stopped, failed
  conns,               \* [backend, process, client]; no process with http
  clients,             \* the map: a sequence of [name, conn], as it keeps its order
  add,                 \* per caller: [pc, config, conn, todo]; conn is what it awaits
  changes,
  initialized,
  req                  \* per request: [state, name, on, tool, left, shown]

managerVars == <<conns, clients, add>>
vars == <<phase, managerVars, changes, initialized, req>>

Blank == [state |-> "new", name |-> <<>>, on |-> 0, tool |-> <<>>, left |-> <<>>, shown |-> {}]
Idle == [pc |-> "idle", config |-> None, conn |-> 0, todo |-> <<>>]

Init ==
  /\ phase = "connecting" /\ conns = <<>> /\ clients = <<>> /\ changes = 0
  /\ add = [k \in 0..MaxChanges |-> IF k = 0 THEN [Idle EXCEPT !.todo = Servers] ELSE Idle]
  /\ initialized = FALSE
  /\ req = [r \in Requests |-> Blank]

Names == [i \in 1..Len(clients) |-> clients[i].name]

\* getClient(), 0 for null.
GetClient(name) ==
  LET i == SelectInSeq(clients, LAMBDA e : e.name = name) IN IF i = 0 THEN 0 ELSE clients[i].conn

--------------------------------------------------------------------------
(* Names                                                                   *)

Underscore == "_"

NamespacedName(backend, tool) == backend \o <<Underscore, Underscore>> \o tool

Separators(name) == {i \in 1..(Len(name) - 1) : name[i] = Underscore /\ name[i + 1] = Underscore}

\* Variant with a bug: what is after a second separator is lost.
RouteBySplit(name) ==
  LET i == Min(Separators(name))
      later == {j \in Separators(name) : j >= i + 2}
  IN  IF Separators(name) = {} THEN None
      ELSE [backend |-> SubSeq(name, 1, i - 1),
            tool |-> SubSeq(name, i + 2, IF later = {} THEN Len(name) ELSE Min(later) - 1)]

\* Divided at the first separator.
Route(name) ==
  LET i == Min(Separators(name))
  IN  IF Separators(name) = {} THEN None
      ELSE [backend |-> SubSeq(name, 1, i - 1), tool |-> SubSeq(name, i + 2, Len(name))]

--------------------------------------------------------------------------
(* Requests that lose their client                                         *)

\* An await of a closed client throws; one backend's failure is that of a
\* whole listing.
Rejected(c) == [r \in Requests |-> IF req[r].on = c /\ req[r].state \in {"listing", "calling"}
                                     THEN [req[r] EXCEPT !.state = "error"] ELSE req[r]]

--------------------------------------------------------------------------
(* BackendManager                                                          *)

\* The connections after one's client is closed, its process killed.
Closed(c) == [conns EXCEPT ![c].client = "closed"]
Killed(c) == IF conns[c].process = "running" THEN [conns EXCEPT ![c].process = "killed"] ELSE conns

\* A call throws, and with it the loop it is in.
Fails(k) ==
  /\ add' = [add EXCEPT ![k] = [Idle EXCEPT !.pc = "failed"]]
  /\ phase' = IF phase = "connecting" THEN "failed" ELSE phase

\* addBackend() after the removal, which left `made': it awaits connect(),
\* or throws, as it knows no url or command.
Start(k, config, rest, made) ==
  \/ config.transport = "incomplete" /\ conns' = made /\ Fails(k)
  \/ /\ config.transport # "incomplete" /\ Len(conns) < MaxConns /\ UNCHANGED phase
     /\ conns' = Append(made, [backend |-> config.name, client |-> "opening",
                               process |-> IF config.transport = "http" THEN "none" ELSE "running"])
     /\ add' = [add EXCEPT ![k] = [pc |-> "connecting", config |-> config,
                                   conn |-> Len(conns) + 1, todo |-> rest]]

\* addBackend() until its first await that others can come into.  The entry
\* stays while its client is disconnected: at once, but for the first to end
\* the session of an HTTP client, who awaits its server.
Begin(k, config, rest) ==
  LET old == GetClient(config.name)
      At(pc) == add' = [add EXCEPT ![k] = [pc |-> pc, config |-> config, conn |-> old, todo |-> rest]]
  IN  \/ old = 0 /\ Start(k, config, rest, conns) /\ UNCHANGED <<clients, req>>
      \/ /\ old # 0 /\ UNCHANGED <<phase, clients>>
         /\ \/ At("removing") /\ conns[old].client = "closing" /\ UNCHANGED <<conns, req>>
            \/ /\ At("removing") /\ conns[old].client # "closing"
               /\ conns' = Closed(old) /\ req' = Rejected(old)
            \/ /\ At("closing") /\ conns[old].process = "none" /\ conns[old].client = "open"
               /\ conns' = [conns EXCEPT ![old].client = "closing"] /\ UNCHANGED req

\* The loops of serve and of reconnectAll().
BeginNext(k) ==
  /\ add[k].pc = "idle" /\ add[k].todo # <<>>
  /\ Begin(k, Head(add[k].todo), Tail(add[k].todo))
  /\ UNCHANGED <<changes, initialized>>

\* The session is ended, or could not be; requests in flight are rejected.
SessionEnds(k) ==
  /\ add[k].pc = "closing" /\ add' = [add EXCEPT ![k].pc = "removing"]
  /\ conns' = Closed(add[k].conn) /\ req' = Rejected(add[k].conn)
  /\ UNCHANGED <<phase, clients, changes, initialized>>

\* The process it found is killed, and what is in the map by now deleted.
Removed(k) ==
  /\ add[k].pc = "removing"
  /\ LET i == SelectInSeq(clients, LAMBDA e : e.name = add[k].config.name)
     IN  clients' = IF i = 0 THEN clients ELSE RemoveAt(clients, i)
  /\ Start(k, add[k].config, add[k].todo, Killed(add[k].conn))
  /\ UNCHANGED <<changes, initialized, req>>

\* clients.set(): in its place, or at the end.
Stored(c) ==
  LET name == conns[c].backend
  IN  IF GetClient(name) = 0 THEN Append(clients, [name |-> name, conn |-> c])
      ELSE [i \in 1..Len(clients) |-> IF clients[i].name = name THEN [name |-> name, conn |-> c] ELSE clients[i]]

\* connect() ends; if it fails the process goes on.
ConnectEnds(k) ==
  LET c == add[k].conn
  IN  /\ add[k].pc = "connecting"
      /\ \/ /\ conns[c].client = "opening" /\ conns' = [conns EXCEPT ![c].client = "open"]
            /\ clients' = Stored(c) /\ add' = [add EXCEPT ![k] = [Idle EXCEPT !.todo = add[k].todo]]
            /\ UNCHANGED phase
         \/ Fails(k) /\ UNCHANGED <<conns, clients>>
      /\ UNCHANGED <<changes, initialized, req>>

\* A further call.
Change == phase = "serving" /\ changes < MaxChanges /\ changes' = changes + 1

AddBackend(config) ==
  /\ Change /\ config.transport \in Transports
  /\ Begin(changes + 1, config, <<>>) /\ UNCHANGED initialized

\* Of an entry.
Config(e) == [name |-> e.name, transport |-> IF conns[e.conn].process = "none" THEN "http" ELSE "stdio"]

\* The map is emptied; what was in it is neither disconnected nor killed.
ReconnectAll ==
  LET configs == [i \in 1..Len(clients) |-> Config(clients[i])]
  IN  /\ Change /\ clients' = <<>>
      /\ IF clients = <<>> THEN UNCHANGED <<phase, conns, add>>
         ELSE Start(changes + 1, Head(configs), Tail(configs), conns)
      /\ UNCHANGED <<initialized, req>>

\* Of its own: the exit of one that was killed tells nobody anything.
BackendExits(c) ==
  /\ c \in DOMAIN conns /\ conns[c].process = "running"
  /\ conns' = [conns EXCEPT ![c].process = "exited", ![c].client = "closed"]
  /\ req' = Rejected(c)
  /\ UNCHANGED <<phase, clients, add, changes, initialized>>

--------------------------------------------------------------------------
(* MCPServer                                                               *)

Serve ==
  /\ phase = "connecting" /\ add[0].pc = "idle" /\ add[0].todo = <<>> /\ phase' = "serving"
  /\ UNCHANGED <<managerVars, changes, initialized, req>>

Initialized ==
  /\ phase = "serving" /\ initialized' = TRUE
  /\ UNCHANGED <<phase, managerVars, changes, req>>

\* stop(): what is in flight is answered all the same.
Stop ==
  /\ phase = "serving" /\ phase' = "stopped" /\ initialized' = FALSE
  /\ UNCHANGED <<managerVars, changes, req>>

Set(r, value) == req' = [req EXCEPT ![r] = value]

\* tools/call: to the client of the backend in its name.
CallTool(r, name) ==
  LET route == Route(name)
      c == IF route = None THEN 0 ELSE GetClient(route.backend)
  IN  IF c = 0 \/ conns[c].client # "open"
        THEN Set(r, [Blank EXCEPT !.state = "error"])
        ELSE Set(r, [Blank EXCEPT !.name = name, !.state = "calling", !.on = c, !.tool = route.tool])

Receive(r) ==
  /\ phase = "serving" /\ req[r].state = "new"
  /\ \/ ~initialized /\ Set(r, [Blank EXCEPT !.state = "error"])
     \/ initialized /\ Set(r, [Blank EXCEPT !.state = "next", !.left = Names])
     \/ /\ initialized
        /\ \E b \in Backends : \E tool \in Tools[b] :
             \E name \in {tool, NamespacedName(b, tool)} : CallTool(r, name)
  /\ UNCHANGED <<phase, managerVars, changes, initialized>>

\* tools/list comes to its next backend: gone, or asked.
ListNext(r) ==
  /\ req[r].state = "next"
  /\ LET c == IF req[r].left = <<>> THEN 0 ELSE GetClient(Head(req[r].left))
     IN  IF req[r].left = <<>> THEN Set(r, [req[r] EXCEPT !.state = "answered"])
         ELSE IF c = 0 THEN Set(r, [req[r] EXCEPT !.left = Tail(@)])
         ELSE IF conns[c].client # "open" THEN Set(r, [req[r] EXCEPT !.state = "error"])
         ELSE Set(r, [req[r] EXCEPT !.state = "listing", !.on = c])
  /\ UNCHANGED <<phase, managerVars, changes, initialized>>

ListAnswer(r) ==
  /\ req[r].state = "listing"
  /\ LET b == conns[req[r].on].backend
         more == {[name |-> NamespacedName(b, t), backend |-> b, tool |-> t] : t \in Tools[b]}
     IN  \/ Set(r, [req[r] EXCEPT !.state = "next", !.left = Tail(@), !.shown = @ \cup more])
         \/ Set(r, [req[r] EXCEPT !.state = "error"])
  /\ UNCHANGED <<phase, managerVars, changes, initialized>>

\* An answer, an error, or the end of the request's time.
CallAnswer(r) ==
  /\ req[r].state = "calling"
  /\ \E outcome \in {"answered", "error"} : Set(r, [req[r] EXCEPT !.state = outcome])
  /\ UNCHANGED <<phase, managerVars, changes, initialized>>

Manage ==
  \/ \E k \in 0..MaxChanges : BeginNext(k) \/ SessionEnds(k) \/ Removed(k) \/ ConnectEnds(k)
  \/ ReconnectAll
  \/ \E config \in Configs : AddBackend(config)
Server == Serve \/ Initialized \/ Stop
Handle(r) == ListNext(r) \/ ListAnswer(r) \/ CallAnswer(r)

Next ==
  \/ Manage \/ Server
  \/ \E r \in Requests : Receive(r) \/ Handle(r)
  \/ \E c \in 1..MaxConns : BackendExits(c)

\* The client's requests to a backend have a time limit.
Fairness == \A r \in Requests : WF_vars(Handle(r))

Spec == Init /\ [][Next]_vars /\ Fairness

--------------------------------------------------------------------------
(* Properties                                                              *)

TypeOK ==
  /\ phase \in {"connecting", "serving", "stopped", "failed"}
  /\ \A c \in DOMAIN conns : /\ conns[c].process \in {"none", "running", "killed", "exited"}
                             /\ conns[c].client \in {"opening", "open", "closing", "closed"}
  /\ \A k \in 0..MaxChanges :
       /\ add[k].pc \in {"idle", "closing", "removing", "connecting", "failed"}
       /\ add[k].pc \in {"closing", "removing", "connecting"} => add[k].conn \in DOMAIN conns
  /\ \A r \in Requests : /\ req[r].state \in {"new", "next", "listing", "calling", "answered", "error"}
                         /\ req[r].state \in {"listing", "calling"} => req[r].on \in DOMAIN conns
                         /\ req[r].state = "listing" => Head(req[r].left) = conns[req[r].on].backend

\* A name that holds the separator, or ends in a half of it.
Ambiguous(name) ==
  \E i \in 1..Len(name) : name[i] = Underscore /\ (i = Len(name) \/ name[i + 1] = Underscore)

\* Calls go to the backend, and name the tool, that a listing showed under that
\* name, although backends are replaced between the two, tools' names hold
\* separators, and so do those of other backends.
CallsReachWhatWasListed ==
  \A r, l \in Requests : \A s \in req[l].shown :
    ~Ambiguous(s.backend) /\ req[r].on # 0 /\ req[r].name = s.name =>
      conns[req[r].on].backend = s.backend /\ req[r].tool = s.tool

\* A listing that is answered is whole: a backend that fails makes it an error
\* (unless the backends were changed meanwhile).
ListingsAreWhole ==
  \A r \in Requests : changes = 0 /\ req[r].state = "answered" /\ req[r].name = <<>> =>
    \A b \in Backends : \A t \in Tools[b] : \E s \in req[r].shown : s.backend = b /\ s.tool = t

\* The map has one entry for a name, and none whose process was killed.  Its
\* client is open, unless its process ended or an add that is to delete the
\* entry has closed it, however adds and reconnects of one name overlap.
EntriesAreNotKilled ==
  /\ \A i, j \in DOMAIN clients : clients[i].name = clients[j].name => i = j
  /\ \A e \in ToSet(clients) :
       /\ conns[e.conn].backend = e.name /\ conns[e.conn].process # "killed"
       /\ \/ conns[e.conn].client = "open" \/ conns[e.conn].process = "exited"
          \/ \E k \in 0..MaxChanges : /\ add[k].pc \in {"closing", "removing"} /\ add[k].conn = e.conn
                                      /\ add[k].config.name = e.name

\* A call of add[k] is about to put the backend into the map.
Pending(k, name) ==
  \/ \E i \in DOMAIN add[k].todo : add[k].todo[i].name = name
  \/ add[k].pc \in {"closing", "removing", "connecting"} /\ add[k].config.name = name

\* Unless a call failed every backend is in the map or about to be, although a
\* call may delete what another one has just connected.
BackendsStay ==
  (\A k \in 0..MaxChanges : add[k].pc # "failed") =>
    \A b \in Backends : (\E e \in ToSet(clients) : e.name = b) \/ \E k \in 0..MaxChanges : Pending(k, b)

\* Every request is settled.
NobodyWaits == \A r \in Requests : req[r].state \in {"new", "answered", "error"}
RequestsSettle == []<>NobodyWaits

\* composer/README.md: "reconnect-friendly operational model": a backend has
\* one process.
OneProcessEach ==
  \A c, d \in DOMAIN conns :
    conns[c].backend = conns[d].backend /\ conns[c].process = "running" /\ conns[d].process = "running" => c = d

\* docs/packages/composer.md: "republishes namespaced tools so a single client
\* can target several servers": a name leads to the backend that has the tool.
NamesLeadHome ==
  \A r \in Requests : \A s \in req[r].shown : Route(s.name) = [backend |-> s.backend, tool |-> s.tool]
=============================================================================
