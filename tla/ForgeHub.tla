------------------------------- MODULE ForgeHub -------------------------------
(***************************************************************************)
(* forge/src/server/WebSocketHub.ts with AuthPolicy.ts: who may open an    *)
(* event channel, what it may subscribe to, how much it may say, and when  *)
(* it is closed.  `connections' holds a socket from its upgrade to its     *)
(* close or error event, so a closing socket is still counted.             *)
(***************************************************************************)
EXTENDS Naturals, FiniteSets

CONSTANTS
  Sockets, Tokens,
  IdOf, Scopes, ExpiresAt,   \* per token: the principal's id, scopes and expiry
  Categories,                \* what clients name
  OptionSets,                \* the options a hub may be given
  None,
  MaxTime                    \* bound of the clock

\* The limits resolveOptions() accepts are positive integers.
Options ==
  [allowedCategories : SUBSET Categories, maxConnections : Nat \ {0},
   maxConnectionsPerPrincipal : Nat \ {0}, maxSubscriptions : Nat \ {0}, maxQueue : Nat \ {0},
   maxMessages : Nat \ {0}, window : Nat \ {0}, idleTimeout : Nat \ {0}]

HubAssumption ==
  /\ IsFiniteSet(Sockets) /\ IsFiniteSet(Categories)
  /\ \A t \in Tokens : ExpiresAt[t] \in Nat
  /\ (\A o \in OptionSets : o \in Options) /\ MaxTime \in Nat

VARIABLES
  options,     \* set by the constructor
  hub,         \* the upgrade handler and the liveness timer are installed
  now,
  conn,        \* per socket: its state here, and as the network has it
  messageLog,  \* per principal id: its messages and when they came
  accepted     \* history: the same, never pruned

vars == <<options, hub, now, conn, messageLog, accepted>>

Ids == {IdOf[t] : t \in Tokens}

NoConn == [ready |-> "none", mapped |-> FALSE, token |-> None, alive |-> FALSE, active |-> 0,
           subs |-> {}, queue |-> 0, silent |-> FALSE]

Init ==
  /\ options \in OptionSets /\ hub = TRUE /\ now = 0
  /\ conn = [s \in Sockets |-> NoConn]
  /\ messageLog = [p \in Ids |-> {}] /\ accepted = [p \in Ids |-> {}]

HasAnyScope(t, scopes) == "*" \in Scopes[t] \/ "events:*" \in Scopes[t] \/ Scopes[t] \cap scopes # {}

\* A category stands for the scope `events:<category>'.
CanRead(t, c) == HasAnyScope(t, {"events:read", c})

CanOpen(t) == HasAnyScope(t, {"events:subscribe", "events:read"} \cup options.allowedCategories)

Connections == {s \in Sockets : conn[s].mapped}

\* Variant with a bug: a principal is told by its token.
CountForToken(t) == Cardinality({s \in Connections : conn[s].token = t})

ConnectionCountFor(t) == Cardinality({s \in Connections : IdOf[conn[s].token] = IdOf[t]})

Recent(log) == {m \in log : m.at + options.window >= now}

\* The n-th message of a principal.
Stamp(p) == [n |-> Cardinality(accepted[p]) + 1, at |-> now]

Pruned == [p \in Ids |-> Recent(messageLog[p])]

\* What a send does to a connection: it is queued, or the queue is full.
Sent(c) ==
  IF c.ready # "open" THEN c
  ELSE IF c.queue + 1 > options.maxQueue THEN [c EXCEPT !.ready = "closing"]
  ELSE [c EXCEPT !.queue = @ + 1]

Closing(c) == IF c.ready = "open" THEN [c EXCEPT !.ready = "closing"] ELSE c

--------------------------------------------------------------------------
(* Connections                                                             *)

\* A refused request only prunes; a wrong path or origin is one.
Upgrade(s, t) ==
  /\ hub /\ conn[s] = NoConn
  /\ messageLog' = Pruned
  /\ conn' = IF /\ now < ExpiresAt[t]
                /\ CanOpen(t)
                /\ Cardinality(Connections) < options.maxConnections
                /\ ConnectionCountFor(t) < options.maxConnectionsPerPrincipal
               THEN [conn EXCEPT ![s] = Sent([NoConn EXCEPT !.ready = "open", !.mapped = TRUE,
                                              !.token = t, !.alive = TRUE, !.active = now])]
               ELSE conn
  /\ UNCHANGED <<options, hub, now, accepted>>

\* A frame too large, a protocol error: the entry goes before the socket does.
SocketError(s) ==
  /\ conn[s].ready = "open"
  /\ conn' = [conn EXCEPT ![s].ready = "closing", ![s].mapped = FALSE]
  /\ UNCHANGED <<options, hub, now, messageLog, accepted>>

\* The peer leaves.
PeerLeaves(s) ==
  /\ conn[s].ready = "open"
  /\ conn' = [conn EXCEPT ![s] = Closing(@)]
  /\ UNCHANGED <<options, hub, now, messageLog, accepted>>

\* The close event; ws destroys a socket whose peer does not answer the close.
Closed(s) ==
  /\ conn[s].ready = "closing"
  /\ conn' = [conn EXCEPT ![s] = NoConn]
  /\ UNCHANGED <<options, hub, now, messageLog, accepted>>

--------------------------------------------------------------------------
(* Messages                                                                *)

\* The subscriptions a request may end with: it is served in its own order
\* until the limit is met.
Granted(c, requested) ==
  LET readable == {x \in (requested \cap options.allowedCategories) \ c.subs : CanRead(c.token, x)}
      room == options.maxSubscriptions - Cardinality(c.subs)
  IN  {c.subs \cup g : g \in {x \in SUBSET readable :
         Cardinality(x) = IF Cardinality(readable) < room THEN Cardinality(readable) ELSE room}}

\* The state of a connection after a message within the budget.
Handled(c, m) ==
  CASE m.type = "ping" -> {Sent(c)}
    [] m.type = "subscribe" -> {Sent([c EXCEPT !.subs = g]) : g \in Granted(c, m.categories)}
    [] m.type = "unsubscribe" -> {Sent([c EXCEPT !.subs = @ \ (m.categories \cap options.allowedCategories)])}
    [] OTHER -> {Closing(c)}

ClientMessages ==
  [type : {"ping", "bad"}, categories : {{}}]
    \cup [type : {"subscribe", "unsubscribe"}, categories : SUBSET Categories \ {{}}]

\* A peer whose socket is closing here is still heard.
HandleMessage(s) ==
  /\ conn[s].mapped /\ ~conn[s].silent
  /\ LET heard == [conn[s] EXCEPT !.active = now, !.alive = TRUE]
         id == IdOf[conn[s].token]
     IN  IF Cardinality(Pruned[id]) >= options.maxMessages
           THEN /\ conn' = [conn EXCEPT ![s] = Closing(heard)]
                /\ messageLog' = Pruned
                /\ UNCHANGED accepted
           ELSE /\ messageLog' = [Pruned EXCEPT ![id] = @ \cup {Stamp(id)}]
                /\ accepted' = [accepted EXCEPT ![id] = @ \cup {Stamp(id)}]
                /\ \E m \in ClientMessages : \E c \in Handled(heard, m) :
                     conn' = [conn EXCEPT ![s] = c]
  /\ UNCHANGED <<options, hub, now>>

BroadcastEvent(category) ==
  /\ hub /\ category \in options.allowedCategories
  /\ conn' = [s \in Sockets |->
                IF conn[s].mapped /\ category \in conn[s].subs /\ CanRead(conn[s].token, category)
                  THEN Sent(conn[s]) ELSE conn[s]]
  /\ UNCHANGED <<options, hub, now, messageLog, accepted>>

\* The socket takes a message off its buffer, or fails to and is terminated.
Drain(s) ==
  /\ conn[s].ready = "open" /\ conn[s].queue > 0
  /\ \/ conn' = [conn EXCEPT ![s].queue = @ - 1]
     \/ conn' = [conn EXCEPT ![s].ready = "closing"]
  /\ UNCHANGED <<options, hub, now, messageLog, accepted>>

--------------------------------------------------------------------------
(* Liveness of the peers                                                   *)

Pong(s) ==
  /\ conn[s].mapped /\ ~conn[s].silent
  /\ conn' = [conn EXCEPT ![s].alive = TRUE]
  /\ UNCHANGED <<options, hub, now, messageLog, accepted>>

\* The peer is gone and its connection is not reset.
FallsSilent(s) ==
  /\ conn[s].ready = "open" /\ ~conn[s].silent
  /\ conn' = [conn EXCEPT ![s].silent = TRUE]
  /\ UNCHANGED <<options, hub, now, messageLog, accepted>>

\* One connection under checkLiveness: idle or unanswered, it is closed.
Checked(c) ==
  IF c.ready # "open" THEN c
  ELSE IF now > c.active + options.idleTimeout \/ ~c.alive THEN Closing(c)
  ELSE [c EXCEPT !.alive = FALSE]

CheckLiveness ==
  /\ hub
  /\ conn' = [s \in Sockets |-> IF conn[s].mapped THEN Checked(conn[s]) ELSE conn[s]]
  /\ UNCHANGED <<options, hub, now, messageLog, accepted>>

Close ==
  /\ hub /\ hub' = FALSE
  /\ conn' = [s \in Sockets |-> IF conn[s].mapped THEN [Closing(conn[s]) EXCEPT !.mapped = FALSE]
                                ELSE conn[s]]
  /\ messageLog' = [p \in Ids |-> {}]
  /\ UNCHANGED <<options, now, accepted>>

Tick == now < MaxTime /\ now' = now + 1 /\ UNCHANGED <<options, hub, conn, messageLog, accepted>>

Next ==
  \/ \E s \in Sockets, t \in Tokens : Upgrade(s, t)
  \/ \E s \in Sockets : \/ SocketError(s) \/ PeerLeaves(s) \/ Closed(s) \/ HandleMessage(s)
                        \/ Drain(s) \/ Pong(s) \/ FallsSilent(s)
  \/ \E c \in Categories : BroadcastEvent(c)
  \/ CheckLiveness \/ Close \/ Tick

\* The timer of the hub runs, and a socket that closes is closed in the end.
Fairness == WF_vars(CheckLiveness) /\ \A s \in Sockets : WF_vars(Closed(s))

Spec == Init /\ [][Next]_vars /\ Fairness

--------------------------------------------------------------------------
(* Properties                                                              *)

TypeOK ==
  /\ options \in OptionSets /\ hub \in BOOLEAN /\ now \in 0..MaxTime
  /\ \A s \in Sockets :
       /\ conn[s].ready \in {"none", "open", "closing"}
       /\ conn[s].ready = "open" /\ hub => conn[s].mapped
       /\ conn[s].mapped => conn[s].token \in Tokens /\ conn[s].ready # "none"
       /\ conn[s].subs \subseteq Categories
  /\ \A p \in Ids : Cardinality(messageLog[p]) <= options.maxMessages

\* However connections open, fail and close, a principal never holds more
\* open sockets than its share, under whichever of its tokens they were
\* opened, nor do all of them together (lines 150-157).
ConnectionsBounded ==
  LET open(T) == Cardinality({s \in Sockets : conn[s].ready = "open" /\ conn[s].token \in T})
  IN  /\ open(Tokens) <= options.maxConnections
      /\ \A p \in Ids : open({t \in Tokens : IdOf[t] = p}) <= options.maxConnectionsPerPrincipal

\* After any sequence of requests a connection is subscribed to categories
\* that are published and that its own token may read, and to no more than
\* the limit (updateSubscriptions).
SubscriptionsWithinScope ==
  \A s \in Connections :
    /\ \A c \in conn[s].subs : c \in options.allowedCategories /\ CanRead(conn[s].token, c)
    /\ Cardinality(conn[s].subs) <= options.maxSubscriptions

\* No window, wherever it starts, holds more accepted messages of one
\* principal than its budget, over all its sockets and over reconnects
\* (consumeMessageBudget, pruneMessageLog).
MessagesBounded ==
  \A p \in Ids : \A m \in accepted[p] :
    Cardinality({x \in accepted[p] : x.at \in m.at..(m.at + options.window)})
      <= options.maxMessages

\* A hub that was closed leaves no socket open, not even one whose upgrade,
\* error or message came just before (close).
NothingOutlivesTheHub == ~hub => \A s \in Sockets : conn[s].ready # "open"

\* A peer that vanished without a word loses its connection, so it does not
\* count for ever against the limits (checkLiveness).
NoGhost(s) == hub /\ conn[s].silent => conn[s].ready = "none"
SilentPeersLeave == \A s \in Sockets : []<>NoGhost(s)
=============================================================================
