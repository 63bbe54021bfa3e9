------------------------------ MODULE MCPClient ------------------------------
(***************************************************************************)
(* shared/src/client/MCPClient.ts over transport/http.ts: requests matched *)
(* to answers by id, one timer per request, connect() with its handshake,  *)
(* disconnect(), and the delegate connection each start() creates.         *)
(*                                                                         *)
(* connect() call k creates the delegate k and sends the initialize        *)
(* request k, so one name serves for all three.  pc[x] is the await at     *)
(* which connect() or disconnect() x stands.  A delegate that was replaced *)
(* stays bound: its messages and its close event still reach the client.   *)
(***************************************************************************)
EXTENDS Naturals, FiniteSets

CONSTANTS
  Calls,        \* request() calls of the application
  Connects,     \* connect() calls
  Disconnects,  \* disconnect() calls
  None,
  Serial,       \* the application awaits each call and disconnects before it reconnects
  MayDrop       \* a connection may end on its own, as a child process does

ClientAssumption ==
  /\ Calls \cap Connects = {} /\ Disconnects \cap (Calls \cup Connects) = {}
  /\ None \notin Calls \cup Connects \cup Disconnects
  /\ {Serial, MayDrop} \subseteq BOOLEAN

Ids == Calls \cup Connects
Openers == Connects \cup Disconnects

VARIABLES
  isConnected, pending,        \* MCPClient
  timers,                      \* armed request timers
  result, via,                 \* per request: its promise; the delegate it was sent on
  started, closed, delegate,   \* StreamableHTTPTransport
  dstate,                      \* per delegate: the connection itself
  pc, closing                  \* connect() and disconnect() calls; what they are closing

clientVars == <<isConnected, pending, timers, result, via>>
transportVars == <<started, closed, delegate, dstate>>
callVars == <<pc, closing>>
vars == <<clientVars, transportVars, callVars>>

Settled == {"answered", "refused", "timeout", "closed", "sendFailed"}
Ended == {"connected", "failed", "done"}

Init ==
  /\ isConnected = FALSE /\ pending = {} /\ timers = {}
  /\ result = [r \in Ids |-> "idle"]
  /\ via = [r \in Ids |-> None]
  /\ started = FALSE /\ closed = FALSE /\ delegate = None
  /\ dstate = [d \in Connects |-> "unused"]
  /\ pc = [x \in Openers |-> "new"]
  /\ closing = [x \in Openers |-> None]

Goto(x, where) == pc' = [pc EXCEPT ![x] = where]

--------------------------------------------------------------------------
(* request() and the four ways its promise settles                         *)

Issue(r) ==
  /\ pending' = pending \cup {r}
  /\ timers' = timers \cup {r}
  /\ result' = [result EXCEPT ![r] = "waiting"]
  /\ via' = [via EXCEPT ![r] = delegate]

\* Variant with a bug: the answer leaves the timer armed.
SettleKeepTimer(r, outcome) ==
  /\ pending' = pending \ {r}
  /\ result' = [result EXCEPT ![r] = outcome]
  /\ UNCHANGED <<isConnected, via, timers>>

Settle(r, outcome) ==
  /\ pending' = pending \ {r}
  /\ timers' = timers \ {r}
  /\ result' = [result EXCEPT ![r] = outcome]
  /\ UNCHANGED <<isConnected, via>>

Request(r) ==
  /\ result[r] = "idle"
  /\ isConnected
  /\ Issue(r)
  /\ UNCHANGED <<isConnected, transportVars, callVars>>

\* transport.send() rejects: always without a delegate, otherwise it may.
SendFails(r) ==
  /\ r \in pending
  /\ Settle(r, "sendFailed")
  /\ UNCHANGED <<transportVars, callVars>>

\* Variant with a bug: any answer settles whoever waits.
HandleAnyMessage(r) ==
  /\ via[r] # None /\ dstate[via[r]] \in {"open", "terminating"}
  /\ \E s \in pending, outcome \in {"answered", "refused"} : Settle(s, outcome)
  /\ UNCHANGED <<transportVars, callVars>>

\* A response with this id arrives on the connection the request went out on;
\* a second one, or one after the timer, finds no entry and changes nothing.
HandleMessage(r) ==
  /\ via[r] # None /\ dstate[via[r]] \in {"open", "terminating"}
  /\ r \in pending
  /\ \E outcome \in {"answered", "refused"} : Settle(r, outcome)
  /\ UNCHANGED <<transportVars, callVars>>

Timeout(r) ==
  /\ r \in timers
  /\ Settle(r, "timeout")
  /\ UNCHANGED <<transportVars, callVars>>

\* Variant with a bug: the requests in flight are forgotten.
CloseEventQuiet ==
  /\ isConnected' = FALSE
  /\ pending' = {} /\ timers' = timers \ pending
  /\ UNCHANGED <<result, via>>

\* transport "close"
CloseEvent ==
  /\ isConnected' = FALSE
  /\ pending' = {} /\ timers' = timers \ pending
  /\ result' = [r \in Ids |-> IF r \in pending THEN "closed" ELSE result[r]]
  /\ UNCHANGED via

--------------------------------------------------------------------------
(* connect()                                                               *)

InFlight(x) == pc[x] \notin {"new"} \cup Ended
MayCall == Serial => \A x \in Openers : ~InFlight(x)

\* start(): nothing if the transport believes it is started.
Connect(k) ==
  /\ pc[k] = "new" /\ MayCall /\ (Serial => delegate = None)
  /\ Goto(k, "opening")
  /\ IF started THEN UNCHANGED transportVars
     ELSE /\ closed' = FALSE /\ delegate' = k
          /\ dstate' = [dstate EXCEPT ![k] = "starting"]
          /\ UNCHANGED started
  /\ UNCHANGED <<clientVars, closing>>

\* The delegate is up; the caller may have given up on it.
DelegateOpens(k) ==
  /\ dstate[k] = "starting"
  /\ dstate' = [dstate EXCEPT ![k] = "open"]
  /\ started' = (started \/ pc[k] # "opening")
  /\ UNCHANGED <<clientVars, closed, delegate, callVars>>

StartFails(k) ==
  /\ dstate[k] = "starting"
  /\ dstate' = [dstate EXCEPT ![k] = "closed"]
  /\ IF pc[k] = "opening" THEN Goto(k, "failed") ELSE UNCHANGED pc
  /\ UNCHANGED <<clientVars, started, closed, delegate, closing>>

\* withTimeout() around start() and around the handshake.
ConnectTimesOut(k) ==
  /\ pc[k] \in {"opening", "initializing"}
  /\ Goto(k, "failed")
  /\ UNCHANGED <<clientVars, transportVars, closing>>

\* start() has returned, at once or because its delegate opened (and may have
\* been closed again in the same turn): the client counts as connected and
\* the initialize request goes out on whatever delegate there is.
Opened(k) ==
  /\ pc[k] = "opening" /\ dstate[k] # "starting"
  /\ started' = TRUE
  /\ isConnected' = TRUE
  /\ Issue(k)
  /\ Goto(k, "initializing")
  /\ UNCHANGED <<closed, delegate, dstate, closing>>

HandshakeFails(k) ==
  /\ pc[k] = "initializing" /\ result[k] \in Settled \ {"answered"}
  /\ Goto(k, "failed")
  /\ UNCHANGED <<clientVars, transportVars, closing>>

\* A supported version: the initialized notification goes out if still connected.
Handshake(k) ==
  /\ pc[k] = "initializing" /\ result[k] = "answered"
  /\ Goto(k, IF isConnected /\ delegate # None THEN "notifying" ELSE "failed")
  /\ UNCHANGED <<clientVars, transportVars, closing>>

Notified(k) ==
  /\ pc[k] = "notifying"
  /\ Goto(k, "connected") \/ Goto(k, "failed")
  /\ UNCHANGED <<clientVars, transportVars, closing>>

--------------------------------------------------------------------------
(* disconnect() and the transport's close()                                *)

\* x calls disconnect() and awaits in `there`; without a delegate the close
\* event is emitted at once, and on a closed transport there is none at all.
Disconnecting(x, there, over) ==
  /\ closed' = TRUE
  /\ IF closed
     THEN /\ isConnected' = FALSE /\ Goto(x, over)
          /\ UNCHANGED <<pending, timers, result, via, started, delegate, dstate, closing>>
     ELSE /\ started' = FALSE /\ delegate' = None
          /\ IF delegate = None
             THEN CloseEvent /\ Goto(x, over) /\ UNCHANGED <<dstate, closing>>
             ELSE /\ dstate' = [dstate EXCEPT ![delegate] = "terminating"]
                  /\ closing' = [closing EXCEPT ![x] = delegate]
                  /\ Goto(x, there)
                  /\ UNCHANGED clientVars

Disconnect(q) == pc[q] = "new" /\ MayCall /\ Disconnecting(q, "closing", "done")

\* Unsupported protocol version: connect() disconnects, then throws.
Reject(k) ==
  /\ pc[k] = "initializing" /\ result[k] = "answered"
  /\ Disconnecting(k, "rejecting", "failed")

\* terminateSession() is over, one way or the other, and delegate.close()
\* makes the delegate emit its close event.
DelegateCloses(x) ==
  /\ pc[x] \in {"closing", "rejecting"}
  /\ dstate' = [dstate EXCEPT ![closing[x]] = "closed"]
  /\ CloseEvent
  /\ closing' = [closing EXCEPT ![x] = None]
  /\ Goto(x, IF x \in Disconnects THEN "done" ELSE "failed")
  /\ UNCHANGED <<started, closed, delegate>>

\* The connection ends on its own.
Drop(d) ==
  /\ MayDrop /\ dstate[d] = "open"
  /\ dstate' = [dstate EXCEPT ![d] = "closed"]
  /\ CloseEvent
  /\ UNCHANGED <<started, closed, delegate, callVars>>

--------------------------------------------------------------------------

Next ==
  \/ \E r \in Calls : Request(r)
  \/ \E r \in Ids : SendFails(r) \/ HandleMessage(r) \/ Timeout(r)
  \/ \E k \in Connects :
       \/ Connect(k) \/ DelegateOpens(k) \/ StartFails(k) \/ ConnectTimesOut(k)
       \/ Opened(k) \/ HandshakeFails(k) \/ Handshake(k) \/ Notified(k)
       \/ Reject(k) \/ Drop(k)
  \/ \E q \in Disconnects : Disconnect(q)
  \/ \E x \in Openers : DelegateCloses(x)

Spec == Init /\ [][Next]_vars

\* Timers fire and settled promises resume; nothing is assumed of the peer.
Fairness ==
  /\ \A r \in Ids : WF_vars(Timeout(r))
  /\ \A k \in Connects : WF_vars(ConnectTimesOut(k)) /\ WF_vars(Opened(k))
                         /\ WF_vars(HandshakeFails(k) \/ Handshake(k) \/ Reject(k))

FairSpec == Spec /\ Fairness

--------------------------------------------------------------------------

\* The state of the client, the transport and every call is well formed.
TypeOK ==
  /\ isConnected \in BOOLEAN /\ pending \subseteq Ids /\ timers \subseteq Ids
  /\ result \in [Ids -> {"idle", "waiting"} \cup Settled]
  /\ via \in [Ids -> Connects \cup {None}]
  /\ started \in BOOLEAN /\ closed \in BOOLEAN /\ delegate \in Connects \cup {None}
  /\ dstate \in [Connects -> {"unused", "starting", "open", "terminating", "closed"}]
  /\ pc \in [Openers -> {"new", "opening", "initializing", "notifying", "closing",
                         "rejecting"} \cup Ended]
  /\ closing \in [Openers -> Connects \cup {None}]

\* However timer, answer, failing send and close race: an unsettled promise has
\* an entry and a timer that will end it, and nothing else has either.
EntryPerWaiter ==
  \A r \in Ids : /\ r \in pending <=> result[r] = "waiting"
                 /\ r \in timers <=> result[r] = "waiting"

\* An answer settles the request whose id it carries: whatever the order of
\* messages, timers and closes, an outcome is never replaced by a later one.
OutcomeStays == \A r \in Ids : result[r] \in Settled => result'[r] = result[r]
OutcomeIsFinal == [][OutcomeStays]_vars

\* A request is answered only over the connection it was sent on, while that
\* connection is there.
AnswerComesBack ==
  \A r \in Ids : result[r] = "waiting" /\ result'[r] \in {"answered", "refused"}
    => via[r] # None /\ dstate[via[r]] \in {"open", "terminating"}
AnsweredWhereAsked == [][AnswerComesBack]_vars

\* When a connection goes down, whichever it is, no request stays behind.
CloseEndsWaits ==
  (\E d \in Connects : dstate[d] \in {"open", "terminating"} /\ dstate'[d] = "closed")
    => \A r \in Ids : result'[r] # "waiting"
CloseLeavesNobodyWaiting == [][CloseEndsWaits]_vars

\* For an application with that discipline, and connections that do not drop, a
\* client that counts as connected between two calls has a live connection,
\* however connects time out, delegates open late and handshakes fail.
ConnectedMeansOpen ==
  isConnected /\ (\A x \in Openers : ~InFlight(x))
    => delegate # None /\ dstate[delegate] = "open"

\* Every request settles, and connect() leaves the transport's opening and the
\* handshake behind, whatever the peer and the connection do, even if the
\* transport never opens and the server never answers.
NobodyWaits ==
  /\ \A r \in Ids : result[r] # "waiting"
  /\ \A k \in Connects : pc[k] \notin {"opening", "initializing"}
RequestsSettle == []<>NobodyWaits
==========================================================================
