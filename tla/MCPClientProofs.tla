-------------------------- MODULE MCPClientProofs --------------------------
(***************************************************************************)
(* Theorems about MCPClient, for any number of calls, connects and         *)
(* disconnects.                                                            *)
(*                                                                         *)
(* That a promise has its entry and its timer exactly while it is not      *)
(* settled is inductive as it stands; that no outcome is replaced rests    *)
(* also on Fresh, since a connect() issues a request of its own.  What     *)
(* "connected" means needs the discipline of the application (Turns): one  *)
(* connect() or disconnect() at a time, each on a transport that has no    *)
(* delegate but its own.                                                   *)
(***************************************************************************)
EXTENDS MCPClient, TLAPS

\* No request has gone out for a connect() that is still opening.
Fresh == \A k \in Connects : pc[k] \in {"new", "opening"} => result[k] = "idle"

Turns ==
  Serial /\ ~MayDrop =>
    /\ \A x, y \in Openers : InFlight(x) /\ InFlight(y) => x = y
    /\ started => delegate # None
    /\ \A d \in Connects : dstate[d] = "starting" => delegate = d
    /\ \A k \in Connects : pc[k] = "opening" => delegate = k /\ dstate[k] \in {"starting", "open"}
    /\ isConnected => \/ delegate # None /\ dstate[delegate] = "open"
                      \/ \E x \in Openers : pc[x] \in {"closing", "rejecting"}

WaitInv == TypeOK /\ EntryPerWaiter /\ Fresh
Steps == OutcomeStays /\ AnswerComesBack /\ CloseEndsWaits
ClientInv == WaitInv /\ (closed => delegate = None) /\ Turns

--------------------------------------------------------------------------
(* Waits and outcomes                                                      *)

\* A step that leaves every request alone and closes no connection.
LEMMA QuietStep ==
  ASSUME WaitInv, UNCHANGED clientVars, TypeOK',
         \A k \in Connects : pc'[k] \in {"new", "opening"} => pc[k] \in {"new", "opening"},
         \A d \in Connects : dstate[d] \in {"open", "terminating"} => dstate'[d] # "closed"
  PROVE  WaitInv' /\ Steps
<1>1. EntryPerWaiter' /\ Fresh'
  BY DEF WaitInv, EntryPerWaiter, Fresh, clientVars
<1>2. OutcomeStays /\ AnswerComesBack /\ CloseEndsWaits
  BY DEF OutcomeStays, AnswerComesBack, CloseEndsWaits, clientVars
<1>3. QED BY <1>1, <1>2 DEF WaitInv, Steps

LEMMA SettleStep ==
  ASSUME ClientAssumption, WaitInv, NEW r \in Ids, r \in pending, NEW outcome \in Settled, Settle(r, outcome),
         UNCHANGED <<transportVars, callVars>>,
         outcome \in {"answered", "refused"} => via[r] # None /\ dstate[via[r]] \in {"open", "terminating"}
  PROVE  WaitInv' /\ Steps
<1>1. /\ result[r] = "waiting" /\ result' = [result EXCEPT ![r] = outcome]
      /\ pending' = pending \ {r} /\ timers' = timers \ {r}
      /\ result \in [Ids -> {"idle", "waiting"} \cup Settled]
      /\ UNCHANGED <<isConnected, via, started, closed, delegate, dstate, pc, closing>>
  BY DEF WaitInv, EntryPerWaiter, TypeOK, Settle, transportVars, callVars
<1>2. TypeOK'
  BY <1>1 DEF WaitInv, TypeOK
<1>3. EntryPerWaiter'
  BY <1>1 DEF WaitInv, EntryPerWaiter, Settled
<1>4. Fresh'
  BY <1>1 DEF WaitInv, Fresh, Ids
<1>5. OutcomeStays /\ AnswerComesBack /\ CloseEndsWaits
  BY <1>1 DEF OutcomeStays, AnswerComesBack, CloseEndsWaits, Settled
<1>6. QED BY <1>2, <1>3, <1>4, <1>5 DEF WaitInv, Steps

LEMMA IssueStep ==
  ASSUME ClientAssumption, WaitInv, NEW r \in Ids, result[r] = "idle", Issue(r),
         UNCHANGED <<closed, delegate, dstate, closing>>,
         isConnected' \in BOOLEAN, started' \in BOOLEAN,
         \/ r \in Calls /\ UNCHANGED pc
         \/ r \in Connects /\ Goto(r, "initializing")
  PROVE  WaitInv' /\ Steps
<1>1. /\ result' = [result EXCEPT ![r] = "waiting"] /\ via' = [via EXCEPT ![r] = delegate]
      /\ pending' = pending \cup {r} /\ timers' = timers \cup {r}
      /\ result \in [Ids -> {"idle", "waiting"} \cup Settled]
  BY DEF WaitInv, TypeOK, Issue
<1>2. TypeOK'
  BY <1>1, Zenon DEF WaitInv, TypeOK, Goto, Openers
<1>3. EntryPerWaiter'
  BY <1>1 DEF WaitInv, EntryPerWaiter
<1>4. Fresh'
  BY <1>1 DEF WaitInv, Fresh, Ids, Goto, TypeOK, Openers, ClientAssumption
<1>5. OutcomeStays /\ AnswerComesBack /\ CloseEndsWaits
  BY <1>1 DEF OutcomeStays, AnswerComesBack, CloseEndsWaits, Settled
<1>6. QED BY <1>2, <1>3, <1>4, <1>5 DEF WaitInv, Steps

LEMMA CloseStep ==
  ASSUME ClientAssumption, WaitInv, CloseEvent,
         started' \in BOOLEAN, closed' \in BOOLEAN, delegate' \in Connects \cup {None},
         dstate' \in [Connects -> {"unused", "starting", "open", "terminating", "closed"}],
         pc' \in [Openers -> {"new", "opening", "initializing", "notifying", "closing",
                              "rejecting"} \cup Ended],
         closing' \in [Openers -> Connects \cup {None}],
         \A k \in Connects : pc'[k] \in {"new", "opening"} => pc'[k] = pc[k]
  PROVE  WaitInv' /\ Steps
<1>1. /\ isConnected' = FALSE /\ pending' = {} /\ timers' = timers \ pending
      /\ result' = [r \in Ids |-> IF r \in pending THEN "closed" ELSE result[r]]
      /\ via' = via
      /\ result \in [Ids -> {"idle", "waiting"} \cup Settled]
  BY DEF WaitInv, TypeOK, CloseEvent
<1>2. \A r \in Ids : /\ r \in pending <=> result[r] = "waiting"
                     /\ r \in timers <=> result[r] = "waiting"
  BY DEF WaitInv, EntryPerWaiter
<1>3. \A r \in Ids : result'[r] # "waiting"
  BY <1>1, <1>2
<1>4. TypeOK'
  <2>1. result' \in [Ids -> {"idle", "waiting"} \cup Settled]
    BY <1>1 DEF Settled
  <2>2. timers' = {} /\ isConnected' \in BOOLEAN
    BY <1>1, <1>2 DEF WaitInv, TypeOK
  <2>3. QED BY <1>1, <2>1, <2>2 DEF WaitInv, TypeOK
<1>5. EntryPerWaiter'
  BY <1>1, <1>2, <1>3 DEF EntryPerWaiter
<1>6. Fresh'
  <2> SUFFICES ASSUME NEW k \in Connects, pc'[k] \in {"new", "opening"} PROVE result'[k] = "idle"
    BY DEF Fresh
  <2>1. result[k] = "idle" /\ k \in Ids
    BY DEF WaitInv, Fresh, Ids
  <2>2. QED BY <1>1, <1>2, <2>1
<1>7. OutcomeStays /\ AnswerComesBack /\ CloseEndsWaits
  BY <1>1, <1>2, <1>3 DEF OutcomeStays, AnswerComesBack, CloseEndsWaits, Settled
<1>8. QED BY <1>4, <1>5, <1>6, <1>7 DEF WaitInv, Steps
LEMMA DisconnectingStep ==
  ASSUME ClientAssumption, WaitInv, NEW x \in Openers, pc[x] \in {"new", "initializing"},
         NEW there \in {"closing", "rejecting"}, NEW over \in Ended, Disconnecting(x, there, over)
  PROVE  WaitInv' /\ Steps
<1>1. /\ closed' = TRUE
      /\ pc' = [pc EXCEPT ![x] = there] \/ pc' = [pc EXCEPT ![x] = over]
      /\ pc' \in [Openers -> {"new", "opening", "initializing", "notifying", "closing",
                              "rejecting"} \cup Ended]
      /\ \A k \in Connects : pc'[k] \in {"new", "opening"} => pc'[k] = pc[k]
  BY DEF Disconnecting, Goto, WaitInv, TypeOK, Ended, Openers
<1>2. CASE closed
  <2>1. /\ isConnected' = FALSE
        /\ UNCHANGED <<pending, timers, result, via, started, delegate, dstate, closing>>
    BY <1>2 DEF Disconnecting
  <2>2. TypeOK'
    BY <1>1, <2>1 DEF WaitInv, TypeOK
  <2>3. EntryPerWaiter' /\ Fresh'
    BY <1>1, <2>1 DEF WaitInv, EntryPerWaiter, Fresh
  <2>4. OutcomeStays /\ AnswerComesBack /\ CloseEndsWaits
    BY <2>1 DEF OutcomeStays, AnswerComesBack, CloseEndsWaits
  <2>5. QED BY <2>2, <2>3, <2>4 DEF WaitInv, Steps
<1>3. CASE ~closed /\ delegate = None
  <2>1. CloseEvent /\ started' = FALSE /\ delegate' = None /\ UNCHANGED <<dstate, closing>>
    BY <1>3 DEF Disconnecting
  <2>2. QED BY <1>1, <2>1, CloseStep DEF WaitInv, TypeOK
<1>4. CASE ~closed /\ delegate # None
  <2>1. /\ started' = FALSE /\ delegate' = None
        /\ dstate' = [dstate EXCEPT ![delegate] = "terminating"]
        /\ closing' = [closing EXCEPT ![x] = delegate]
        /\ UNCHANGED clientVars
    BY <1>4 DEF Disconnecting
  <2>2. TypeOK'
    BY <1>1, <2>1 DEF WaitInv, TypeOK, clientVars
  <2>3. \A d \in Connects : dstate[d] \in {"open", "terminating"} => dstate'[d] # "closed"
    BY <2>1 DEF WaitInv, TypeOK
  <2>4. QED BY <1>1, <2>1, <2>2, <2>3, QuietStep
<1>5. QED BY <1>2, <1>3, <1>4

LEMMA WaitStep == ASSUME ClientAssumption, WaitInv, [Next]_vars PROVE WaitInv' /\ Steps
<1>0. TypeOK /\ Connects \subseteq Ids /\ Connects \subseteq Openers /\ Calls \subseteq Ids
  BY DEF WaitInv, Ids, Openers
<1>1. CASE \E r \in Calls : Request(r)
  BY <1>0, <1>1, IssueStep DEF Request, transportVars, callVars, TypeOK
<1>2. CASE \E r \in Ids : SendFails(r) \/ HandleMessage(r) \/ Timeout(r)
  <2>1. PICK r \in Ids : SendFails(r) \/ HandleMessage(r) \/ Timeout(r)
    BY <1>2
  <2>2. CASE SendFails(r)
    BY <2>2, SettleStep DEF SendFails, Settled
  <2>3. CASE HandleMessage(r)
    BY <2>3, SettleStep DEF HandleMessage, Settled
  <2>4. CASE Timeout(r)
    BY <2>4, SettleStep DEF Timeout, Settled, WaitInv, EntryPerWaiter
  <2>5. QED BY <2>1, <2>2, <2>3, <2>4
<1>3. ASSUME NEW k \in Connects,
             Connect(k) \/ DelegateOpens(k) \/ StartFails(k) \/ ConnectTimesOut(k)
               \/ HandshakeFails(k) \/ Handshake(k) \/ Notified(k)
      PROVE  WaitInv' /\ Steps
  <2>1. UNCHANGED clientVars
    BY <1>3 DEF Connect, DelegateOpens, StartFails, ConnectTimesOut, HandshakeFails, Handshake,
                Notified
  <2>2. TypeOK'
    <3>1. CASE Connect(k)
      BY <1>0, <2>1, <3>1 DEF Connect, Goto, TypeOK, clientVars, transportVars
    <3>2. CASE DelegateOpens(k)
      <4>1. /\ dstate' = [dstate EXCEPT ![k] = "open"] /\ started' \in BOOLEAN
            /\ UNCHANGED <<closed, delegate, callVars>>
        BY <3>2, Zenon DEF DelegateOpens, TypeOK
      <4>2. QED BY <1>0, <2>1, <4>1 DEF TypeOK, clientVars, callVars
    <3>3. CASE StartFails(k)
      BY <1>0, <2>1, <3>3 DEF StartFails, Goto, TypeOK, clientVars, Ended
    <3>4. CASE ConnectTimesOut(k) \/ HandshakeFails(k) \/ Handshake(k) \/ Notified(k)
      BY <1>0, <2>1, <3>4 DEF ConnectTimesOut, HandshakeFails, Handshake, Notified, Goto, TypeOK,
                              clientVars, transportVars, Ended
    <3>5. QED BY <1>3, <3>1, <3>2, <3>3, <3>4
  <2>3. \A j \in Connects : pc'[j] \in {"new", "opening"} => pc[j] \in {"new", "opening"}
    BY <1>0, <1>3 DEF Connect, DelegateOpens, StartFails, ConnectTimesOut, HandshakeFails,
                      Handshake, Notified, Goto, TypeOK, callVars
  <2>4. \A d \in Connects : dstate[d] \in {"open", "terminating"} => dstate'[d] # "closed"
    BY <1>0, <1>3 DEF Connect, DelegateOpens, StartFails, ConnectTimesOut, HandshakeFails,
                      Handshake, Notified, TypeOK, transportVars
  <2>5. QED BY <2>1, <2>2, <2>3, <2>4, QuietStep
<1>4. ASSUME NEW k \in Connects, Opened(k) PROVE WaitInv' /\ Steps
  BY <1>0, <1>4, IssueStep DEF Opened, WaitInv, Fresh
<1>5. ASSUME NEW k \in Connects, Reject(k) PROVE WaitInv' /\ Steps
  BY <1>0, <1>5, DisconnectingStep DEF Reject, Ended
<1>6. ASSUME NEW d \in Connects, Drop(d) PROVE WaitInv' /\ Steps
  BY <1>0, <1>6, CloseStep DEF Drop, callVars, TypeOK
<1>7. ASSUME NEW q \in Disconnects, Disconnect(q) PROVE WaitInv' /\ Steps
  BY <1>7, DisconnectingStep DEF Disconnect, Ended, Openers
<1>8. ASSUME NEW x \in Openers, DelegateCloses(x) PROVE WaitInv' /\ Steps
  BY <1>0, <1>8, CloseStep DEF DelegateCloses, Goto, TypeOK, Ended
<1>9. CASE UNCHANGED vars
  <2>1. UNCHANGED clientVars /\ UNCHANGED <<pc, dstate>> /\ TypeOK'
    BY <1>0, <1>9 DEF vars, clientVars, transportVars, callVars, TypeOK
  <2>2. QED BY <2>1, QuietStep
<1>10. QED BY <1>1, <1>2, <1>3, <1>4, <1>5, <1>6, <1>7, <1>8, <1>9 DEF Next

--------------------------------------------------------------------------
(* What "connected" means                                                  *)

AtMostOne == \A x, y \in Openers : InFlight(x) /\ InFlight(y) => x = y

\* Nobody new is in flight.
LEMMA NobodyNew ==
  ASSUME AtMostOne, \A x \in Openers : InFlight(x)' => InFlight(x)
  PROVE  AtMostOne'
BY DEF AtMostOne

\* A call enters while nobody is in flight.
LEMMA EntersAlone ==
  ASSUME TypeOK, NEW x \in Openers, NEW where, \A y \in Openers : ~InFlight(y), Goto(x, where)
  PROVE  AtMostOne'
BY DEF AtMostOne, InFlight, Goto, TypeOK

\* disconnect(), or the one of a rejected version, among calls in turn.
LEMMA TurnsDisconnecting ==
  ASSUME ClientAssumption, ClientInv, Serial, ~MayDrop,
         NEW x \in Openers, \A y \in Openers \ {x} : ~InFlight(y), pc[x] \in {"new", "initializing"},
         NEW there \in {"closing", "rejecting"}, NEW over \in Ended, Disconnecting(x, there, over)
  PROVE  Turns' /\ (closed => delegate = None)'
<1>1. /\ TypeOK /\ Turns /\ closed' = TRUE
      /\ \A y \in Openers \ {x} : pc'[y] = pc[y]
      /\ pc'[x] \in {there, over}
  BY DEF ClientInv, WaitInv, TypeOK, Disconnecting, Goto, Ended
<1>2. AtMostOne'
  BY <1>1 DEF AtMostOne, InFlight
<1>3. \A k \in Connects : pc'[k] # "opening"
  <2> SUFFICES ASSUME NEW k \in Connects, k # x PROVE pc'[k] # "opening"
    BY <1>1 DEF Ended
  <2>1. ~InFlight(k) /\ pc'[k] = pc[k]
    BY <1>1 DEF Openers
  <2>2. QED BY <2>1 DEF InFlight, Ended
<1>4. CASE closed
  <2>1. isConnected' = FALSE /\ UNCHANGED <<started, delegate, dstate>> /\ delegate = None
    BY <1>4 DEF Disconnecting, ClientInv
  <2>2. QED BY <1>1, <1>2, <1>3, <2>1 DEF Turns, AtMostOne
<1>5. CASE ~closed /\ delegate = None
  <2>1. isConnected' = FALSE /\ started' = FALSE /\ delegate' = None /\ UNCHANGED dstate
    BY <1>5 DEF Disconnecting, CloseEvent
  <2>2. QED BY <1>1, <1>2, <1>3, <1>5, <2>1 DEF Turns, AtMostOne
<1>6. CASE ~closed /\ delegate # None
  <2>1. /\ started' = FALSE /\ delegate' = None /\ pc'[x] = there
        /\ dstate' = [dstate EXCEPT ![delegate] = "terminating"]
    BY <1>1, <1>6 DEF Disconnecting, Goto, TypeOK
  <2>2. \A d \in Connects : dstate'[d] # "starting"
    <3> SUFFICES ASSUME NEW d \in Connects, dstate'[d] = "starting" PROVE FALSE
      OBVIOUS
    <3>1. d # delegate /\ dstate[d] = "starting"
      BY <1>1, <2>1 DEF TypeOK
    <3>2. QED BY <1>1, <3>1 DEF Turns
  <2>3. QED BY <1>1, <1>2, <1>3, <2>1, <2>2 DEF Turns, AtMostOne
<1>7. QED BY <1>4, <1>5, <1>6

LEMMA TurnsStep ==
  ASSUME ClientAssumption, ClientInv, Serial, ~MayDrop, [Next]_vars
  PROVE  Turns' /\ (closed => delegate = None)'
<1>0. /\ TypeOK /\ Turns /\ AtMostOne /\ (closed => delegate = None)
      /\ Connects \subseteq Openers /\ Disconnects \subseteq Openers
  BY DEF ClientInv, WaitInv, Turns, AtMostOne, Openers
<1>1. ASSUME UNCHANGED <<isConnected, transportVars, callVars>>
      PROVE  Turns' /\ (closed => delegate = None)'
  BY <1>0, <1>1 DEF transportVars, callVars, Turns, InFlight
<1>2. CASE (\E r \in Calls : Request(r))
             \/ (\E r \in Ids : SendFails(r) \/ HandleMessage(r) \/ Timeout(r)) \/ UNCHANGED vars
  BY <1>1, <1>2 DEF Request, SendFails, HandleMessage, Timeout, Settle, vars, clientVars
<1>3. ASSUME NEW k \in Connects, Connect(k) PROVE Turns' /\ (closed => delegate = None)'
  <2>1. /\ pc[k] = "new" /\ Goto(k, "opening") /\ \A y \in Openers : ~InFlight(y)
        /\ delegate = None /\ ~started /\ started' = started
        /\ closed' = FALSE /\ delegate' = k /\ dstate' = [dstate EXCEPT ![k] = "starting"]
        /\ isConnected' = isConnected
    BY <1>0, <1>3 DEF Connect, MayCall, Turns, clientVars
  <2>2. ~isConnected
    <3> SUFFICES ASSUME isConnected PROVE FALSE
      OBVIOUS
    <3>1. PICK y \in Openers : pc[y] \in {"closing", "rejecting"}
      BY <1>0, <2>1 DEF Turns
    <3>2. QED BY <2>1, <3>1 DEF InFlight, Ended
  <2>3. AtMostOne'
    BY <1>0, <2>1, EntersAlone
  <2>4. \A j \in Connects : pc'[j] = "opening" => j = k
    BY <1>0, <2>1 DEF Goto, InFlight, Ended, TypeOK
  <2>5. \A d \in Connects : dstate'[d] = "starting" => d = k
    BY <1>0, <2>1 DEF TypeOK, Turns, ClientAssumption
  <2>6. dstate'[k] = "starting" /\ k # None
    BY <1>0, <2>1 DEF TypeOK, ClientAssumption
  <2>7. QED BY <2>1, <2>2, <2>3, <2>4, <2>5, <2>6 DEF Turns, AtMostOne
<1>4. ASSUME NEW k \in Connects, DelegateOpens(k) PROVE Turns' /\ (closed => delegate = None)'
  <2>1. /\ dstate[k] = "starting" /\ delegate = k /\ k # None
        /\ dstate' = [dstate EXCEPT ![k] = "open"]
        /\ UNCHANGED <<isConnected, closed, delegate, pc>>
    BY <1>0, <1>4 DEF DelegateOpens, Turns, ClientAssumption, clientVars, callVars
  <2>2. AtMostOne'
    BY <1>0, <2>1 DEF AtMostOne, InFlight
  <2>3. /\ dstate'[k] = "open"
        /\ \A d \in Connects : dstate'[d] = "starting" => dstate[d] = "starting"
    BY <1>0, <2>1 DEF TypeOK
  <2>4. QED BY <1>0, <2>1, <2>2, <2>3 DEF Turns, AtMostOne
<1>5. ASSUME NEW k \in Connects, StartFails(k) PROVE Turns' /\ (closed => delegate = None)'
  <2>1. /\ dstate[k] = "starting" /\ delegate = k /\ k # None
        /\ dstate' = [dstate EXCEPT ![k] = "closed"]
        /\ UNCHANGED <<isConnected, started, closed, delegate>>
        /\ pc[k] # "opening" => pc' = pc
        /\ pc[k] = "opening" => pc' = [pc EXCEPT ![k] = "failed"]
    BY <1>0, <1>5 DEF StartFails, Turns, ClientAssumption, clientVars, Goto
  <2>2. \A x \in Openers : pc'[x] = pc[x] \/ (x = k /\ pc[x] = "opening" /\ pc'[x] = "failed")
    BY <1>0, <2>1 DEF TypeOK
  <2>3. AtMostOne'
    BY <1>0, <2>2, NobodyNew DEF InFlight, Ended
  <2>4. \A j \in Connects : pc'[j] # "opening"
    BY <1>0, <2>1, <2>2 DEF Turns, TypeOK
  <2>5. \A d \in Connects : dstate'[d] # "starting"
    BY <1>0, <2>1 DEF Turns, TypeOK
  <2>6. isConnected' => \E x \in Openers : pc'[x] \in {"closing", "rejecting"}
    BY <1>0, <2>1, <2>2 DEF Turns
  <2>7. QED BY <1>0, <2>1, <2>3, <2>4, <2>5, <2>6 DEF Turns, AtMostOne
<1>6. ASSUME NEW k \in Connects,
             ConnectTimesOut(k) \/ HandshakeFails(k) \/ Handshake(k) \/ Notified(k)
      PROVE  Turns' /\ (closed => delegate = None)'
  <2>1. /\ UNCHANGED <<isConnected, started, closed, delegate, dstate>>
        /\ pc[k] \in {"opening", "initializing", "notifying"}
        /\ pc'[k] \in Ended \cup {"notifying"}
        /\ \A x \in Openers \ {k} : pc'[x] = pc[x]
    BY <1>0, <1>6 DEF ConnectTimesOut, HandshakeFails, Handshake, Notified, clientVars,
                      transportVars, Goto, TypeOK, Ended
  <2>2. AtMostOne'
    BY <1>0, <2>1, NobodyNew DEF InFlight, Ended
  <2>3. \A x \in Openers : /\ pc'[x] = "opening" => pc[x] = "opening"
                           /\ pc[x] \in {"closing", "rejecting"} => pc'[x] = pc[x]
    BY <1>0, <2>1 DEF Ended
  <2>4. isConnected => \/ delegate # None /\ dstate[delegate] = "open"
                       \/ \E x \in Openers : pc'[x] \in {"closing", "rejecting"}
    BY <1>0, <2>3 DEF Turns
  <2>5. \A j \in Connects : pc'[j] = "opening" => pc[j] = "opening"
    BY <1>0, <2>3
  <2>6. QED BY <1>0, <2>1, <2>2, <2>4, <2>5 DEF Turns, AtMostOne
<1>7. ASSUME NEW k \in Connects, Opened(k) PROVE Turns' /\ (closed => delegate = None)'
  <2>1. /\ pc[k] = "opening" /\ dstate[k] # "starting" /\ k # None
        /\ Goto(k, "initializing") /\ UNCHANGED <<closed, delegate, dstate>>
    BY <1>7 DEF Opened, ClientAssumption
  <2>2. delegate = k /\ dstate[k] = "open"
    BY <1>0, <2>1 DEF Turns
  <2>3. AtMostOne'
    BY <1>0, <2>1, NobodyNew DEF InFlight, Ended, Goto, TypeOK
  <2>4. \A j \in Connects : pc'[j] = "opening" => pc[j] = "opening"
    BY <1>0, <2>1 DEF Goto, TypeOK
  <2>5. QED BY <1>0, <2>1, <2>2, <2>3, <2>4 DEF Turns, AtMostOne
<1>8. ASSUME NEW k \in Connects, Reject(k) PROVE Turns' /\ (closed => delegate = None)'
  <2>1. pc[k] = "initializing" /\ Disconnecting(k, "rejecting", "failed")
    BY <1>8 DEF Reject
  <2>2. \A y \in Openers \ {k} : ~InFlight(y)
    BY <1>0, <2>1 DEF AtMostOne, InFlight, Ended
  <2>3. QED BY <1>0, <2>1, <2>2, TurnsDisconnecting DEF Ended
<1>9. ASSUME NEW q \in Disconnects, Disconnect(q) PROVE Turns' /\ (closed => delegate = None)'
  BY <1>0, <1>9, TurnsDisconnecting DEF Disconnect, MayCall, Ended
<1>10. ASSUME NEW x \in Openers, DelegateCloses(x) PROVE Turns' /\ (closed => delegate = None)'
  <2>1. /\ pc[x] \in {"closing", "rejecting"} /\ isConnected' = FALSE
        /\ dstate' = [dstate EXCEPT ![closing[x]] = "closed"]
        /\ pc'[x] \in Ended
        /\ \A y \in Openers \ {x} : pc'[y] = pc[y]
        /\ UNCHANGED <<started, closed, delegate>>
    BY <1>0, <1>10 DEF DelegateCloses, CloseEvent, Goto, TypeOK, Ended
  <2>2. AtMostOne'
    BY <1>0, <2>1, NobodyNew DEF InFlight, Ended
  <2>3. \A k \in Connects : pc'[k] # "opening"
    BY <1>0, <2>1 DEF AtMostOne, InFlight, Ended
  <2>4. \A d \in Connects : dstate'[d] = "starting" => dstate[d] = "starting"
    BY <1>0, <2>1 DEF TypeOK
  <2>5. QED BY <1>0, <2>1, <2>2, <2>3, <2>4 DEF Turns, AtMostOne
<1>11. \A d \in Connects : ~Drop(d)
  BY DEF Drop
<1>12. QED BY <1>2, <1>3, <1>4, <1>5, <1>6, <1>7, <1>8, <1>9, <1>10, <1>11 DEF Next

LEMMA ClientInit == ASSUME ClientAssumption, Init PROVE ClientInv
<1>1. TypeOK
  BY DEF Init, TypeOK, Ids, Openers
<1>2. EntryPerWaiter /\ Fresh /\ ~closed /\ delegate = None
  BY DEF Init, EntryPerWaiter, Fresh, Ids
<1>3. Turns
  BY DEF Init, Turns, InFlight, Openers
<1>4. QED BY <1>1, <1>2, <1>3 DEF ClientInv, WaitInv

\* Without the discipline, only that a closed transport has no delegate.
LEMMA ClosedStep ==
  ASSUME WaitInv, closed => delegate = None, [Next]_vars
  PROVE  closed' => delegate' = None
<1>1. CASE \E r \in Calls : Request(r)
  BY <1>1 DEF Request, transportVars
<1>2. CASE \E r \in Ids : SendFails(r) \/ HandleMessage(r) \/ Timeout(r)
  BY <1>2 DEF SendFails, HandleMessage, Timeout, transportVars
<1>3. CASE \E k \in Connects : \/ Connect(k) \/ DelegateOpens(k) \/ StartFails(k)
                               \/ ConnectTimesOut(k) \/ Opened(k) \/ HandshakeFails(k)
                               \/ Handshake(k) \/ Notified(k) \/ Drop(k)
  BY <1>3 DEF Connect, DelegateOpens, StartFails, ConnectTimesOut, Opened, HandshakeFails,
              Handshake, Notified, Drop, transportVars
<1>4. CASE (\E k \in Connects : Reject(k)) \/ (\E q \in Disconnects : Disconnect(q))
  BY <1>4 DEF Reject, Disconnect, Disconnecting
<1>5. CASE \E x \in Openers : DelegateCloses(x)
  BY <1>5 DEF DelegateCloses
<1>6. CASE UNCHANGED vars
  BY <1>6 DEF vars, transportVars
<1>7. QED BY <1>1, <1>2, <1>3, <1>4, <1>5, <1>6 DEF Next

LEMMA ClientStep == ASSUME ClientAssumption, ClientInv, [Next]_vars PROVE ClientInv' /\ Steps
<1>1. WaitInv' /\ Steps
  BY WaitStep DEF ClientInv
<1>2. closed' => delegate' = None
  BY ClosedStep DEF ClientInv
<1>3. Turns'
  <2>1. CASE Serial /\ ~MayDrop
    BY <2>1, TurnsStep
  <2>2. CASE ~(Serial /\ ~MayDrop)
    BY <2>2 DEF Turns
  <2>3. QED BY <2>1, <2>2
<1>4. QED BY <1>1, <1>2, <1>3 DEF ClientInv

LEMMA ClientCorrect == ASSUME ClientAssumption PROVE Spec => []ClientInv /\ [][Steps]_vars
<1>1. Init => ClientInv
  BY ClientInit
<1>2. ClientInv /\ [Next]_vars => ClientInv' /\ [Steps]_vars
  BY ClientStep
<1>3. QED BY <1>1, <1>2, PTL DEF Spec

--------------------------------------------------------------------------
(* Theorems                                                                *)

\* The client, its transport and every call stay well formed.
THEOREM ClientTypeCorrect == ASSUME ClientAssumption PROVE Spec => []TypeOK
<1>1. ClientInv => TypeOK
  BY DEF ClientInv, WaitInv
<1>2. QED BY <1>1, ClientCorrect, PTL

\* A promise has its entry in pendingRequests and its timer exactly while it is
\* not settled (MCPClient.ts).
THEOREM WaitersHaveEntries == ASSUME ClientAssumption PROVE Spec => []EntryPerWaiter
<1>1. ClientInv => EntryPerWaiter
  BY DEF ClientInv, WaitInv
<1>2. QED BY <1>1, ClientCorrect, PTL

\* No outcome of a request is replaced by a later one, in whatever order
\* answers, timers and closes come.
THEOREM OutcomesAreFinal == ASSUME ClientAssumption PROVE Spec => OutcomeIsFinal
<1>1. ClientInv /\ [Next]_vars => [OutcomeStays]_vars
  BY ClientStep DEF Steps
<1>2. QED BY <1>1, ClientCorrect, PTL DEF Spec, OutcomeIsFinal

\* Answers come over the connection that was asked, while it is there.
THEOREM AnswersComeBack == ASSUME ClientAssumption PROVE Spec => AnsweredWhereAsked
<1>1. ClientInv /\ [Next]_vars => [AnswerComesBack]_vars
  BY ClientStep DEF Steps
<1>2. QED BY <1>1, ClientCorrect, PTL DEF Spec, AnsweredWhereAsked

\* A connection that closes, a replaced one among them, leaves nobody waiting.
THEOREM ClosingEndsWaits == ASSUME ClientAssumption PROVE Spec => CloseLeavesNobodyWaiting
<1>1. ClientInv /\ [Next]_vars => [CloseEndsWaits]_vars
  BY ClientStep DEF Steps
<1>2. QED BY <1>1, ClientCorrect, PTL DEF Spec, CloseLeavesNobodyWaiting

\* An application that calls in turn, over connections that do not drop: a
\* client that counts as connected between two calls has a live connection.
THEOREM ConnectedIsOpen ==
  ASSUME ClientAssumption, Serial, ~MayDrop
  PROVE  Spec => []ConnectedMeansOpen
<1>1. ClientInv => ConnectedMeansOpen
  BY DEF ClientInv, Turns, ConnectedMeansOpen, InFlight, Ended
<1>2. QED BY <1>1, ClientCorrect, PTL
==========================================================================
