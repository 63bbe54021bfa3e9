---------------------------- MODULE SharedProofs ----------------------------
(***************************************************************************)
(* The properties of MCShared, for every value of its constants.           *)
(*                                                                         *)
(* SafeFetch and MCPClient have proofs of their own, which are instantiated *)
(* here; what is proved of the probe, of the health records and of the     *)
(* submissions is proved of their instances.  A machine whose part it is   *)
(* not stands still, so that every invariant but the client's holds of     *)
(* every part.                                                             *)
(***************************************************************************)
EXTENDS MCShared, SequenceTheorems, FiniteSetTheorems, TLAPS

FetchP == INSTANCE SafeFetchProofs WITH pc <- fetchPc, result <- fetched, via <- cameBy
OverlapP == INSTANCE MCPClientProofs WITH Serial <- FALSE, MayDrop <- TRUE
InTurnP == INSTANCE MCPClientProofs WITH Serial <- TRUE, MayDrop <- FALSE

--------------------------------------------------------------------------
(* SafeFetch                                                               *)

LEMMA FetchIsFetch ==
  /\ Fetch!FetchAssumption => FetchP!FetchAssumption
  /\ Fetch!Init => FetchP!Init
  /\ Fetch!Next => FetchP!Next
<1>1. Fetch!FetchAssumption => FetchP!FetchAssumption
  BY DEF Fetch!FetchAssumption, Fetch!Statuses, Fetch!Outcomes,
         FetchP!FetchAssumption, FetchP!Statuses, FetchP!Outcomes
<1>2. Fetch!Init => FetchP!Init
  BY DEF Fetch!Init, Fetch!Answers, FetchP!Init, FetchP!Answers
<1>3. Fetch!Next => FetchP!Next
  BY DEF Fetch!Next, Fetch!Rebind, Fetch!Resolve, Fetch!Send, Fetch!Timeout, Fetch!Abort,
         Fetch!ResponseFails, Fetch!FollowRedirect, Fetch!Headers, Fetch!ReadChunk, Fetch!Complete,
         Fetch!Answers, Fetch!requestVars, Fetch!Reviewed, Fetch!Fails, Fetch!End, Fetch!Lookup,
         Fetch!TooMany, Fetch!RefusesBody, Fetch!CredentialsFor, Fetch!BodyAfter,
         Fetch!RewritesToGet, Fetch!PreservesMethodAndBody, Fetch!Statuses,
         FetchP!Next, FetchP!Rebind, FetchP!Resolve, FetchP!Send, FetchP!Timeout, FetchP!Abort,
         FetchP!ResponseFails, FetchP!FollowRedirect, FetchP!Headers, FetchP!ReadChunk,
         FetchP!Complete, FetchP!Answers, FetchP!requestVars, FetchP!Reviewed, FetchP!Fails,
         FetchP!End, FetchP!Lookup, FetchP!TooMany, FetchP!RefusesBody, FetchP!CredentialsFor,
         FetchP!BodyAfter, FetchP!RewritesToGet, FetchP!PreservesMethodAndBody, FetchP!Statuses
<1>4. QED BY <1>1, <1>2, <1>3

LEMMA FetchInitial == Init => FetchP!FetchInv
BY SharedAssumption, FetchIsFetch, FetchP!FetchInit DEF Init

LEMMA FetchInductive == FetchP!FetchInv /\ [Next]_vars => FetchP!FetchInv'
<1> SUFFICES ASSUME FetchP!FetchInv, [Next]_vars PROVE FetchP!FetchInv'
  OBVIOUS
<1>1. FetchP!FetchAssumption
  BY SharedAssumption, FetchIsFetch
<1>2. FetchP!Next \/ UNCHANGED fetchVars
  BY FetchIsFetch
     DEF Next, ClientStep, ProbeStep, RoundStep, SubmitStep, FetchStep, vars
<1>3. UNCHANGED fetchVars => UNCHANGED FetchP!vars
  BY DEF fetchVars, FetchP!vars, FetchP!requestVars
<1>4. QED BY <1>1, <1>2, <1>3, FetchP!FetchStep

\* Connections go to reviewed addresses, credentials stay at the first origin,
\* a body goes to another one only on a 301 or 302 that keeps its method, and
\* redirects are bounded, for any origins, addresses and limits (safeFetch.ts).
THEOREM FetchKeepsPolicy == Spec => []FetchStaysInPolicy
<1>1. FetchP!FetchInv => FetchStaysInPolicy
  BY SharedAssumption
     DEF FetchStaysInPolicy, FetchP!FetchInv, FetchP!Typed, FetchP!Counted, FetchP!Goals,
         FetchP!TypeOK, Fetch!TypeOK, FetchP!Answers, Fetch!Answers, FetchP!Outcomes, Fetch!Outcomes,
         FetchP!OnlyReviewedAddresses, Fetch!OnlyReviewedAddresses,
         FetchP!CredentialsStayHome, Fetch!CredentialsStayHome,
         FetchP!BodyForwarding, Fetch!BodyForwarding,
         Fetch!RedirectsBounded, Fetch!FetchAssumption
<1>2. QED BY <1>1, FetchInitial, FetchInductive, PTL DEF Spec
--------------------------------------------------------------------------
(* MCPClient                                                               *)

ClientInv == IF part = "serial" THEN InTurnP!ClientInv ELSE OverlapP!ClientInv

LEMMA OverlappingIsOverlapping ==
  /\ Overlapping!ClientAssumption => OverlapP!ClientAssumption
  /\ Overlapping!Init => OverlapP!Init
  /\ Overlapping!Next => OverlapP!Next
<1>1. Overlapping!ClientAssumption => OverlapP!ClientAssumption
  BY DEF Overlapping!ClientAssumption, OverlapP!ClientAssumption
<1>2. Overlapping!Init => OverlapP!Init
  BY DEF Overlapping!Init, Overlapping!Ids, Overlapping!Openers,
         OverlapP!Init, OverlapP!Ids, OverlapP!Openers
<1>3. Overlapping!Next => OverlapP!Next
  BY DEF Overlapping!Next, Overlapping!Request, Overlapping!SendFails,
         Overlapping!HandleMessage, Overlapping!Timeout, Overlapping!Connect,
         Overlapping!DelegateOpens, Overlapping!StartFails, Overlapping!ConnectTimesOut,
         Overlapping!Opened, Overlapping!HandshakeFails, Overlapping!Handshake,
         Overlapping!Notified, Overlapping!Reject, Overlapping!Drop, Overlapping!Disconnect,
         Overlapping!DelegateCloses, Overlapping!Disconnecting, Overlapping!CloseEvent,
         Overlapping!Issue, Overlapping!Settle, Overlapping!Goto, Overlapping!MayCall,
         Overlapping!InFlight, Overlapping!Ids, Overlapping!Openers, Overlapping!Settled,
         Overlapping!Ended, Overlapping!clientVars, Overlapping!transportVars,
         Overlapping!callVars,
         OverlapP!Next, OverlapP!Request, OverlapP!SendFails, OverlapP!HandleMessage,
         OverlapP!Timeout, OverlapP!Connect, OverlapP!DelegateOpens, OverlapP!StartFails,
         OverlapP!ConnectTimesOut, OverlapP!Opened, OverlapP!HandshakeFails, OverlapP!Handshake,
         OverlapP!Notified, OverlapP!Reject, OverlapP!Drop, OverlapP!Disconnect,
         OverlapP!DelegateCloses, OverlapP!Disconnecting, OverlapP!CloseEvent, OverlapP!Issue,
         OverlapP!Settle, OverlapP!Goto, OverlapP!MayCall, OverlapP!InFlight, OverlapP!Ids,
         OverlapP!Openers, OverlapP!Settled, OverlapP!Ended, OverlapP!clientVars,
         OverlapP!transportVars, OverlapP!callVars
<1>4. QED BY <1>1, <1>2, <1>3

LEMMA InTurnIsInTurn ==
  /\ InTurn!ClientAssumption => InTurnP!ClientAssumption
  /\ Overlapping!Init => InTurnP!Init
  /\ InTurn!Next => InTurnP!Next
<1>1. InTurn!ClientAssumption => InTurnP!ClientAssumption
  BY DEF InTurn!ClientAssumption, InTurnP!ClientAssumption
<1>2. Overlapping!Init => InTurnP!Init
  BY DEF Overlapping!Init, Overlapping!Ids, Overlapping!Openers,
         InTurnP!Init, InTurnP!Ids, InTurnP!Openers
<1>3. InTurn!Next => InTurnP!Next
  BY DEF InTurn!Next, InTurn!Request, InTurn!SendFails, InTurn!HandleMessage, InTurn!Timeout,
         InTurn!Connect, InTurn!DelegateOpens, InTurn!StartFails, InTurn!ConnectTimesOut,
         InTurn!Opened, InTurn!HandshakeFails, InTurn!Handshake, InTurn!Notified, InTurn!Reject,
         InTurn!Drop, InTurn!Disconnect, InTurn!DelegateCloses, InTurn!Disconnecting,
         InTurn!CloseEvent, InTurn!Issue, InTurn!Settle, InTurn!Goto, InTurn!MayCall,
         InTurn!InFlight, InTurn!Ids, InTurn!Openers, InTurn!Settled, InTurn!Ended,
         InTurn!clientVars, InTurn!transportVars, InTurn!callVars,
         InTurnP!Next, InTurnP!Request, InTurnP!SendFails, InTurnP!HandleMessage,
         InTurnP!Timeout, InTurnP!Connect, InTurnP!DelegateOpens, InTurnP!StartFails,
         InTurnP!ConnectTimesOut, InTurnP!Opened, InTurnP!HandshakeFails, InTurnP!Handshake,
         InTurnP!Notified, InTurnP!Reject, InTurnP!Drop, InTurnP!Disconnect,
         InTurnP!DelegateCloses, InTurnP!Disconnecting, InTurnP!CloseEvent, InTurnP!Issue,
         InTurnP!Settle, InTurnP!Goto, InTurnP!MayCall, InTurnP!InFlight, InTurnP!Ids,
         InTurnP!Openers, InTurnP!Settled, InTurnP!Ended, InTurnP!clientVars,
         InTurnP!transportVars, InTurnP!callVars
<1>4. QED BY <1>1, <1>2, <1>3

LEMMA ClientInitial == Init => ClientInv
BY SharedAssumption, OverlappingIsOverlapping, InTurnIsInTurn, OverlapP!ClientInit, InTurnP!ClientInit
   DEF Init, ClientInv

LEMMA ClientInductive ==
  ASSUME ClientInv, [Next]_vars
  PROVE  /\ ClientInv'
         /\ UNCHANGED clientVars \/ OverlapP!Steps \/ InTurnP!Steps
<1>1. OverlapP!ClientAssumption /\ InTurnP!ClientAssumption
  BY SharedAssumption, OverlappingIsOverlapping, InTurnIsInTurn
<1>2. /\ part' = part
      /\ \/ part = "client" /\ OverlapP!Next
         \/ part = "serial" /\ InTurnP!Next
         \/ UNCHANGED clientVars
  BY OverlappingIsOverlapping, InTurnIsInTurn
     DEF Next, ClientStep, ProbeStep, RoundStep, SubmitStep, FetchStep, vars
<1>3. CASE part = "client" /\ OverlapP!Next
  BY <1>1, <1>2, <1>3, OverlapP!ClientStep DEF ClientInv
<1>4. CASE part = "serial" /\ InTurnP!Next
  BY <1>1, <1>2, <1>4, InTurnP!ClientStep DEF ClientInv
<1>5. CASE UNCHANGED clientVars
  <2>1. UNCHANGED OverlapP!vars /\ UNCHANGED InTurnP!vars
    BY <1>5 DEF clientVars, OverlapP!vars, OverlapP!clientVars, OverlapP!transportVars,
                OverlapP!callVars, InTurnP!vars, InTurnP!clientVars, InTurnP!transportVars,
                InTurnP!callVars
  <2>2. QED BY <1>1, <1>2, <1>5, <2>1, OverlapP!ClientStep, InTurnP!ClientStep DEF ClientInv
<1>6. QED BY <1>2, <1>3, <1>4, <1>5

\* Promises have their entries and timers while they are not settled; a client
\* that is used in turn has a live connection when it counts as connected
\* (MCPClient.ts, http.ts).
THEOREM ClientKeepsPromises == Spec => []ClientPromises
<1>1. ClientInv => ClientPromises
  <2>1. CASE part = "serial"
    BY <2>1
       DEF ClientInv, ClientPromises, ClientParts, InTurnP!ClientInv, InTurnP!WaitInv,
           InTurnP!TypeOK, InTurnP!EntryPerWaiter, InTurnP!Turns, InTurnP!Ids, InTurnP!Openers,
           InTurnP!Settled, InTurnP!Ended, InTurnP!InFlight,
           Overlapping!TypeOK, Overlapping!EntryPerWaiter, Overlapping!Ids, Overlapping!Openers,
           Overlapping!Settled, Overlapping!Ended,
           InTurn!ConnectedMeansOpen, InTurn!InFlight, InTurn!Ended, InTurn!Openers
  <2>2. CASE part # "serial"
    BY <2>2
       DEF ClientInv, ClientPromises, OverlapP!ClientInv, OverlapP!WaitInv,
           OverlapP!TypeOK, OverlapP!EntryPerWaiter, OverlapP!Ids, OverlapP!Openers,
           OverlapP!Settled, OverlapP!Ended,
           Overlapping!TypeOK, Overlapping!EntryPerWaiter, Overlapping!Ids, Overlapping!Openers,
           Overlapping!Settled, Overlapping!Ended
  <2>3. QED BY <2>1, <2>2
<1>2. ClientInv /\ [Next]_vars => ClientInv'
  BY ClientInductive
<1>3. QED BY <1>1, <1>2, ClientInitial, PTL DEF Spec

--------------------------------------------------------------------------
(* HealthProbe                                                             *)

ProbeFailures == [category : Probe!Categories, liveness : {"reachable", "unreachable", "unknown"}]

\* What the probe, its session and its waiter stand for between two events.
ProbeFacts ==
  /\ woken => transport = "stdio" /\ probePc \in Probe!Waiting
  /\ outcome # None => probePc = "ended"
  /\ probePc \in {"notifying", "listing"} => caps # None
  /\ caps # None => <<1, caps>> \in heard
  /\ messages \in Seq(heard)
  /\ transport = "stdio" /\ heard # {} => outputBytes > 0
  /\ transport = "stdio" /\ closedError # None /\ closedError.liveness = "reachable"
       => outputBytes > 0

\* The snapshot a probe ended with: TypeOK's part for it, and its three properties.
Verdict ==
  outcome # None =>
    /\ outcome.category \in Probe!Categories \cup {None}
    /\ outcome.status = "online" <=> outcome.readiness = "ready"
    /\ outcome.readiness = "ready" <=> outcome.category = None
    /\ outcome.readiness = "ready" =>
         /\ caps # None /\ <<1, caps>> \in heard
         /\ caps = "tools" => <<2, "array">> \in heard
    /\ caps # None => outcome.status # "offline"
    /\ transport = "stdio" /\ outcome.liveness = "reachable" => outputBytes > 0

\* TypeOK without the snapshot.
ProbeTyped ==
  /\ transport \in {"http", "stdio"}
  /\ probePc \in Probe!Waiting \cup {"new", "notifying", "ended", "crashed"}
  /\ messages \in Seq(Probe!Messages) /\ heard \subseteq Probe!Messages
  /\ closedError \in {None} \cup [category : Probe!Categories, liveness : {"reachable", "unreachable"}]
  /\ outputBytes \in 0..(MaxOutput + 1)
  /\ {exited, woken, expired, sigkill} \subseteq BOOLEAN
  /\ caps \in Probe!Good \cup {None}
  /\ child \in {"none", "running", "killed", "gone"}

ProbeInv == ProbeTyped /\ ProbeFacts /\ Verdict

LEMMA ProbeFails ==
  ASSUME ProbeInv, NEW f \in ProbeFailures, Probe!Fail(f),
         UNCHANGED <<transport, caps>>, heard \subseteq heard', outputBytes' \in Nat,
         outputBytes' >= outputBytes,
         transport = "stdio" /\ f.liveness = "reachable" => outputBytes' > 0
  PROVE  probePc' = "ended" /\ child' = child /\ sigkill' \in BOOLEAN /\ Verdict'
<1>1. PICK g \in ProbeFailures :
        /\ g = Probe!Marked(f) /\ g.category = f.category
        /\ caps # None => g.liveness = "reachable"
        /\ g.liveness = "reachable" => caps # None \/ f.liveness = "reachable"
  <2>1. CASE caps = None
    BY <2>1 DEF Probe!Marked
  <2>2. CASE caps # None
    <3>1. Probe!Marked(f) = [f EXCEPT !.liveness = "reachable"]
      BY <2>2 DEF Probe!Marked
    <3>2. [f EXCEPT !.liveness = "reachable"] \in ProbeFailures
      BY DEF ProbeFailures
    <3>3. /\ [f EXCEPT !.liveness = "reachable"].category = f.category
          /\ [f EXCEPT !.liveness = "reachable"].liveness = "reachable"
      BY DEF ProbeFailures
    <3>4. QED BY <2>2, <3>1, <3>2, <3>3
  <2>3. QED BY <2>1, <2>2
<1>2. PICK o : o = Probe!NotReady(g)
  OBVIOUS
<1>3. /\ probePc' = "ended" /\ outcome' = o
      /\ sigkill' = (transport = "stdio" /\ ~exited /\ child # "none") /\ child' = child
  BY <1>1, <1>2 DEF Probe!Fail, Probe!Finish, Probe!Close
<1>4. /\ o.category \in Probe!Categories /\ o.readiness = "not_ready" /\ o.liveness = g.liveness
      /\ o.status # "online" /\ (o.liveness = "reachable" => o.status # "offline")
  BY <1>1, <1>2 DEF Probe!NotReady, ProbeFailures
<1>5. None \notin Probe!Categories
  BY SharedAssumption DEF Probe!ProbeAssumption
<1>6. transport = "stdio" /\ caps # None => outputBytes' > 0
  BY DEF ProbeInv, ProbeFacts, ProbeTyped
<1>7. sigkill' \in BOOLEAN
  BY <1>3, Zenon
<1>8. QED BY <1>1, <1>3, <1>4, <1>5, <1>6, <1>7 DEF Verdict

LEMMA ProbeSucceeds ==
  ASSUME NEW toolCount, Probe!Finish(Probe!Ready(toolCount)),
         caps' # None, <<1, caps'>> \in heard', caps' = "tools" => <<2, "array">> \in heard',
         transport' = "stdio" => outputBytes' > 0
  PROVE  probePc' = "ended" /\ child' = child /\ sigkill' \in BOOLEAN /\ Verdict'
<1>1. PICK o : o = Probe!Ready(toolCount)
  OBVIOUS
<1>2. /\ probePc' = "ended" /\ outcome' = o /\ child' = child
      /\ sigkill' = (transport = "stdio" /\ ~exited /\ child # "none")
  BY <1>1 DEF Probe!Finish, Probe!Close
<1>3. o.status = "online" /\ o.readiness = "ready" /\ o.category = None
  BY <1>1 DEF Probe!Ready
<1>4. sigkill' \in BOOLEAN
  BY <1>2, Zenon
<1>5. QED BY <1>2, <1>3, <1>4 DEF Verdict

\* Whatever answers initialize, the probe goes on only after a good answer.
LEMMA TakesInitialize ==
  ASSUME ProbeInv, NEW answer \in Probe!InitBodies, Probe!TakeInitialize(answer),
         probePc = "initializing", <<1, answer>> \in heard', heard \subseteq heard',
         UNCHANGED <<transport, outputBytes>>, transport = "stdio" => outputBytes > 0
  PROVE  /\ probePc' \in {"notifying", "listing", "ended"} /\ caps' \in Probe!Good \cup {None}
         /\ child' = child /\ sigkill' \in BOOLEAN
         /\ outcome' # None => probePc' = "ended"
         /\ probePc' # "ended" => caps' # None
         /\ caps' # None => <<1, caps'>> \in heard'
         /\ Verdict'
<1>0. /\ outputBytes \in Nat /\ outcome = None /\ sigkill \in BOOLEAN
      /\ None \notin Probe!Good
  BY SharedAssumption DEF ProbeInv, ProbeTyped, ProbeFacts, Probe!ProbeAssumption
<1>1. CASE answer \in Probe!Good /\ probePc' # "ended"
  <2>1. /\ caps' = answer /\ probePc' \in {"notifying", "listing"}
        /\ UNCHANGED <<outcome, child, sigkill>>
    BY <1>1 DEF Probe!TakeInitialize, Probe!Initialized, Probe!Finish
  <2>2. QED BY <1>0, <1>1, <2>1 DEF Verdict
<1>2. CASE answer \in Probe!Good /\ probePc' = "ended"
  <2>1. /\ caps' = answer /\ answer # "tools" /\ Probe!Finish(Probe!Ready(None))
    BY <1>2 DEF Probe!TakeInitialize, Probe!Initialized
  <2>2. QED BY <1>0, <1>2, <2>1, ProbeSucceeds
<1>3. CASE answer \notin Probe!Good
  <2>1. Probe!Fail(Probe!InitFailure(answer)) /\ caps' = caps
    BY <1>3 DEF Probe!TakeInitialize
  <2>2. Probe!InitFailure(answer) \in ProbeFailures
    <3>1. CASE answer = "error"
      BY <3>1 DEF Probe!InitFailure, Probe!Failure, ProbeFailures, Probe!Categories
    <3>2. CASE answer = "incomplete"
      BY <3>2 DEF Probe!InitFailure, Probe!Failure, ProbeFailures, Probe!Categories
    <3>3. CASE answer = "badVersion"
      BY <3>3 DEF Probe!InitFailure, Probe!Failure, ProbeFailures, Probe!Categories
    <3>4. QED BY <1>3, <3>1, <3>2, <3>3 DEF Probe!InitBodies, Probe!Good
  <2>3. probePc' = "ended" /\ child' = child /\ sigkill' \in BOOLEAN /\ Verdict'
    BY <1>0, <2>1, <2>2, ProbeFails
  <2>4. QED BY <2>1, <2>3 DEF ProbeInv, ProbeTyped, ProbeFacts
<1>4. QED BY <1>1, <1>2, <1>3

LEMMA TakesList ==
  ASSUME ProbeInv, NEW answer \in Probe!ListBodies, Probe!TakeList(answer),
         probePc = "listing", <<2, answer>> \in heard', heard \subseteq heard',
         UNCHANGED <<transport, outputBytes>>, transport = "stdio" => outputBytes > 0
  PROVE  /\ probePc' = "ended" /\ caps' = caps /\ child' = child /\ sigkill' \in BOOLEAN /\ Verdict'
<1>0. outputBytes \in Nat /\ caps # None /\ <<1, caps>> \in heard' /\ caps' = caps
  BY DEF ProbeInv, ProbeTyped, ProbeFacts, Probe!TakeList
<1>1. CASE answer = "array"
  <2>1. Probe!Finish(Probe!Ready(0))
    BY <1>1 DEF Probe!TakeList
  <2>2. QED BY <1>0, <1>1, <2>1, ProbeSucceeds
<1>2. CASE answer # "array"
  <2>1. Probe!Fail(Probe!Failure("capability_failed", "reachable"))
    BY <1>2 DEF Probe!TakeList
  <2>2. Probe!Failure("capability_failed", "reachable") \in ProbeFailures
    BY DEF Probe!Failure, ProbeFailures, Probe!Categories
  <2>3. QED BY <1>0, <2>1, <2>2, ProbeFails
<1>3. QED BY <1>1, <1>2

\* A queue of heard messages stays one: with new ones, without an old one.
LEMMA QueueGrows ==
  ASSUME NEW s \in Seq(heard), heard \subseteq heard', NEW lines, NEW kept \in Nat,
         \A i \in 1..kept : lines[i] \in heard'
  PROVE  s \o SubSeq(lines, 1, kept) \in Seq(heard')
<1>1. s \in Seq(heard')
  BY SeqMonotonic
<1>2. SubSeq(lines, 1, kept) \in Seq(heard')
  BY SubSeqProperties
<1>3. QED BY <1>1, <1>2, ConcatProperties

LEMMA QueueShrinks ==
  ASSUME NEW S, NEW s \in Seq(S), NEW k \in 1..Len(s)
  PROVE  Probe!WithoutIndex(s, k) \in Seq(S)
<1>1. /\ Len(s) \in Nat
      /\ \A i \in 1..(k - 1) : s[i] \in S
      /\ \A i \in (k + 1)..Len(s) : s[i] \in S
  BY LenProperties, ElementOfSeq
<1>2. SubSeq(s, 1, k - 1) \in Seq(S) /\ SubSeq(s, k + 1, Len(s)) \in Seq(S)
  BY <1>1, SubSeqProperties
<1>3. QED BY <1>2, ConcatProperties DEF Probe!WithoutIndex

LEMMA QueueTyped == ASSUME heard \subseteq Probe!Messages, messages \in Seq(heard)
                    PROVE  messages \in Seq(Probe!Messages)
BY SeqMonotonic

\* HTTP answers: the message is heard and judged at once.
LEMMA HttpAnswerStep == ASSUME ProbeInv, Probe!HttpAnswer PROVE ProbeInv'
<1>1. PICK m \in Probe!Messages :
        /\ m[1] = (IF probePc = "initializing" THEN 1 ELSE 2)
        /\ heard' = heard \cup {m}
        /\ IF probePc = "initializing" THEN Probe!TakeInitialize(m[2]) ELSE Probe!TakeList(m[2])
  BY DEF Probe!HttpAnswer
<1>2. /\ transport = "http" /\ probePc \in {"initializing", "listing"}
      /\ UNCHANGED <<transport, messages, closedError, outputBytes, exited, woken, expired>>
      /\ outcome = None /\ ~woken
  BY DEF Probe!HttpAnswer, Probe!session, Probe!Waiting, ProbeInv, ProbeFacts
<1>3. messages \in Seq(heard')
  BY <1>1, SeqMonotonic DEF ProbeInv, ProbeFacts
<1>4. /\ probePc' \in {"notifying", "listing", "ended"} /\ caps' \in Probe!Good \cup {None}
      /\ child' = child /\ sigkill' \in BOOLEAN
      /\ outcome' # None => probePc' = "ended"
      /\ probePc' # "ended" => caps' # None
      /\ caps' # None => <<1, caps'>> \in heard'
      /\ Verdict'
  <2>1. CASE probePc = "initializing"
    <3>1. m = <<1, m[2]>> /\ m[2] \in Probe!InitBodies /\ Probe!TakeInitialize(m[2])
      BY <1>1, <2>1 DEF Probe!Messages
    <3>2. QED BY <1>1, <1>2, <2>1, <3>1, TakesInitialize
  <2>2. CASE probePc = "listing"
    <3>1. m = <<2, m[2]>> /\ m[2] \in Probe!ListBodies /\ Probe!TakeList(m[2])
      BY <1>1, <2>2 DEF Probe!Messages
    <3>2. QED BY <1>1, <1>2, <2>2, <3>1, TakesList DEF ProbeInv, ProbeTyped, ProbeFacts
  <2>3. QED BY <1>2, <2>1, <2>2
<1>5. ProbeTyped'
  <2>1. {exited', woken', expired', sigkill'} \subseteq BOOLEAN
    BY <1>2, <1>4, Zenon DEF ProbeInv, ProbeTyped
  <2>2. QED BY <1>1, <1>2, <1>4, <2>1, QueueTyped DEF ProbeInv, ProbeTyped, Probe!Waiting
<1>6. ProbeFacts'
  BY <1>2, <1>3, <1>4 DEF ProbeFacts
<1>7. QED BY <1>4, <1>5, <1>6 DEF ProbeInv

\* A failure ends the probe and leaves its session alone.
LEMMA FailureStep ==
  ASSUME ProbeInv, NEW f \in ProbeFailures, Probe!Fail(f),
         UNCHANGED <<transport, messages, closedError, outputBytes, exited, caps, heard>>,
         woken' = FALSE, expired' \in BOOLEAN,
         transport = "stdio" /\ f.liveness = "reachable" => outputBytes > 0
  PROVE  ProbeInv'
<1>1. probePc' = "ended" /\ child' = child /\ sigkill' \in BOOLEAN /\ Verdict'
  BY ProbeFails DEF ProbeInv, ProbeTyped
<1>2. ProbeTyped'
  <2>1. {exited', woken', expired', sigkill'} \subseteq BOOLEAN
    BY <1>1, Zenon DEF ProbeInv, ProbeTyped
  <2>2. QED BY <1>1, <2>1 DEF ProbeInv, ProbeTyped
<1>3. ProbeFacts'
  BY <1>1 DEF ProbeInv, ProbeFacts
<1>4. QED BY <1>1, <1>2, <1>3 DEF ProbeInv

LEMMA RefuseStep == ASSUME ProbeInv, Probe!Refuse PROVE ProbeInv'
<1>1. PICK f \in Probe!ConfigFailures(transport) : Probe!Fail(f)
  BY DEF Probe!Refuse
<1>2. /\ probePc = "new"
      /\ UNCHANGED <<transport, messages, closedError, outputBytes, exited, woken, expired, caps, heard>>
  BY DEF Probe!Refuse, Probe!session
<1>3. f \in ProbeFailures /\ f.liveness # "reachable"
  BY DEF Probe!ConfigFailures, Probe!Failure, ProbeFailures, Probe!Categories
<1>4. woken' = FALSE /\ expired' \in BOOLEAN
  <2>1. ~woken /\ woken \in BOOLEAN /\ expired \in BOOLEAN
    BY <1>2 DEF ProbeInv, ProbeTyped, ProbeFacts, Probe!Waiting
  <2>2. QED BY <1>2, <2>1, Zenon
<1>5. QED BY <1>1, <1>2, <1>3, <1>4, FailureStep

LEMMA HttpFailsStep == ASSUME ProbeInv, Probe!HttpFails PROVE ProbeInv'
<1>1. /\ transport = "http" /\ probePc \in {"initializing", "listing", "notifying"}
      /\ UNCHANGED <<transport, messages, closedError, outputBytes, exited, woken, expired, caps, heard>>
  BY DEF Probe!HttpFails, Probe!session, Probe!Waiting
<1>2. PICK f \in Probe!UnusableAnswers \cup {Probe!Failure("transport_error", "reachable"),
                                            Probe!Failure("initialize_failed", "reachable"),
                                            Probe!Failure("capability_failed", "reachable")} :
        Probe!Fail(f)
  <2>1. CASE probePc = "initializing"
    BY <2>1 DEF Probe!HttpFails
  <2>2. CASE probePc = "notifying"
    BY <2>2 DEF Probe!HttpFails, Probe!UnusableAnswers
  <2>3. CASE probePc = "listing"
    BY <2>3 DEF Probe!HttpFails
  <2>4. QED BY <1>1, <2>1, <2>2, <2>3
<1>3. f \in ProbeFailures
  BY DEF Probe!UnusableAnswers, Probe!FetchFailures, Probe!Failure, ProbeFailures, Probe!Categories
<1>4. woken' = FALSE /\ expired' \in BOOLEAN
  <2>1. ~woken /\ woken \in BOOLEAN /\ expired \in BOOLEAN
    BY <1>1 DEF ProbeInv, ProbeTyped, ProbeFacts
  <2>2. QED BY <1>1, <2>1, Zenon
<1>5. QED BY <1>1, <1>2, <1>3, <1>4, FailureStep

LEMMA HttpNotifiedStep == ASSUME ProbeInv, Probe!HttpNotified PROVE ProbeInv'
<1>1. /\ transport = "http" /\ probePc = "notifying" /\ outcome = None /\ ~woken /\ caps # None
      /\ UNCHANGED <<transport, messages, closedError, outputBytes, exited, woken, expired, caps, heard>>
  BY DEF Probe!HttpNotified, Probe!session, ProbeInv, ProbeFacts
<1>2. CASE caps = "tools"
  <2>1. probePc' = "listing" /\ UNCHANGED <<outcome, child, sigkill>>
    BY <1>2 DEF Probe!HttpNotified
  <2>2. QED BY <1>1, <2>1 DEF ProbeInv, ProbeTyped, ProbeFacts, Verdict, Probe!Waiting
<1>3. CASE caps # "tools"
  <2>1. Probe!Finish(Probe!Ready(None))
    BY <1>3 DEF Probe!HttpNotified
  <2>2. probePc' = "ended" /\ child' = child /\ sigkill' \in BOOLEAN /\ Verdict'
    BY <1>1, <1>3, <2>1, ProbeSucceeds DEF ProbeInv, ProbeFacts
  <2>3. ProbeTyped'
    <3>1. {exited', woken', expired', sigkill'} \subseteq BOOLEAN
      BY <1>1, <2>2, Zenon DEF ProbeInv, ProbeTyped
    <3>2. QED BY <1>1, <2>2, <3>1 DEF ProbeInv, ProbeTyped
  <2>4. ProbeFacts'
    BY <1>1, <2>2 DEF ProbeInv, ProbeFacts
  <2>5. QED BY <2>2, <2>3, <2>4 DEF ProbeInv
<1>4. QED BY <1>2, <1>3

--------------------------------------------------------------------------
(* HealthProbe: the events of the child                                    *)

\* An event of the child: the session may fail and wake the probe, which has
\* not ended yet when it still reads.
LEMMA EventStep ==
  ASSUME ProbeInv, UNCHANGED <<transport, probePc, caps, outcome>>,
         ProbeTyped', heard \subseteq heard', messages' \in Seq(heard'),
         woken' => transport = "stdio" /\ probePc \in Probe!Waiting,
         outputBytes' >= outputBytes,
         heard' = heard \/ outputBytes' > 0,
         closedError' = closedError \/ closedError'.liveness # "reachable" \/ outputBytes' > 0
  PROVE  ProbeInv'
<1>1. ProbeFacts'
  BY DEF ProbeInv, ProbeFacts, ProbeTyped
<1>2. Verdict'
  BY DEF ProbeInv, Verdict, ProbeTyped
<1>3. QED BY <1>1, <1>2 DEF ProbeInv

LEMMA WaitingIsBoolean ==
  ASSUME woken' = (probePc \in Probe!Waiting)
  PROVE  woken' \in BOOLEAN /\ (woken' => probePc \in Probe!Waiting)
<1>1. (probePc \in Probe!Waiting) \in BOOLEAN
  OBVIOUS
<1>2. woken' \in BOOLEAN
  BY <1>1, Zenon
<1>3. QED BY <1>2

LEMMA FailSessionStep ==
  ASSUME ProbeInv, NEW category \in Probe!Categories, NEW liveness \in {"reachable", "unreachable"},
         Probe!FailSession(category, liveness)
  PROVE  /\ closedError' \in [category : Probe!Categories, liveness : {"reachable", "unreachable"}]
         /\ closedError' = closedError \/ closedError'.liveness = liveness
         /\ woken' \in BOOLEAN /\ (woken' => probePc \in Probe!Waiting)
<1>1. woken' = (probePc \in Probe!Waiting)
  BY DEF Probe!FailSession, Probe!Wake
<1>2. woken' \in BOOLEAN /\ (woken' => probePc \in Probe!Waiting)
  BY <1>1, WaitingIsBoolean
<1>3. QED BY <1>2 DEF ProbeInv, ProbeTyped, Probe!FailSession, Probe!Failure

LEMMA OnDataStep == ASSUME ProbeInv, Probe!OnData PROVE ProbeInv'
<1>1. /\ transport = "stdio" /\ ~woken /\ probePc \in Probe!Waiting
      /\ outputBytes \in 0..(MaxOutput + 1) /\ outputBytes <= MaxOutput
      /\ outputBytes' = outputBytes + 1 /\ MaxOutput \in Nat
      /\ UNCHANGED <<transport, probePc, exited, expired, caps, sigkill, outcome>>
  BY SharedAssumption
     DEF Probe!OnData, Probe!Reading, Probe!Event, ProbeInv, ProbeTyped, Probe!ProbeAssumption
<1> DEFINE Reads(n, lines, kept) ==
      /\ \A i \in 1..kept : lines[i] \in Probe!Messages
      /\ kept < n => lines[kept + 1] \notin Probe!Messages
      /\ IF outputBytes' > MaxOutput
           THEN /\ Probe!FailSession("output_limit", "reachable")
                /\ child' = Probe!SigKilled
                /\ UNCHANGED <<messages, heard>>
           ELSE /\ messages' = messages \o SubSeq(lines, 1, kept)
                /\ heard' = heard \cup {lines[i] : i \in 1..kept}
                /\ IF kept = n
                     THEN Probe!Wake /\ UNCHANGED <<closedError, child>>
                     ELSE /\ Probe!FailSession("malformed_response", "reachable")
                          /\ child' = Probe!SigKilled
<1>a. PICK n \in 1..MaxLines : \E lines \in [1..n -> Probe!Lines], kept \in 0..n : Reads(n, lines, kept)
  BY DEF Probe!OnData
<1>2. PICK lines \in [1..n -> Probe!Lines], kept \in 0..n : Reads(n, lines, kept)
  BY <1>a
<1>3. heard \subseteq heard' /\ heard' \subseteq Probe!Messages /\ messages' \in Seq(heard')
  <2>1. CASE outputBytes' > MaxOutput
    BY <1>2, <2>1 DEF ProbeInv, ProbeTyped, ProbeFacts
  <2>2. CASE ~(outputBytes' > MaxOutput)
    <3>1. /\ messages' = messages \o SubSeq(lines, 1, kept)
          /\ heard' = heard \cup {lines[i] : i \in 1..kept}
      BY <1>2, <2>2
    <3>2. QED BY <1>2, <3>1, QueueGrows DEF ProbeInv, ProbeTyped, ProbeFacts
  <2>3. QED BY <2>1, <2>2
<1>4. /\ woken' \in BOOLEAN /\ (woken' => probePc \in Probe!Waiting)
      /\ closedError' \in {None} \cup [category : Probe!Categories, liveness : {"reachable", "unreachable"}]
      /\ child' \in {"none", "running", "killed", "gone"}
  <2>1. Probe!SigKilled \in {"none", "running", "killed", "gone"}
    BY DEF Probe!SigKilled, ProbeInv, ProbeTyped
  <2>2. "output_limit" \in Probe!Categories /\ "malformed_response" \in Probe!Categories
    BY DEF Probe!Categories
  <2>3. CASE outputBytes' > MaxOutput
    BY <1>2, <2>1, <2>2, <2>3, FailSessionStep
  <2>4. CASE ~(outputBytes' > MaxOutput) /\ kept = n
    <3>1. woken' = (probePc \in Probe!Waiting) /\ UNCHANGED <<closedError, child>>
      BY <1>2, <2>4 DEF Probe!Wake
    <3>2. woken' \in BOOLEAN /\ (woken' => probePc \in Probe!Waiting)
      BY <3>1, WaitingIsBoolean
    <3>3. QED BY <3>1, <3>2 DEF ProbeInv, ProbeTyped
  <2>5. CASE ~(outputBytes' > MaxOutput) /\ kept # n
    BY <1>2, <2>1, <2>2, <2>5, FailSessionStep
  <2>6. QED BY <2>3, <2>4, <2>5
<1>5. ProbeTyped'
  <2>1. {exited', woken', expired', sigkill'} \subseteq BOOLEAN
    BY <1>1, <1>4, Zenon DEF ProbeInv, ProbeTyped
  <2>2. messages' \in Seq(Probe!Messages)
    BY <1>3, SeqMonotonic
  <2>3. outputBytes' \in 0..(MaxOutput + 1)
    BY <1>1
  <2>4. QED BY <1>1, <1>3, <1>4, <2>1, <2>2, <2>3 DEF ProbeInv, ProbeTyped
<1>6. outputBytes' > 0 /\ outputBytes' >= outputBytes
  BY <1>1
<1>7. QED BY <1>1, <1>3, <1>4, <1>5, <1>6, EventStep

LEMMA OnAuxiliaryDataStep == ASSUME ProbeInv, Probe!OnAuxiliaryData PROVE ProbeInv'
<1>1. /\ transport = "stdio" /\ ~woken /\ probePc \in Probe!Waiting
      /\ outputBytes \in 0..(MaxOutput + 1) /\ outputBytes <= MaxOutput
      /\ outputBytes' = outputBytes + 1 /\ MaxOutput \in Nat
      /\ UNCHANGED <<transport, probePc, messages, exited, expired, caps, heard, sigkill, outcome>>
  BY SharedAssumption
     DEF Probe!OnAuxiliaryData, Probe!Reading, Probe!Event, ProbeInv, ProbeTyped,
         Probe!ProbeAssumption
<1>2. /\ woken' \in BOOLEAN
      /\ closedError' \in {None} \cup [category : Probe!Categories, liveness : {"reachable", "unreachable"}]
      /\ child' \in {"none", "running", "killed", "gone"}
  <2>1. CASE outputBytes' > MaxOutput
    <3>1. /\ "output_limit" \in Probe!Categories
          /\ Probe!FailSession("output_limit", "reachable") /\ child' = Probe!SigKilled
      BY <2>1 DEF Probe!OnAuxiliaryData, Probe!Categories
    <3>2. QED BY <3>1, FailSessionStep DEF Probe!SigKilled, ProbeInv, ProbeTyped
  <2>2. CASE ~(outputBytes' > MaxOutput)
    <3>1. UNCHANGED <<closedError, woken, child>>
      BY <2>2 DEF Probe!OnAuxiliaryData
    <3>2. QED BY <3>1 DEF ProbeInv, ProbeTyped
  <2>3. QED BY <2>1, <2>2
<1>3. ProbeTyped'
  <2>1. {exited', woken', expired', sigkill'} \subseteq BOOLEAN
    BY <1>1, <1>2, Zenon DEF ProbeInv, ProbeTyped
  <2>2. outputBytes' \in 0..(MaxOutput + 1)
    BY <1>1
  <2>3. QED BY <1>1, <1>2, <2>1, <2>2 DEF ProbeInv, ProbeTyped
<1>4. outputBytes' > 0 /\ outputBytes' >= outputBytes /\ messages' \in Seq(heard')
  BY <1>1 DEF ProbeInv, ProbeFacts
<1>5. QED BY <1>1, <1>3, <1>4, EventStep

LEMMA OnExitStep ==
  ASSUME ProbeInv, NEW code \in {0, 1}, Probe!OnExit(code)
  PROVE  ProbeInv'
<1>1. /\ transport = "stdio" /\ ~woken /\ exited' = TRUE /\ outputBytes \in Nat
      /\ UNCHANGED <<transport, probePc, messages, outputBytes, expired, caps, heard, child,
                     sigkill, outcome>>
  BY DEF Probe!OnExit, Probe!Event, ProbeInv, ProbeTyped
<1>2. /\ woken' \in BOOLEAN /\ (woken' => probePc \in Probe!Waiting)
      /\ closedError' \in {None} \cup [category : Probe!Categories, liveness : {"reachable", "unreachable"}]
      /\ closedError' = closedError \/ closedError'.liveness # "reachable" \/ outputBytes > 0
  <2>1. CASE closedError = None /\ code # 0
    <3>1. PICK liveness \in {"reachable", "unreachable"} :
            /\ Probe!FailSession("command_failed", liveness)
            /\ liveness = "reachable" => outputBytes > 0
      BY <2>1 DEF Probe!OnExit
    <3>2. "command_failed" \in Probe!Categories
      BY DEF Probe!Categories
    <3>3. QED BY <3>1, <3>2, FailSessionStep
  <2>2. CASE ~(closedError = None /\ code # 0)
    <3>1. UNCHANGED <<closedError, woken>>
      BY <2>2 DEF Probe!OnExit
    <3>2. QED BY <1>1, <3>1 DEF ProbeInv, ProbeTyped
  <2>3. QED BY <2>1, <2>2
<1>3. ProbeTyped'
  <2>1. {exited', woken', expired', sigkill'} \subseteq BOOLEAN
    BY <1>1, <1>2, Zenon DEF ProbeInv, ProbeTyped
  <2>2. QED BY <1>1, <1>2, <2>1 DEF ProbeInv, ProbeTyped
<1>4. QED BY <1>1, <1>2, <1>3, EventStep DEF ProbeInv, ProbeFacts

LEMMA OnSpawnErrorStep == ASSUME ProbeInv, Probe!OnSpawnError PROVE ProbeInv'
<1>1. /\ transport = "stdio" /\ probePc = "initializing" /\ child' = "none"
      /\ Probe!FailSession("command_failed", "unreachable") /\ outputBytes \in Nat
      /\ "command_failed" \in Probe!Categories
      /\ UNCHANGED <<transport, probePc, messages, outputBytes, exited, expired, caps, heard,
                     sigkill, outcome>>
  BY DEF Probe!OnSpawnError, Probe!Event, ProbeInv, ProbeTyped, Probe!Categories
<1>2. /\ woken' \in BOOLEAN /\ (woken' => probePc \in Probe!Waiting)
      /\ closedError' \in [category : Probe!Categories, liveness : {"reachable", "unreachable"}]
      /\ closedError' = closedError \/ closedError'.liveness # "reachable"
  BY <1>1, FailSessionStep
<1>3. ProbeTyped'
  <2>1. {exited', woken', expired', sigkill'} \subseteq BOOLEAN
    BY <1>1, <1>2, Zenon DEF ProbeInv, ProbeTyped
  <2>2. QED BY <1>1, <1>2, <2>1 DEF ProbeInv, ProbeTyped
<1>4. QED BY <1>1, <1>2, <1>3, EventStep DEF ProbeInv, ProbeFacts

LEMMA DeadlineStep == ASSUME ProbeInv, Probe!Deadline PROVE ProbeInv'
<1>1. /\ transport = "stdio" /\ expired' = TRUE /\ woken' = (probePc \in Probe!Waiting)
      /\ UNCHANGED <<transport, probePc, messages, closedError, outputBytes, exited, caps, heard,
                     child, sigkill, outcome>>
  BY DEF Probe!Deadline, Probe!Event, Probe!Wake, Probe!session
<1>2. woken' \in BOOLEAN /\ (woken' => probePc \in Probe!Waiting)
  BY <1>1, WaitingIsBoolean
<1>3. ProbeTyped'
  <2>1. {exited', woken', expired', sigkill'} \subseteq BOOLEAN
    BY <1>1, <1>2, Zenon DEF ProbeInv, ProbeTyped
  <2>2. QED BY <1>1, <2>1 DEF ProbeInv, ProbeTyped
<1>4. outputBytes \in Nat
  BY DEF ProbeInv, ProbeTyped
<1>5. QED BY <1>1, <1>2, <1>3, <1>4, EventStep DEF ProbeInv, ProbeFacts

\* The process or its timer, the start of the probe: nothing is learnt.
LEMMA SilentStep ==
  ASSUME ProbeInv, Probe!Start \/ Probe!ChildEnds \/ Probe!KillTimer \/ UNCHANGED probeVars
  PROVE  ProbeInv'
<1>1. /\ UNCHANGED <<transport, messages, closedError, outputBytes, exited, woken, expired, caps,
                     heard, outcome>>
      /\ probePc' = probePc \/ (probePc = "new" /\ probePc' = "initializing")
      /\ sigkill' = sigkill \/ sigkill' = FALSE
      /\ child' \in {"none", "running", "killed", "gone"}
  BY DEF Probe!Start, Probe!ChildEnds, Probe!KillTimer, Probe!session, probeVars, ProbeInv, ProbeTyped
<1>2. ProbeTyped'
  <2>1. {exited', woken', expired', sigkill'} \subseteq BOOLEAN
    BY <1>1, Zenon DEF ProbeInv, ProbeTyped
  <2>2. QED BY <1>1, <2>1 DEF ProbeInv, ProbeTyped, Probe!Waiting
<1>3. ProbeFacts' /\ Verdict'
  BY <1>1 DEF ProbeInv, ProbeFacts, Verdict, Probe!Waiting
<1>4. QED BY <1>2, <1>3 DEF ProbeInv

LEMMA ResumeStep == ASSUME ProbeInv, Probe!Resume PROVE ProbeInv'
<1>1. /\ transport = "stdio" /\ probePc \in {"initializing", "listing"} /\ outcome = None
      /\ expired' = FALSE /\ woken' = (probePc' = "listing" /\ probePc # "listing")
      /\ UNCHANGED <<transport, closedError, outputBytes, exited, heard>>
      /\ messages \in Seq(heard) /\ messages \in Seq(Probe!Messages)
  BY DEF Probe!Resume, ProbeInv, ProbeTyped, ProbeFacts, Probe!Waiting
<1>2. woken' \in BOOLEAN /\ (woken' => probePc' = "listing")
  BY <1>1, Zenon
<1> DEFINE id == IF probePc = "initializing" THEN 1 ELSE 2
<1>3. CASE Probe!FirstMessage(id) # {}
  <2>1. PICK i \in Probe!FirstMessage(id) :
          /\ messages' = Probe!WithoutIndex(messages, i)
          /\ IF id = 2 THEN Probe!TakeList(messages[i][2])
             ELSE \/ Probe!TakeInitialize(messages[i][2])
                  \/ /\ messages[i][2] \in Probe!Good /\ Probe!WriteBreaks
                     /\ probePc' = "crashed"
                     /\ UNCHANGED <<caps, child, sigkill, outcome>>
    BY <1>3 DEF Probe!Resume
  <2>2. i \in 1..Len(messages) /\ messages[i][1] = id
    BY DEF Probe!FirstMessage
  <2>3. PICK m \in heard : m = messages[i] /\ m \in Probe!Messages
    BY <1>1, <2>2, ElementOfSeq
  <2>4. outputBytes > 0
    BY <1>1, <2>3 DEF ProbeInv, ProbeFacts
  <2>5. messages' \in Seq(heard') /\ messages' \in Seq(Probe!Messages)
    BY <1>1, <2>1, <2>2, QueueShrinks
  <2>6. /\ probePc' \in {"notifying", "listing", "ended", "crashed"}
        /\ caps' \in Probe!Good \cup {None}
        /\ child' = child /\ sigkill' \in BOOLEAN
        /\ outcome' # None => probePc' = "ended"
        /\ probePc' \in {"notifying", "listing"} => caps' # None
        /\ caps' # None => <<1, caps'>> \in heard'
        /\ Verdict'
    <3>1. CASE probePc = "initializing" /\ Probe!TakeInitialize(messages[i][2])
      <4>1. m = <<1, m[2]>> /\ m[2] \in Probe!InitBodies
        BY <2>2, <2>3, <3>1 DEF Probe!Messages
      <4>2. QED BY <1>1, <2>3, <2>4, <3>1, <4>1, TakesInitialize
    <3>2. CASE probePc = "initializing" /\ ~Probe!TakeInitialize(messages[i][2])
      <4>1. probePc' = "crashed" /\ UNCHANGED <<caps, child, sigkill, outcome>>
        BY <2>1, <3>2
      <4>2. Verdict'
        BY <1>1, <4>1 DEF Verdict
      <4>3. QED BY <1>1, <4>1, <4>2 DEF ProbeInv, ProbeTyped, ProbeFacts
    <3>3. CASE probePc = "listing"
      <4>1. m = <<2, m[2]>> /\ m[2] \in Probe!ListBodies /\ Probe!TakeList(m[2])
        BY <2>1, <2>2, <2>3, <3>3 DEF Probe!Messages
      <4>2. /\ probePc' = "ended" /\ caps' = caps /\ child' = child /\ sigkill' \in BOOLEAN
            /\ Verdict'
        BY <1>1, <2>3, <2>4, <3>3, <4>1, TakesList
      <4>3. QED BY <1>1, <4>2 DEF ProbeInv, ProbeTyped, ProbeFacts
    <3>4. QED BY <1>1, <3>1, <3>2, <3>3
  <2>7. ProbeTyped'
    <3>1. {exited', woken', expired', sigkill'} \subseteq BOOLEAN
      BY <1>1, <1>2, <2>6, Zenon DEF ProbeInv, ProbeTyped
    <3>2. QED BY <1>1, <2>5, <2>6, <3>1 DEF ProbeInv, ProbeTyped, Probe!Waiting
  <2>8. ProbeFacts'
    BY <1>1, <1>2, <2>5, <2>6 DEF ProbeInv, ProbeFacts, Probe!Waiting
  <2>9. QED BY <2>6, <2>7, <2>8 DEF ProbeInv
<1>4. CASE Probe!FirstMessage(id) = {} /\ closedError = None /\ ~expired
  <2>1. UNCHANGED <<probePc, messages, caps, child, sigkill, outcome>>
    BY <1>4 DEF Probe!Resume
  <2>2. ProbeTyped'
    <3>1. {exited', woken', expired', sigkill'} \subseteq BOOLEAN
      BY <1>1, <1>2, <2>1, Zenon DEF ProbeInv, ProbeTyped
    <3>2. QED BY <1>1, <2>1, <3>1 DEF ProbeInv, ProbeTyped
  <2>3. ProbeFacts' /\ Verdict'
    BY <1>1, <1>2, <2>1 DEF ProbeInv, ProbeFacts, Verdict, Probe!Waiting
  <2>4. QED BY <2>2, <2>3 DEF ProbeInv
<1>5. CASE Probe!FirstMessage(id) = {} /\ (closedError # None \/ expired)
  <2>1. PICK f \in ProbeFailures :
          /\ Probe!Fail(f)
          /\ (f = closedError /\ closedError # None) \/ f.liveness = "unreachable"
    <3>1. CASE closedError # None
      <4>1. Probe!Fail(closedError) /\ closedError \in ProbeFailures
        BY <1>1, <1>5, <3>1 DEF Probe!Resume, ProbeInv, ProbeTyped, ProbeFailures
      <4>2. QED BY <3>1, <4>1
    <3>2. CASE closedError = None
      <4>1. Probe!Fail(Probe!Failure("timeout", "unreachable"))
        BY <1>5, <3>2 DEF Probe!Resume
      <4>2. PICK f : f = Probe!Failure("timeout", "unreachable")
        OBVIOUS
      <4>3. f \in ProbeFailures /\ f.liveness = "unreachable"
        BY <4>2 DEF Probe!Failure, ProbeFailures, Probe!Categories
      <4>4. QED BY <4>1, <4>2, <4>3
    <3>3. QED BY <3>1, <3>2
  <2>2. messages' = messages /\ caps' = caps /\ probePc' = "ended"
    BY <1>5, <2>1 DEF Probe!Resume, Probe!Fail, Probe!Finish
  <2>3. woken' = FALSE /\ expired' \in BOOLEAN
    BY <1>1, <1>2, <2>2
  <2>4. f.liveness = "reachable" => outputBytes > 0
    BY <1>1, <2>1 DEF ProbeInv, ProbeFacts
  <2>5. QED BY <1>1, <2>1, <2>2, <2>3, <2>4, FailureStep
<1>6. QED BY <1>3, <1>4, <1>5

LEMMA ProbeInitial == Init => ProbeInv
<1>1. ASSUME Init PROVE ProbeInv
  <2>1. FALSE \in BOOLEAN
    OBVIOUS
  <2>2. {exited, woken, expired, sigkill} \subseteq BOOLEAN
    BY <1>1, <2>1 DEF Init, Probe!Init
  <2>3. QED BY <1>1, <2>2, SharedAssumption
            DEF Init, Probe!Init, Probe!ProbeAssumption, ProbeInv, ProbeTyped, ProbeFacts, Verdict
<1>2. QED BY <1>1

LEMMA ProbeInductive == ProbeInv /\ [Next]_vars => ProbeInv'
<1> SUFFICES ASSUME ProbeInv, [Next]_vars PROVE ProbeInv'
  OBVIOUS
<1>1. (part = "probe" /\ Probe!Next) \/ UNCHANGED probeVars
  BY DEF Next, ClientStep, ProbeStep, RoundStep, SubmitStep, FetchStep, vars
<1>2. CASE UNCHANGED probeVars
  BY <1>2 DEF probeVars, ProbeInv, ProbeTyped, ProbeFacts, Verdict
<1>3. CASE Probe!Next
  <2>1. CASE Probe!Start
    BY <2>1 DEF Probe!Start, Probe!session, ProbeInv, ProbeTyped, ProbeFacts, Verdict,
                Probe!Waiting
  <2>2. CASE Probe!ChildEnds
    BY <2>2 DEF Probe!ChildEnds, Probe!session, ProbeInv, ProbeTyped, ProbeFacts, Verdict
  <2>3. CASE Probe!KillTimer
    BY <2>3 DEF Probe!KillTimer, Probe!session, ProbeInv, ProbeTyped, ProbeFacts, Verdict
  <2>4. ASSUME NEW code \in {0, 1}, Probe!OnExit(code) PROVE ProbeInv'
    BY <2>4, OnExitStep
  <2>5. QED BY <1>3, <2>1, <2>2, <2>3, <2>4, RefuseStep, HttpAnswerStep, HttpFailsStep,
               HttpNotifiedStep, OnDataStep, OnAuxiliaryDataStep, OnSpawnErrorStep, DeadlineStep,
               ResumeStep
            DEF Probe!Next
<1>4. QED BY <1>1, <1>2, <1>3

\* Ready is earned by a handshake that was completed, degraded by something
\* heard, whatever the order of answers, exit, output limit and deadline, and
\* however much a child may write (HealthMonitor.ts).
THEOREM VerdictsAreEarned == Spec => []VerdictIsEarned
<1>1. ProbeInv => VerdictIsEarned
  BY DEF VerdictIsEarned, ProbeInv, ProbeTyped, Verdict, Probe!TypeOK, Probe!ReadyIsEarned,
         Probe!HandshakeMeansReachable, Probe!ReachableSpoke
<1>2. QED BY <1>1, ProbeInitial, ProbeInductive, PTL DEF Spec

--------------------------------------------------------------------------
(* Facts about numbers and lists                                           *)

\* Of finitely many readings of a clock, one is the last.
LEMMA LatestExists ==
  ASSUME NEW T, T \subseteq Nat, T # {}, NEW n \in Nat, \A t \in T : t <= n
  PROVE  \E x \in T : \A y \in T : y <= x
<1> DEFINE Later(x) == {y \in T : y > x}
           L == {Later(x) : x \in T}
<1>1. IsFiniteSet(T)
  BY FS_BoundedSetOfNaturals
<1>2. L \subseteq FiniteSubsetsOf(T)
  <2>1. \A x \in T : Later(x) \subseteq T /\ IsFiniteSet(Later(x))
    BY <1>1, FS_Subset
  <2>2. QED BY <2>1 DEF FiniteSubsetsOf
<1>3. PICK u \in L : \A v \in L : <<v, u>> \notin StrictSubsetOrdering(T)
  <2>1. L # {}
    OBVIOUS
  <2>2. IsWellFoundedOn(StrictSubsetOrdering(T), FiniteSubsetsOf(T))
    BY FS_StrictSubsetOrderingWellFounded
  <2>3. QED BY <1>2, <2>1, <2>2, WFMin
<1>4. PICK x \in T : u = Later(x)
  BY <1>3
<1>5. ASSUME NEW y \in T, y > x PROVE FALSE
  <2>1. y \in Later(x) /\ y \notin Later(y)
    BY <1>5
  <2>2. \A z \in Later(y) : z \in Later(x)
    BY <1>5
  <2>3. Later(y) \in SUBSET T /\ Later(x) \in SUBSET T
    OBVIOUS
  <2>4. <<Later(y), Later(x)>> \in StrictSubsetOrdering(T)
    BY <2>1, <2>2, <2>3, Zenon DEF StrictSubsetOrdering
  <2>5. QED BY <1>3, <1>4, <2>4
<1>6. QED BY <1>5

\* A list in some order is a list of all.
LEMMA OrderCovers ==
  ASSUME NEW S \in SUBSET Servers, NEW order \in Health!SetToSeqs(S)
  PROVE  order \in Seq(S) /\ Health!Range(order) = S
<1>1. IsFiniteSet(S)
  BY SharedAssumption, FS_Subset DEF Health!HealthAssumption, Health!IsFiniteSet, IsFiniteSet
<1>2. PICK n \in Nat : n = Cardinality(S)
  BY <1>1, FS_CardinalityType
<1>3. order \in [1..n -> S] /\ \A i, j \in 1..n : i # j => order[i] # order[j]
  <2>1. Health!Cardinality(S) = Cardinality(S)
    BY Zenon DEF Health!Cardinality, Cardinality
  <2>2. QED BY <1>2, <2>1 DEF Health!SetToSeqs
<1>4. order \in Injection(1..n, S)
  BY <1>3 DEF Injection, IsInjective
<1>5. Cardinality(1..n) = Cardinality(S)
  BY <1>2, FS_Interval
<1>6. order \in Surjection(1..n, S)
  BY <1>1, <1>4, <1>5, FS_Injection
<1>7. \A s \in S : \E i \in 1..n : order[i] = s
  BY <1>6 DEF Surjection
<1>8. QED BY <1>3, <1>7 DEF Health!Range

LEMMA RangeOfTail ==
  ASSUME NEW S, NEW q \in Seq(S), q # <<>>
  PROVE  /\ Head(q) \in Health!Range(q) /\ Tail(q) \in Seq(S)
         /\ Health!Range(q) = {Head(q)} \cup Health!Range(Tail(q))
<1>1. Len(q) \in Nat /\ Len(q) >= 1 /\ DOMAIN q = 1..Len(q)
  BY EmptySeq
<1>2. Tail(q) \in Seq(S) /\ Len(Tail(q)) = Len(q) - 1 /\ DOMAIN Tail(q) = 1..(Len(q) - 1)
  BY <1>1
<1>3. \A i \in 1..(Len(q) - 1) : Tail(q)[i] = q[i + 1]
  BY <1>1
<1>4. Head(q) = q[1]
  BY <1>1
<1>5. Health!Range(Tail(q)) \subseteq Health!Range(q)
  BY <1>1, <1>2, <1>3 DEF Health!Range
<1>6. ASSUME NEW i \in 1..Len(q), i # 1 PROVE q[i] \in Health!Range(Tail(q))
  <2>1. i - 1 \in 1..(Len(q) - 1) /\ Tail(q)[i - 1] = q[i]
    BY <1>1, <1>3, <1>6
  <2>2. QED BY <1>2, <2>1 DEF Health!Range
<1>7. QED BY <1>1, <1>2, <1>4, <1>5, <1>6 DEF Health!Range

--------------------------------------------------------------------------
(* The inductive invariant of the health records                           *)

TablesTyped ==
  /\ clock \in Nat /\ clock >= 1 /\ inserted \in Nat
  /\ verified \subseteq present /\ present \subseteq Servers
  /\ buried \in [Servers -> [clock : Nat, n : Nat]]
  /\ \A s \in Servers : buried[s].clock <= clock /\ buried[s].n <= inserted

RoundsTyped ==
  /\ roundPc \in [Rounds -> {"idle", "next", "probing", "recording", "done", "lost"}]
  /\ todo \in [Rounds -> Seq(Servers)] /\ listed \in [Rounds -> SUBSET Servers]
  /\ at \in [Rounds -> Nat] /\ found = [m \in Rounds |-> found[m]]
  /\ \A m \in Rounds : at[m] <= clock

\* A success on record is its own last success.
RowTyped(r) ==
  /\ r.server \in Servers /\ r.by \in Rounds /\ r.status \in Health!Statuses
  /\ r.at \in 1..clock /\ r.lastOk \in 0..clock /\ r.n \in 1..inserted
  /\ r.seen \in 0..(r.n - 1)
  /\ r.status = "online" => r.lastOk = r.at

Rows ==
  /\ \A r \in health : RowTyped(r)
  /\ Health!FailureKnowsSuccess /\ Health!OrphansWereInFlight

\* What a probe found knows every success that was on record when it failed.
FoundKept(m) ==
  /\ found[m].status \in Health!Statuses
  /\ found[m].lastOk \in 0..clock /\ found[m].seen \in 0..inserted
  /\ found[m].status = "online" => found[m].lastOk = at[m]
  /\ found[m].status # "online" => \A q \in health :
       q.server = Head(todo[m]) /\ q.status = "online" /\ q.n <= found[m].seen
         => q.at <= found[m].lastOk

\* A round has every server of its list before it or behind it; the one it
\* probes was there when its probe began.
RoundKept(m) ==
  /\ Health!Range(todo[m]) \subseteq listed[m]
  /\ roundPc[m] \in {"probing", "recording"} => todo[m] # <<>> /\ at[m] >= 1
  /\ roundPc[m] \in {"probing", "recording"} /\ Head(todo[m]) \notin present
       => at[m] <= buried[Head(todo[m])].clock
  /\ roundPc[m] = "recording" => FoundKept(m)
  /\ roundPc[m] = "done" => todo[m] = <<>>
  /\ roundPc[m] \in {"next", "probing", "recording", "done"} =>
       \A s \in listed[m] : \/ s \in Health!Range(todo[m]) \/ buried[s].clock > 0
                            \/ \E r \in health : r.server = s /\ r.by = m

HealthInv == TablesTyped /\ RoundsTyped /\ Rows /\ \A m \in Rounds : RoundKept(m)

LEMMA HealthInitial == Init => HealthInv
<1> SUFFICES ASSUME Init PROVE HealthInv
  OBVIOUS
<1>1. TablesTyped
  BY SharedAssumption DEF Init, Health!Init, Health!HealthAssumption, TablesTyped
<1>2. RoundsTyped
  BY DEF Init, Health!Init, RoundsTyped
<1>3. Rows
  BY DEF Init, Health!Init, Rows, Health!FailureKnowsSuccess, Health!OrphansWereInFlight
<1>4. \A m \in Rounds : RoundKept(m)
  BY DEF Init, Health!Init, RoundKept, Health!Range
<1>5. QED BY <1>1, <1>2, <1>3, <1>4 DEF HealthInv

\* What is on record as the last success is one, and none on record is later.
LEMMA LastSuccess ==
  ASSUME HealthInv, NEW s \in Servers
  PROVE  /\ Health!LastSuccessfulAt(s) \in 0..clock
         /\ \A q \in health : q.server = s /\ q.status = "online"
              => q.at <= Health!LastSuccessfulAt(s)
<1> DEFINE Found == Health!Successes(s)
           Times == {q.at : q \in Found}
<1>1. /\ clock \in Nat
      /\ \A q \in Found : q.at \in 1..clock /\ q.lastOk = q.at
  BY DEF HealthInv, TablesTyped, Rows, RowTyped, Health!Successes, Health!Checks
<1>2. CASE Found = {}
  BY <1>1, <1>2 DEF Health!LastSuccessfulAt, Health!Successes, Health!Checks
<1>3. CASE Found # {}
  <2>1. \E t \in Times : \A u \in Times : u <= t
    <3>1. Times \subseteq Nat /\ Times # {} /\ \A t \in Times : t <= clock
      BY <1>1, <1>3
    <3>2. QED BY <1>1, <3>1, LatestExists
  <2>2. \E r \in Found : \A q \in Found : q.at <= r.at
    BY <2>1
  <2>3. PICK r \in Found : /\ \A q \in Found : q.at <= r.at
                           /\ Health!LastSuccessfulAt(s) = r.lastOk
    BY <1>3, <2>2 DEF Health!LastSuccessfulAt
  <2>4. \A q \in health : q.server = s /\ q.status = "online" => q \in Found
    BY DEF Health!Successes, Health!Checks
  <2>5. QED BY <1>1, <2>3, <2>4
<1>4. QED BY <1>2, <1>3

\* What a round stands on while it makes no step: deletions are remembered,
\* rows go with their server only, and new ones have the next number.
WorldMoves ==
  /\ clock' \in Nat /\ clock' >= clock /\ inserted' \in Nat /\ inserted' >= inserted
  /\ \A r \in health' \ health : r.n = inserted + 1
  /\ \A s \in Servers : buried'[s].clock \in Nat /\ buried'[s].clock >= buried[s].clock
  /\ \A s \in present \ present' : buried'[s].clock >= clock
  /\ \A r \in health \ health' : buried'[r.server].clock > 0

LEMMA RoundStands ==
  ASSUME HealthInv, WorldMoves, NEW m \in Rounds,
         roundPc'[m] = roundPc[m], todo'[m] = todo[m], listed'[m] = listed[m], at'[m] = at[m],
         found'[m] = found[m]
  PROVE  RoundKept(m)'
<1>1. /\ todo[m] \in Seq(Servers) /\ listed[m] \subseteq Servers /\ at[m] \in Nat
      /\ at[m] <= clock /\ clock \in Nat
      /\ \A s \in Servers : buried[s].clock \in Nat
  BY DEF HealthInv, RoundsTyped, TablesTyped
<1>2. RoundKept(m)
  BY DEF HealthInv
<1>3. ASSUME roundPc[m] \in {"probing", "recording"}, Head(todo[m]) \notin present'
      PROVE  at[m] <= buried'[Head(todo[m])].clock
  <2>1. Head(todo[m]) \in Servers
    BY <1>1, <1>2, <1>3 DEF RoundKept
  <2>2. CASE Head(todo[m]) \in present
    BY <1>1, <1>3, <2>1, <2>2 DEF WorldMoves
  <2>3. CASE Head(todo[m]) \notin present
    BY <1>1, <1>2, <1>3, <2>1, <2>3 DEF WorldMoves, RoundKept
  <2>4. QED BY <2>2, <2>3
<1>4. ASSUME roundPc[m] \in {"next", "probing", "recording", "done"}, NEW s \in listed[m]
      PROVE  \/ s \in Health!Range(todo[m]) \/ buried'[s].clock > 0
             \/ \E r \in health' : r.server = s /\ r.by = m
  <2>1. CASE buried[s].clock > 0
    BY <1>1, <2>1 DEF WorldMoves
  <2>2. ASSUME NEW r \in health, r.server = s, r.by = m
        PROVE  buried'[s].clock > 0 \/ r \in health'
    BY <2>2 DEF WorldMoves
  <2>3. QED BY <1>2, <1>4, <2>1, <2>2 DEF RoundKept
<1>5. ASSUME roundPc[m] = "recording" PROVE FoundKept(m)'
  <2>1. FoundKept(m) /\ inserted \in Nat
    BY <1>2, <1>5 DEF RoundKept, HealthInv, TablesTyped
  <2>2. \A q \in health' \ health : ~(q.n <= found[m].seen)
    BY <2>1 DEF WorldMoves, FoundKept
  <2>3. found[m].lastOk \in 0..clock' /\ found[m].seen \in 0..inserted'
    BY <1>1, <2>1 DEF WorldMoves, FoundKept
  <2>4. QED BY <2>1, <2>2, <2>3 DEF FoundKept
<1>6. QED BY <1>2, <1>3, <1>4, <1>5 DEF RoundKept, Health!Range

LEMMA RowsStand ==
  ASSUME HealthInv, health' \subseteq health, clock' \in Nat, clock' >= clock,
         inserted' = inserted,
         \A r \in health' : r.server \notin present' =>
           r.server \notin present /\ buried'[r.server] = buried[r.server]
  PROVE  Rows'
<1>1. clock \in Nat /\ inserted \in Nat /\ \A r \in health' : RowTyped(r) /\ r \in health
  BY DEF HealthInv, TablesTyped, Rows
<1>2. \A r \in health' : RowTyped(r)'
  BY <1>1 DEF RowTyped
<1>3. Health!FailureKnowsSuccess'
  BY <1>1 DEF HealthInv, Rows, Health!FailureKnowsSuccess
<1>4. Health!OrphansWereInFlight'
  BY <1>1 DEF HealthInv, Rows, Health!OrphansWereInFlight
<1>5. QED BY <1>2, <1>3, <1>4 DEF Rows

\* The tables change and no round makes a step.
LEMMA TableStep ==
  ASSUME HealthInv, TablesTyped', WorldMoves, UNCHANGED <<roundPc, todo, listed, at, found>>,
         health' \subseteq health, clock' >= clock, inserted' = inserted,
         \A r \in health' : r.server \notin present' =>
           r.server \notin present /\ buried'[r.server] = buried[r.server]
  PROVE  HealthInv'
<1>1. RoundsTyped'
  BY DEF HealthInv, TablesTyped, RoundsTyped
<1>2. Rows'
  BY RowsStand DEF TablesTyped
<1>3. \A m \in Rounds : RoundKept(m)'
  BY RoundStands
<1>4. QED BY <1>1, <1>2, <1>3 DEF HealthInv

LEMMA TickStep == ASSUME HealthInv, Health!Tick PROVE HealthInv'
<1>1. /\ clock' = clock + 1 /\ clock \in Nat
      /\ UNCHANGED <<present, verified, health, inserted, buried, roundPc, todo, listed, at, found>>
  BY DEF Health!Tick, Health!roundVars, HealthInv, TablesTyped
<1>2. TablesTyped' /\ WorldMoves
  BY <1>1 DEF HealthInv, TablesTyped, WorldMoves
<1>3. QED BY <1>1, <1>2, TableStep

LEMMA GrowStep ==
  ASSUME HealthInv, Health!Seed \/ \E s \in Servers : Health!Add(s) \/ Health!Update(s)
  PROVE  HealthInv'
<1>1. /\ present \subseteq present' /\ present' \subseteq Servers /\ verified' \subseteq present'
      /\ UNCHANGED <<health, inserted, clock, buried, roundPc, todo, listed, at, found>>
  BY SharedAssumption
     DEF Health!Seed, Health!Add, Health!Update, Health!roundVars, Health!HealthAssumption,
         HealthInv, TablesTyped
<1>2. TablesTyped' /\ WorldMoves
  BY <1>1 DEF HealthInv, TablesTyped, WorldMoves
<1>3. clock' >= clock
  BY <1>1 DEF HealthInv, TablesTyped
<1>4. QED BY <1>1, <1>2, <1>3, TableStep

LEMMA DeleteStep == ASSUME HealthInv, NEW s \in Servers, Health!Delete(s) PROVE HealthInv'
<1>1. /\ clock \in Nat /\ clock >= 1 /\ inserted \in Nat
      /\ buried \in [Servers -> [clock : Nat, n : Nat]]
      /\ \A u \in Servers : buried[u].clock <= clock /\ buried[u].n <= inserted
      /\ \A r \in health : r.server \in Servers
  BY DEF HealthInv, TablesTyped, Rows, RowTyped
<1>2. /\ s \in present /\ present' = present \ {s} /\ verified' = verified \ {s}
      /\ health' \subseteq health
      /\ \A r \in health : r \in health' <=> r.server # s
      /\ UNCHANGED <<inserted, clock, roundPc, todo, listed, at, found>>
  BY DEF Health!Delete, Health!Checks, Health!roundVars
<1>3. /\ buried' \in [Servers -> [clock : Nat, n : Nat]]
      /\ buried'[s].clock = clock /\ buried'[s].n = inserted
      /\ \A u \in Servers \ {s} : buried'[u] = buried[u]
  BY <1>1 DEF Health!Delete
<1>4. TablesTyped'
  BY <1>1, <1>2, <1>3 DEF HealthInv, TablesTyped
<1>5. WorldMoves
  BY <1>1, <1>2, <1>3 DEF WorldMoves
<1>6. \A r \in health' : r.server \notin present' =>
        r.server \notin present /\ buried'[r.server] = buried[r.server]
  BY <1>1, <1>2, <1>3
<1>7. QED BY <1>1, <1>2, <1>4, <1>5, <1>6, TableStep

--------------------------------------------------------------------------
(* Steps of a round                                                        *)

\* The tables stand and one round makes its step.
LEMMA OneRoundStep ==
  ASSUME HealthInv, NEW m \in Rounds, RoundsTyped', RoundKept(m)',
         UNCHANGED <<present, verified, health, inserted, clock, buried>>,
         \A k \in Rounds \ {m} : /\ roundPc'[k] = roundPc[k] /\ todo'[k] = todo[k]
                                 /\ listed'[k] = listed[k] /\ at'[k] = at[k]
                                 /\ found'[k] = found[k]
  PROVE  HealthInv'
<1>1. TablesTyped' /\ WorldMoves
  BY DEF HealthInv, TablesTyped, WorldMoves
<1>2. Rows'
  BY RowsStand DEF HealthInv, TablesTyped
<1>3. \A k \in Rounds : RoundKept(k)'
  BY <1>1, RoundStands
<1>4. QED BY <1>1, <1>2, <1>3 DEF HealthInv

LEMMA CheckAllStep == ASSUME HealthInv, NEW m \in Rounds, Health!CheckAll(m) PROVE HealthInv'
<1>1. PICK order \in Health!SetToSeqs(verified) :
        /\ todo' = [todo EXCEPT ![m] = order]
        /\ roundPc' = [roundPc EXCEPT ![m] = "next"]
        /\ listed' = [listed EXCEPT ![m] = verified]
        /\ UNCHANGED <<present, verified, health, inserted, clock, at, found, buried>>
  BY DEF Health!CheckAll
<1>2. verified \in SUBSET Servers
  BY DEF HealthInv, TablesTyped
<1>3. order \in Seq(Servers) /\ Health!Range(order) = verified
  <2>1. order \in Seq(verified) /\ Health!Range(order) = verified
    BY <1>2, OrderCovers
  <2>2. QED BY <1>2, <2>1
<1>4. RoundsTyped'
  BY <1>1, <1>2, <1>3 DEF HealthInv, RoundsTyped
<1>5. roundPc'[m] = "next" /\ todo'[m] = order /\ listed'[m] = verified
  BY <1>1 DEF HealthInv, RoundsTyped
<1>6. RoundKept(m)'
  BY <1>3, <1>5 DEF RoundKept, Health!Range
<1>7. \A k \in Rounds \ {m} : /\ roundPc'[k] = roundPc[k] /\ todo'[k] = todo[k]
                              /\ listed'[k] = listed[k] /\ at'[k] = at[k]
                              /\ found'[k] = found[k]
  BY <1>1 DEF HealthInv, RoundsTyped
<1>8. QED BY <1>1, <1>4, <1>6, <1>7, OneRoundStep

LEMMA CheckServerStep ==
  ASSUME HealthInv, NEW m \in Rounds, Health!CheckServer(m)
  PROVE  HealthInv'
<1>1. /\ roundPc[m] = "next" /\ todo[m] # <<>> /\ Head(todo[m]) \in present
      /\ roundPc' = [roundPc EXCEPT ![m] = "probing"] /\ at' = [at EXCEPT ![m] = clock]
      /\ UNCHANGED <<present, verified, health, inserted, clock, todo, listed, found, buried>>
  BY DEF Health!CheckServer
<1>2. RoundsTyped' /\ roundPc'[m] = "probing" /\ at'[m] = clock
  BY <1>1 DEF HealthInv, RoundsTyped, TablesTyped
<1>3. RoundKept(m)'
  BY <1>1, <1>2 DEF HealthInv, TablesTyped, RoundKept, Health!Range
<1>4. \A k \in Rounds \ {m} : /\ roundPc'[k] = roundPc[k] /\ todo'[k] = todo[k]
                              /\ listed'[k] = listed[k] /\ at'[k] = at[k]
                              /\ found'[k] = found[k]
  BY <1>1 DEF HealthInv, RoundsTyped
<1>5. QED BY <1>1, <1>2, <1>3, <1>4, OneRoundStep

LEMMA LoseStep == ASSUME HealthInv, NEW m \in Rounds, Health!Lose(m) PROVE HealthInv'
<1>1. /\ roundPc' = [roundPc EXCEPT ![m] = "lost"] /\ todo' = [todo EXCEPT ![m] = <<>>]
      /\ listed' = [listed EXCEPT ![m] = {}] /\ at' = [at EXCEPT ![m] = 0]
      /\ found' = [found EXCEPT ![m] = Health!Nothing]
      /\ UNCHANGED <<present, verified, health, inserted, clock, buried>>
  BY DEF Health!Lose
<1>2. RoundsTyped' /\ roundPc'[m] = "lost" /\ todo'[m] = <<>>
  <2>1. /\ todo' \in [Rounds -> Seq(Servers)] /\ todo'[m] = <<>>
        /\ listed' \in [Rounds -> SUBSET Servers]
    BY <1>1 DEF HealthInv, RoundsTyped
  <2>2. /\ roundPc' \in [Rounds -> {"idle", "next", "probing", "recording", "done", "lost"}]
        /\ roundPc'[m] = "lost" /\ at' \in [Rounds -> Nat] /\ \A k \in Rounds : at'[k] <= clock'
    BY <1>1 DEF HealthInv, RoundsTyped, TablesTyped
  <2>3. found' = [k \in Rounds |-> found'[k]]
    BY <1>1 DEF HealthInv, RoundsTyped
  <2>4. QED BY <2>1, <2>2, <2>3 DEF RoundsTyped
<1>3. RoundKept(m)'
  BY <1>2 DEF RoundKept, Health!Range
<1>4. \A k \in Rounds \ {m} : /\ roundPc'[k] = roundPc[k] /\ todo'[k] = todo[k]
                              /\ listed'[k] = listed[k] /\ at'[k] = at[k]
                              /\ found'[k] = found[k]
  BY <1>1 DEF HealthInv, RoundsTyped
<1>5. QED BY <1>1, <1>2, <1>3, <1>4, OneRoundStep

LEMMA EndRoundStep == ASSUME HealthInv, NEW m \in Rounds, Health!EndRound(m) PROVE HealthInv'
<1>1. /\ roundPc[m] = "next" /\ todo[m] = <<>> /\ roundPc' = [roundPc EXCEPT ![m] = "done"]
      /\ UNCHANGED <<present, verified, health, inserted, clock, todo, listed, at, found, buried>>
  BY DEF Health!EndRound
<1>2. RoundsTyped' /\ roundPc'[m] = "done"
  BY <1>1 DEF HealthInv, RoundsTyped
<1>3. RoundKept(m)'
  BY <1>1, <1>2 DEF HealthInv, RoundKept, Health!Range
<1>4. \A k \in Rounds \ {m} : /\ roundPc'[k] = roundPc[k] /\ todo'[k] = todo[k]
                              /\ listed'[k] = listed[k] /\ at'[k] = at[k]
                              /\ found'[k] = found[k]
  BY <1>1 DEF HealthInv, RoundsTyped
<1>5. QED BY <1>1, <1>2, <1>3, <1>4, OneRoundStep

LEMMA EndProbeStep == ASSUME HealthInv, NEW m \in Rounds, Health!EndProbe(m) PROVE HealthInv'
<1>1. PICK status \in Health!Statuses : found' = [found EXCEPT ![m] = Health!Snapshot(m, status)]
  BY DEF Health!EndProbe
<1>2. /\ roundPc[m] = "probing" /\ roundPc' = [roundPc EXCEPT ![m] = "recording"]
      /\ UNCHANGED <<present, verified, health, inserted, clock, todo, listed, at, buried>>
  BY DEF Health!EndProbe
<1>3. PICK last : last = Health!LastSuccessfulAt(Head(todo[m]))
  OBVIOUS
<1>4. /\ found'[m] = [status |-> status, seen |-> inserted,
                      lastOk |-> IF status = "online" THEN at[m] ELSE last]
      /\ \A k \in Rounds \ {m} : found'[k] = found[k]
  BY <1>1, <1>3 DEF Health!Snapshot, HealthInv, RoundsTyped
<1>5. /\ todo[m] \in Seq(Servers) /\ todo[m] # <<>> /\ at[m] \in 1..clock
      /\ clock \in Nat /\ inserted \in Nat
  BY <1>2 DEF HealthInv, RoundsTyped, TablesTyped, RoundKept
<1>6. Head(todo[m]) \in Servers
  BY <1>5
<1>7. /\ last \in 0..clock
      /\ \A q \in health : q.server = Head(todo[m]) /\ q.status = "online" => q.at <= last
  BY <1>3, <1>6, LastSuccess
<1>8. RoundsTyped' /\ roundPc'[m] = "recording"
  BY <1>1, <1>2 DEF HealthInv, RoundsTyped
<1>9. FoundKept(m)'
  BY <1>2, <1>4, <1>5, <1>7 DEF FoundKept
<1>10. RoundKept(m)'
  BY <1>2, <1>8, <1>9 DEF HealthInv, RoundKept, Health!Range
<1>11. \A k \in Rounds \ {m} : /\ roundPc'[k] = roundPc[k] /\ todo'[k] = todo[k]
                               /\ listed'[k] = listed[k] /\ at'[k] = at[k]
                               /\ found'[k] = found[k]
  BY <1>2, <1>4 DEF HealthInv, RoundsTyped
<1>12. QED BY <1>2, <1>8, <1>10, <1>11, OneRoundStep

LEMMA RecordStep ==
  ASSUME HealthInv, NEW m \in Rounds, Health!RecordHealthCheck(m)
  PROVE  HealthInv'
<1>1. PICK r : r = [server |-> Head(todo[m]), at |-> at[m], by |-> m, n |-> inserted + 1,
                    status |-> found[m].status, lastOk |-> found[m].lastOk,
                    seen |-> found[m].seen]
  OBVIOUS
<1>2. /\ roundPc[m] = "recording" /\ health' = health \cup {r} /\ inserted' = inserted + 1
      /\ roundPc' = [roundPc EXCEPT ![m] = "next"]
      /\ todo' = [todo EXCEPT ![m] = Tail(@)] /\ at' = [at EXCEPT ![m] = 0]
      /\ found' = [found EXCEPT ![m] = Health!Nothing]
      /\ UNCHANGED <<present, verified, clock, listed, buried>>
  BY <1>1 DEF Health!RecordHealthCheck
<1>3. /\ clock \in Nat /\ inserted \in Nat
      /\ \A s \in Servers : buried[s].n \in Nat /\ buried[s].n <= inserted
      /\ \A q \in health : RowTyped(q)
  BY DEF HealthInv, TablesTyped, Rows
<1>4. /\ todo[m] \in Seq(Servers) /\ todo[m] # <<>> /\ at[m] \in 1..clock /\ FoundKept(m)
      /\ Head(todo[m]) \notin present => at[m] <= buried[Head(todo[m])].clock
  BY <1>2, <1>3 DEF HealthInv, RoundsTyped, RoundKept
<1>5. /\ r.server = Head(todo[m]) /\ r.server \in Servers /\ r.by = m
      /\ r.status \in Health!Statuses
      /\ r.at \in 1..clock /\ r.lastOk \in 0..clock /\ r.n = inserted + 1
      /\ r.seen \in 0..inserted
      /\ r.status = "online" => r.lastOk = r.at
      /\ r.server \notin present => r.at <= buried[r.server].clock
      /\ r.status # "online" => \A q \in health :
           q.server = r.server /\ q.status = "online" /\ q.n <= r.seen => q.at <= r.lastOk
  BY <1>1, <1>4 DEF FoundKept
<1>6. /\ Head(todo[m]) \in Health!Range(todo[m]) /\ Tail(todo[m]) \in Seq(Servers)
      /\ Health!Range(todo[m]) = {Head(todo[m])} \cup Health!Range(Tail(todo[m]))
  BY <1>4, RangeOfTail
<1>7. /\ roundPc'[m] = "next" /\ todo'[m] = Tail(todo[m]) /\ listed'[m] = listed[m]
      /\ \A k \in Rounds \ {m} : /\ roundPc'[k] = roundPc[k] /\ todo'[k] = todo[k]
                                 /\ listed'[k] = listed[k] /\ at'[k] = at[k]
                                 /\ found'[k] = found[k]
  BY <1>2 DEF HealthInv, RoundsTyped
<1>8. TablesTyped' /\ WorldMoves
  BY <1>2, <1>5 DEF HealthInv, TablesTyped, WorldMoves
<1>9. RoundsTyped'
  <2>1. todo' \in [Rounds -> Seq(Servers)]
    BY <1>2, <1>6 DEF HealthInv, RoundsTyped
  <2>2. /\ roundPc' \in [Rounds -> {"idle", "next", "probing", "recording", "done", "lost"}]
        /\ listed' \in [Rounds -> SUBSET Servers] /\ at' \in [Rounds -> Nat]
        /\ found' = [k \in Rounds |-> found'[k]]
    BY <1>2 DEF HealthInv, RoundsTyped
  <2>3. \A k \in Rounds : at'[k] <= clock'
    BY <1>2, <1>3 DEF HealthInv, RoundsTyped
  <2>4. QED BY <2>1, <2>2, <2>3 DEF RoundsTyped
<1>10. Rows'
  <2>1. \A q \in health' : RowTyped(q)'
    BY <1>2, <1>3, <1>5 DEF RowTyped
  <2>2. Health!FailureKnowsSuccess'
    <3>1. \A q \in health : ~(r.n <= q.seen)
      BY <1>3, <1>5 DEF RowTyped
    <3>2. ~(r.n <= r.seen)
      BY <1>3, <1>5
    <3>3. QED BY <1>2, <1>5, <3>1, <3>2 DEF HealthInv, Rows, Health!FailureKnowsSuccess
  <2>3. Health!OrphansWereInFlight'
    <3>1. r.n > buried[r.server].n
      BY <1>3, <1>5
    <3>2. QED BY <1>2, <1>5, <3>1 DEF HealthInv, Rows, Health!OrphansWereInFlight
  <2>4. QED BY <2>1, <2>2, <2>3 DEF Rows
<1>11. RoundKept(m)'
  <2>1. /\ Health!Range(todo[m]) \subseteq listed[m]
        /\ \A s \in listed[m] : \/ s \in Health!Range(todo[m]) \/ buried[s].clock > 0
                                \/ \E q \in health : q.server = s /\ q.by = m
    BY <1>2 DEF HealthInv, RoundKept
  <2>2. \A s \in listed[m] : \/ s \in Health!Range(Tail(todo[m])) \/ buried[s].clock > 0
                             \/ \E q \in health' : q.server = s /\ q.by = m
    BY <1>2, <1>5, <1>6, <2>1
  <2>3. QED BY <1>2, <1>6, <1>7, <2>1, <2>2 DEF RoundKept, Health!Range
<1>12. \A k \in Rounds : RoundKept(k)'
  BY <1>7, <1>8, <1>11, RoundStands
<1>13. QED BY <1>8, <1>9, <1>10, <1>12 DEF HealthInv

--------------------------------------------------------------------------

LEMMA HealthInductive == HealthInv /\ [Next]_vars => HealthInv'
<1> SUFFICES ASSUME HealthInv, [Next]_vars PROVE HealthInv'
  OBVIOUS
<1>1. (part \in RoundParts /\ Health!Next) \/ UNCHANGED roundVars
  BY DEF Next, ClientStep, ProbeStep, RoundStep, SubmitStep, FetchStep, vars
<1>2. CASE UNCHANGED roundVars
  <2>1. TablesTyped' /\ WorldMoves /\ clock' >= clock
    BY <1>2 DEF roundVars, HealthInv, TablesTyped, WorldMoves
  <2>2. QED BY <1>2, <2>1, TableStep DEF roundVars
<1>3. CASE Health!Next
  <2>1. ASSUME NEW s \in Servers, Health!Delete(s) PROVE HealthInv'
    BY <2>1, DeleteStep
  <2>2. ASSUME NEW m \in Rounds, Health!CheckAll(m) \/ Health!RoundStep(m) \/ Health!Kill(m)
        PROVE  HealthInv'
    BY <2>2, CheckAllStep, CheckServerStep, LoseStep, EndProbeStep, RecordStep, EndRoundStep
       DEF Health!RoundStep, Health!ServerNotFound, Health!Kill
  <2>3. QED BY <1>3, <2>1, <2>2, TickStep, GrowStep DEF Health!Next
<1>4. QED BY <1>1, <1>2, <1>3

\* A check that ends late hides no check begun after it.
LEMMA LateRows ==
  ASSUME HealthInv, HealthInv', [Next]_vars
  PROVE  Health!LateRowHidesNothing
<1> SUFFICES ASSUME NEW r \in health' \ health, NEW s \in {r.server},
                    NEW q \in health, q.server = s, q.at > r.at
             PROVE  Health!LatestHealth(s)' = Health!LatestHealth(s)
  BY DEF Health!LateRowHidesNothing
<1>1. health' = health \cup {r}
  <2>1. PICK m \in Rounds : Health!RecordHealthCheck(m)
    BY DEF Next, ClientStep, ProbeStep, RoundStep, SubmitStep, FetchStep, vars, roundVars,
           Health!Next, Health!Tick, Health!Seed, Health!Add, Health!Update, Health!Delete,
           Health!CheckAll, Health!RoundStep, Health!CheckServer, Health!ServerNotFound,
           Health!EndProbe, Health!EndRound, Health!Kill, Health!Lose
  <2>2. QED BY <2>1 DEF Health!RecordHealthCheck
<1>2. \A x \in health' : x.at \in Nat
  BY DEF HealthInv, Rows, RowTyped, TablesTyped
<1>3. ASSUME NEW x \in health, x.server = s
      PROVE  x \in Health!LatestHealth(s) <=> x \in Health!LatestHealth(s)'
  BY <1>1, <1>2, <1>3 DEF Health!LatestHealth, Health!Checks
<1>4. r \notin Health!LatestHealth(s)'
  BY <1>1, <1>2 DEF Health!LatestHealth, Health!Checks
<1>5. /\ \A x \in Health!LatestHealth(s) : x \in health /\ x.server = s
      /\ \A x \in Health!LatestHealth(s)' : x \in health' /\ x.server = s
  BY DEF Health!LatestHealth, Health!Checks
<1>6. QED BY <1>1, <1>3, <1>4, <1>5

\* What is on record of a server's health is consistent, for any number of
\* servers and of rounds that overlap: a failure names the last success that was
\* on record when its probe failed, a row without its server was in flight when
\* that was deleted, and a round that ends has covered its list
\* (HealthMonitor.ts, ServerStore.ts).
THEOREM HealthIsTold == Spec => []HealthTellsTheServer
<1>1. HealthInv => HealthTellsTheServer
  <2> SUFFICES ASSUME HealthInv PROVE HealthTellsTheServer
    OBVIOUS
  <2>1. Health!TypeOK
    BY DEF HealthInv, TablesTyped, RoundsTyped, Rows, RowTyped, RoundKept, Health!TypeOK,
           Health!Over
  <2>2. Health!RoundCovers
    <3> SUFFICES ASSUME NEW m \in Rounds, roundPc[m] = "done", NEW s \in listed[m]
                 PROVE  buried[s].clock > 0 \/ \E r \in health : r.server = s /\ r.by = m
      BY DEF Health!RoundCovers
    <3>1. todo[m] = <<>> /\ s \notin Health!Range(todo[m])
      BY DEF HealthInv, RoundKept, Health!Range
    <3>2. QED BY <3>1 DEF HealthInv, RoundKept
  <2>3. QED BY <2>1, <2>2 DEF HealthInv, Rows, HealthTellsTheServer
<1>2. QED BY <1>1, HealthInitial, HealthInductive, PTL DEF Spec

\* An outcome is final, an answer comes over the connection that was asked and
\* a connection that closes leaves nobody waiting; and a check that ends late
\* hides no later one (MCPClient.ts; HealthMonitor.ts, ServerStore.ts).
THEOREM SharedStepsHold == Spec => SharedSteps
<1> DEFINE Step ==
      /\ part \in ClientParts => /\ Overlapping!OutcomeStays
                                 /\ Overlapping!AnswerComesBack /\ Overlapping!CloseEndsWaits
      /\ part \in RoundParts => Health!LateRowHidesNothing
<1>1. ClientInv /\ HealthInv /\ [Next]_vars => [Step]_vars
  <2> SUFFICES ASSUME ClientInv, HealthInv, Next PROVE Step \/ UNCHANGED vars
    OBVIOUS
  <2>1. Health!LateRowHidesNothing
    BY HealthInductive, LateRows
  <2>2. Overlapping!OutcomeStays /\ Overlapping!AnswerComesBack /\ Overlapping!CloseEndsWaits
    <3>1. CASE UNCHANGED clientVars
      BY <3>1 DEF clientVars, Overlapping!OutcomeStays, Overlapping!AnswerComesBack,
                  Overlapping!CloseEndsWaits
    <3>2. CASE OverlapP!Steps
      BY <3>2 DEF OverlapP!Steps, OverlapP!OutcomeStays, OverlapP!AnswerComesBack,
                  OverlapP!CloseEndsWaits, OverlapP!Ids, OverlapP!Openers, OverlapP!Settled,
                  OverlapP!Ended, Overlapping!OutcomeStays, Overlapping!AnswerComesBack,
                  Overlapping!CloseEndsWaits, Overlapping!Ids, Overlapping!Openers,
                  Overlapping!Settled, Overlapping!Ended
    <3>3. CASE InTurnP!Steps
      BY <3>3 DEF InTurnP!Steps, InTurnP!OutcomeStays, InTurnP!AnswerComesBack,
                  InTurnP!CloseEndsWaits, InTurnP!Ids, InTurnP!Openers, InTurnP!Settled,
                  InTurnP!Ended, Overlapping!OutcomeStays, Overlapping!AnswerComesBack,
                  Overlapping!CloseEndsWaits, Overlapping!Ids, Overlapping!Openers,
                  Overlapping!Settled, Overlapping!Ended
    <3>4. QED BY <3>1, <3>2, <3>3, ClientInductive
  <2>3. QED BY <2>1, <2>2
<1>2. QED BY <1>1, ClientInitial, ClientInductive, HealthInitial, HealthInductive, PTL
          DEF Spec, SharedSteps

--------------------------------------------------------------------------
(* Submissions: the window                                                 *)

Stamps == [request : Submissions, at : Nat]
During(P, start) == {x \in P : x.at \in start..(start + WindowMs)}
Fresh(R, t) == {x \in R : x.at + WindowMs >= t}

\* R, a client's list, holds the submissions P of the last WindowMs.
Remembered(P, R, t) ==
  /\ IsFiniteSet(P) /\ R \subseteq P
  /\ \A x \in P : x.at <= t
  /\ \A x \in P : x.at + WindowMs >= t => x \in R

Bounded(P) == \A start \in Nat : Cardinality(During(P, start)) <= SubmissionMax

\* A submission let through because the list is short fills no window.
LEMMA OneMoreAdmitted ==
  ASSUME NEW P \in SUBSET Stamps, NEW R, NEW t \in Nat, Remembered(P, R, t), Bounded(P),
         Cardinality(Fresh(R, t)) < SubmissionMax, NEW e \in Stamps, e.at = t
  PROVE  /\ Bounded(P \cup {e})
         /\ Remembered(P \cup {e}, Fresh(R, t) \cup {e}, t)
<1>0. WindowMs \in Nat /\ SubmissionMax \in Nat /\ \A x \in P : x.at \in Nat
  BY SharedAssumption DEF Submit!SubmissionsAssumption, Stamps
<1>1. IsFiniteSet(P) /\ IsFiniteSet(P \cup {e})
  BY FS_AddElement DEF Remembered
<1>2. Remembered(P \cup {e}, Fresh(R, t) \cup {e}, t)
  <2>1. \A x \in P : x.at <= t /\ (x.at + WindowMs >= t => x \in Fresh(R, t))
    BY DEF Remembered, Fresh
  <2>2. Fresh(R, t) \subseteq P
    BY DEF Remembered, Fresh
  <2>3. QED BY <1>0, <1>1, <2>1, <2>2 DEF Remembered
<1>3. ASSUME NEW start \in Nat
      PROVE  Cardinality(During(P \cup {e}, start)) <= SubmissionMax
  <2>1. CASE t \notin start..(start + WindowMs)
    <3>1. During(P \cup {e}, start) = During(P, start)
      BY <2>1 DEF During
    <3>2. QED BY <3>1 DEF Bounded
  <2>2. CASE t \in start..(start + WindowMs)
    <3>1. During(P, start) \in SUBSET Fresh(R, t)
      BY <1>0, <2>2 DEF During, Fresh, Remembered
    <3>2. IsFiniteSet(Fresh(R, t))
      <4>1. Fresh(R, t) \in SUBSET P
        BY DEF Fresh, Remembered
      <4>2. QED BY <1>1, <4>1, FS_Subset
    <3>3. PICK D : D = During(P, start)
      OBVIOUS
    <3>4. PICK n \in Nat, k \in Nat : /\ IsFiniteSet(D) /\ n = Cardinality(D)
                                      /\ k = Cardinality(Fresh(R, t)) /\ n <= k
      <4>1. IsFiniteSet(D) /\ Cardinality(D) <= Cardinality(Fresh(R, t))
        BY <3>1, <3>2, <3>3, FS_Subset
      <4>2. Cardinality(D) \in Nat /\ Cardinality(Fresh(R, t)) \in Nat
        BY <3>2, <4>1, FS_CardinalityType
      <4>3. QED BY <4>1, <4>2
    <3>5. During(P \cup {e}, start) = D \cup {e}
      BY <2>2, <3>3 DEF During
    <3>6. Cardinality(D \cup {e}) = IF e \in D THEN n ELSE n + 1
      BY <3>4, FS_AddElement
    <3>7. k < SubmissionMax
      BY <3>4
    <3>8. (IF e \in D THEN n ELSE n + 1) <= SubmissionMax
      BY <1>0, <3>7, <3>4
    <3>9. QED BY <3>5, <3>6, <3>8
  <2>3. QED BY <2>1, <2>2
<1>4. QED BY <1>2, <1>3 DEF Bounded

--------------------------------------------------------------------------
(* Submissions: the inductive invariant                                    *)

Rec == [id : Names \X Nat, transports : SUBSET Submit!Transports, probe : Submit!Probes]
Created == {r \in Submissions : submitPc[r] = "created"}

WindowTyped ==
  /\ now \in 0..SubmitClock
  /\ recent \in [Clients -> SUBSET Stamps] /\ admitted \in [Clients -> SUBSET Stamps]

ClientWindow(c) ==
  /\ Remembered(admitted[c], recent[c], now) /\ Bounded(admitted[c])
  /\ \A x \in recent[c] : x.at >= pruned

WindowInv == WindowTyped /\ \A c \in Clients : ClientWindow(c)

RecordsInv ==
  /\ up \in BOOLEAN
  /\ submitPc \in [Submissions -> {"new", "reading", "lost"} \cup Submit!Codes]
  /\ from \in [Submissions -> Clients \cup {None}]
  /\ records \subseteq Rec /\ IsFiniteSet(records)
  /\ Submit!OneRecordEach /\ Submit!ProbeMatchesTransport /\ Submit!ProbesStayInside

\* The window of a client that nobody used.
LEMMA EmptyWindow == ASSUME NEW t \in Nat PROVE Remembered({}, {}, t) /\ Bounded({})
<1>1. \A start \in Nat : During({}, start) = {}
  BY DEF During
<1>2. QED BY <1>1, FS_EmptySet, SharedAssumption
          DEF Remembered, Bounded, Submit!SubmissionsAssumption

LEMMA SubmitInitial == Init => WindowInv /\ RecordsInv
<1> SUFFICES ASSUME Init PROVE WindowInv /\ RecordsInv
  OBVIOUS
<1>1. /\ up = TRUE /\ now = 0 /\ pruned = 0 /\ records = {} /\ shown = {}
      /\ recent = [c \in Clients |-> {}] /\ admitted = [c \in Clients |-> {}]
      /\ submitPc = [r \in Submissions |-> "new"] /\ from = [r \in Submissions |-> None]
  BY DEF Init, Submit!Init
<1>2. WindowTyped
  BY <1>1, SharedAssumption DEF WindowTyped, Submit!SubmissionsAssumption
<1>3. \A c \in Clients : ClientWindow(c)
  BY <1>1, EmptyWindow DEF ClientWindow
<1>4. Submit!OneRecordEach
  <2>1. {r \in Submissions : submitPc[r] = "created"} = records
    BY <1>1
  <2>2. QED BY <2>1 DEF Submit!OneRecordEach
<1>5. RecordsInv
  <2>1. up \in BOOLEAN
    BY <1>1
  <2>2. QED BY <1>1, <1>4, <2>1, FS_EmptySet
            DEF RecordsInv, Submit!ProbeMatchesTransport, Submit!ProbesStayInside
<1>6. QED BY <1>2, <1>3, <1>5 DEF WindowInv

LEMMA TimePasses ==
  ASSUME NEW c \in Clients, WindowTyped, ClientWindow(c), now' \in Nat, now' >= now,
         recent'[c] = recent[c], admitted'[c] = admitted[c], pruned' = pruned
  PROVE  ClientWindow(c)'
<1>1. WindowMs \in Nat /\ now \in Nat /\ \A x \in admitted[c] : x.at \in Nat
  BY SharedAssumption DEF WindowTyped, Submit!SubmissionsAssumption, Stamps
<1>2. Remembered(admitted[c], recent[c], now')
  BY <1>1 DEF ClientWindow, Remembered
<1>3. QED BY <1>2 DEF ClientWindow, Remembered, Bounded, During

\* What a submission is compared with: the start of the window.
LEMMA FreshIsPruned ==
  ASSUME WindowTyped, NEW c \in Clients
  PROVE  Submit!Pruned[c] = Fresh(recent[c], now)
<1>1. WindowMs \in Nat /\ now \in Nat /\ \A x \in recent[c] : x.at \in Nat
  BY SharedAssumption DEF WindowTyped, Submit!SubmissionsAssumption, Stamps
<1>2. \A x \in recent[c] : x.at >= Submit!WindowStart <=> x.at + WindowMs >= now
  BY <1>1 DEF Submit!WindowStart
<1>3. Submit!Pruned[c] = {x \in recent[c] : x.at >= Submit!WindowStart}
  BY DEF Submit!Pruned
<1>4. QED BY <1>2, <1>3 DEF Fresh

LEMMA WindowForgets ==
  ASSUME NEW P, NEW R, NEW t, Remembered(P, R, t)
  PROVE  Remembered(P, Fresh(R, t), t)
BY DEF Remembered, Fresh

LEMMA ArriveWindow ==
  ASSUME WindowInv, NEW r \in Submissions, Submit!Arrive(r)
  PROVE  WindowInv'
<1>1. /\ now \in Nat /\ now' = now /\ WindowMs \in Nat
      /\ recent \in [Clients -> SUBSET Stamps] /\ admitted \in [Clients -> SUBSET Stamps]
      /\ \A k \in Clients : ClientWindow(k) /\ Submit!Pruned[k] = Fresh(recent[k], now)
  BY SharedAssumption, FreshIsPruned
     DEF WindowInv, WindowTyped, Submit!Arrive, Submit!SubmissionsAssumption
<1>2. Submit!Pruned \in [Clients -> SUBSET Stamps]
  BY <1>1 DEF Submit!Pruned
<1>3. \A k \in Clients : \A x \in Fresh(recent[k], now) : x.at >= Submit!WindowStart
  BY <1>1 DEF Submit!Pruned
<1>4. CASE UNCHANGED <<recent, admitted, pruned>>
  BY <1>1, <1>4, TimePasses DEF WindowInv, WindowTyped
<1>5. CASE recent' = Submit!Pruned /\ admitted' = admitted /\ pruned' = Submit!WindowStart
  <2>1. ASSUME NEW k \in Clients PROVE ClientWindow(k)'
    <3>1. recent'[k] = Fresh(recent[k], now)
      BY <1>1, <1>5
    <3>2. Remembered(admitted[k], Fresh(recent[k], now), now)
      BY <1>1, WindowForgets DEF ClientWindow
    <3>3. QED BY <1>1, <1>3, <1>5, <3>1, <3>2 DEF ClientWindow, Remembered, Bounded, During
  <2>2. QED BY <1>1, <1>2, <1>5, <2>1 DEF WindowInv, WindowTyped
<1>6. ASSUME NEW c \in Clients, Cardinality(Submit!Pruned[c]) < SubmissionMax,
             recent' = [Submit!Pruned EXCEPT ![c] = @ \cup {Submit!Stamp(r)}],
             admitted' = [admitted EXCEPT ![c] = @ \cup {Submit!Stamp(r)}],
             pruned' = Submit!WindowStart
      PROVE  WindowInv'
  <2>1. PICK e \in Stamps : e = Submit!Stamp(r) /\ e.at = now
    <3>1. Submit!Stamp(r) \in Stamps /\ Submit!Stamp(r).at = now
      BY <1>1 DEF Submit!Stamp, Stamps
    <3>2. QED BY <3>1
  <2>2. /\ recent' = [Submit!Pruned EXCEPT ![c] = Fresh(recent[c], now) \cup {e}]
        /\ admitted' = [admitted EXCEPT ![c] = admitted[c] \cup {e}]
    BY <1>1, <1>6, <2>1
  <2>3. WindowTyped'
    <3>1. admitted[c] \cup {e} \in SUBSET Stamps /\ Fresh(recent[c], now) \cup {e} \in SUBSET Stamps
      BY <1>1 DEF Fresh
    <3>2. QED BY <1>1, <1>2, <2>2, <3>1 DEF WindowInv, WindowTyped
  <2>4. ClientWindow(c)'
    <3>1. recent'[c] = Fresh(recent[c], now) \cup {e} /\ admitted'[c] = admitted[c] \cup {e}
      BY <1>1, <1>2, <2>2
    <3>2. Bounded(admitted[c] \cup {e})
          /\ Remembered(admitted[c] \cup {e}, Fresh(recent[c], now) \cup {e}, now)
      BY <1>1, <1>6, <2>1, OneMoreAdmitted DEF ClientWindow
    <3>3. now >= Submit!WindowStart
      BY <1>1 DEF Submit!WindowStart
    <3>4. QED BY <1>1, <1>3, <1>6, <2>1, <3>1, <3>2, <3>3
              DEF ClientWindow, Remembered, Bounded, During
  <2>5. ASSUME NEW k \in Clients, k # c PROVE ClientWindow(k)'
    <3>1. recent'[k] = Fresh(recent[k], now) /\ admitted'[k] = admitted[k]
      BY <1>1, <1>2, <2>2, <2>5
    <3>2. Remembered(admitted[k], Fresh(recent[k], now), now)
      BY <1>1, WindowForgets DEF ClientWindow
    <3>3. QED BY <1>1, <1>3, <1>6, <3>1, <3>2 DEF ClientWindow, Remembered, Bounded, During
  <2>6. QED BY <2>3, <2>4, <2>5 DEF WindowInv
<1>7. QED
  <2>1. \A S : Submit!Cardinality(S) = Cardinality(S)
    BY Zenon DEF Submit!Cardinality, Cardinality
  <2>2. QED BY <1>4, <1>5, <1>6, <2>1 DEF Submit!Arrive, Submit!Allows

--------------------------------------------------------------------------
(* Submissions: the rows                                                   *)

\* A step that creates nothing.
LEMMA NothingCreated ==
  ASSUME RecordsInv, records' = records, shown' = shown, up' \in BOOLEAN,
         submitPc' \in [Submissions -> {"new", "reading", "lost"} \cup Submit!Codes],
         from' \in [Submissions -> Clients \cup {None}],
         \A r \in Submissions : submitPc'[r] = "created" <=> submitPc[r] = "created"
  PROVE  RecordsInv'
<1>1. Created' = Created
  BY DEF Created
<1>2. Submit!OneRecordEach'
  BY <1>1 DEF RecordsInv, Submit!OneRecordEach, Created
<1>3. QED BY <1>2 DEF RecordsInv, Submit!ProbeMatchesTransport, Submit!ProbesStayInside

LEMMA ArriveRecords ==
  ASSUME RecordsInv, NEW r \in Submissions, Submit!Arrive(r)
  PROVE  RecordsInv'
<1>1. PICK c \in Clients, code \in {"unauthorized", "unavailable", "reading", "limited"} :
        /\ submitPc[r] = "new" /\ up = TRUE
        /\ from' = [from EXCEPT ![r] = c] /\ submitPc' = [submitPc EXCEPT ![r] = code]
        /\ UNCHANGED <<up, records, shown>>
  BY DEF Submit!Arrive, RecordsInv
<1>2. /\ submitPc' \in [Submissions -> {"new", "reading", "lost"} \cup Submit!Codes]
      /\ from' \in [Submissions -> Clients \cup {None}]
  BY <1>1 DEF RecordsInv, Submit!Codes
<1>3. \A k \in Submissions : submitPc'[k] = "created" <=> submitPc[k] = "created"
  BY <1>1 DEF RecordsInv
<1>4. up' \in BOOLEAN
  BY <1>1
<1>5. QED BY <1>1, <1>2, <1>3, <1>4, NothingCreated

LEMMA RefuseBodyRecords ==
  ASSUME RecordsInv, NEW r \in Submissions, Submit!RefuseBody(r)
  PROVE  RecordsInv'
<1>1. PICK code \in {"tooLarge", "badRequest"} :
        /\ submitPc[r] = "reading" /\ submitPc' = [submitPc EXCEPT ![r] = code]
        /\ UNCHANGED <<up, from, records, shown>>
  BY DEF Submit!RefuseBody
<1>2. submitPc' \in [Submissions -> {"new", "reading", "lost"} \cup Submit!Codes]
  BY <1>1 DEF RecordsInv, Submit!Codes
<1>3. \A k \in Submissions : submitPc'[k] = "created" <=> submitPc[k] = "created"
  BY <1>1 DEF RecordsInv
<1>4. from' \in [Submissions -> Clients \cup {None}] /\ up' \in BOOLEAN
  BY <1>1, Zenon DEF RecordsInv
<1>5. QED BY <1>1, <1>2, <1>3, <1>4, NothingCreated

LEMMA CrashRecords == ASSUME RecordsInv, Submit!Crash PROVE RecordsInv'
<1>1. /\ up' = FALSE /\ UNCHANGED <<from, records, shown>>
      /\ submitPc' = [r \in Submissions |->
                        IF submitPc[r] = "reading" THEN "lost" ELSE submitPc[r]]
  BY DEF Submit!Crash
<1>2. submitPc' \in [Submissions -> {"new", "reading", "lost"} \cup Submit!Codes]
  BY <1>1 DEF RecordsInv
<1>3. \A k \in Submissions : submitPc'[k] = "created" <=> submitPc[k] = "created"
  BY <1>1 DEF RecordsInv
<1>4. up' \in BOOLEAN /\ from' \in [Submissions -> Clients \cup {None}]
  BY <1>1 DEF RecordsInv
<1>5. QED BY <1>1, <1>2, <1>3, <1>4, NothingCreated

\* A row that is new counts for one request that is.
LEMMA RowInserted ==
  ASSUME RecordsInv, NEW r \in Submissions, submitPc[r] = "reading", NEW record \in Rec,
         \A q \in records : q.id # record.id,
         record.probe # None =>
           record.probe.sound /\ record.probe.transport \in record.transports,
         records' = records \cup {record},
         shown' = shown \cup {<<"created", Submit!ToPublicRecord(record)>>},
         submitPc' = [submitPc EXCEPT ![r] = "created"], UNCHANGED <<up, from>>
  PROVE  RecordsInv'
<1>1. record \notin records
  OBVIOUS
<1>2. \A S : Submit!Cardinality(S) = Cardinality(S)
  BY Zenon DEF Submit!Cardinality, Cardinality
<1>3. IsFiniteSet(records') /\ Cardinality(records') = Cardinality(records) + 1
  BY <1>1, FS_AddElement DEF RecordsInv
<1>4. Cardinality(Created') = Cardinality(Created) + 1
  <2>1. Created' = Created \cup {r} /\ r \notin Created
    BY DEF Created, RecordsInv
  <2>2. IsFiniteSet(Submissions)
    BY SharedAssumption DEF Submit!SubmissionsAssumption, Submit!IsFiniteSet, IsFiniteSet
  <2>3. IsFiniteSet(Created)
    <3>1. Created \in SUBSET Submissions
      BY DEF Created
    <3>2. QED BY <2>2, <3>1, FS_Subset
  <2>4. QED BY <2>1, <2>3, FS_AddElement
<1>5. Submit!OneRecordEach'
  BY <1>2, <1>3, <1>4 DEF RecordsInv, Submit!OneRecordEach, Created
<1>6. Submit!ProbeMatchesTransport'
  BY DEF RecordsInv, Submit!ProbeMatchesTransport
<1>7. Submit!ProbesStayInside'
  <2>1. Submit!ToPublicRecord(record).probe = None
    BY DEF Submit!ToPublicRecord, Rec
  <2>2. QED BY <2>1 DEF RecordsInv, Submit!ProbesStayInside
<1>8. submitPc' \in [Submissions -> {"new", "reading", "lost"} \cup Submit!Codes]
  BY DEF RecordsInv, Submit!Codes
<1>9. up' \in BOOLEAN
  BY Zenon DEF RecordsInv
<1>10. QED BY <1>3, <1>5, <1>6, <1>7, <1>8, <1>9 DEF RecordsInv

LEMMA SubmitRecords ==
  ASSUME RecordsInv, NEW r \in Submissions, Submit!Submit(r), now \in Nat
  PROVE  RecordsInv'
<1>1. PICK name \in Names, p \in Submit!Payloads :
        /\ Submit!Valid(p) /\ submitPc[r] = "reading"
        /\ Submit!Insert(r, [id |-> <<name, now>>, transports |-> Submit!Default(p.transports),
                             probe |-> p.probe])
  BY DEF Submit!Submit
<1>2. PICK record : record = [id |-> <<name, now>>,
                              transports |-> Submit!Default(p.transports), probe |-> p.probe]
  OBVIOUS
<1>3. record \in Rec
  <2>1. Submit!Default(p.transports) \in SUBSET Submit!Transports /\ p.probe \in Submit!Probes
    BY DEF Submit!Payloads, Submit!Default, Submit!Transports
  <2>2. QED BY <1>2, <2>1 DEF Rec
<1>4. record.probe # None => record.probe.sound /\ record.probe.transport \in record.transports
  BY <1>1, <1>2 DEF Submit!Valid
<1>5. CASE Submit!Crash
  BY <1>5, CrashRecords
<1>6. CASE ~Submit!Crash
  BY <1>1, <1>2, <1>3, <1>4, <1>6, RowInserted DEF Submit!Insert
<1>7. QED BY <1>5, <1>6

LEMMA BrowseRecords == ASSUME RecordsInv, Submit!Browse PROVE RecordsInv'
<1>1. PICK seen \in SUBSET records :
        /\ shown' = shown \cup {<<"listed", Submit!ToPublicRecord(q)>> : q \in seen}
        /\ UNCHANGED <<up, submitPc, from, records>>
  BY DEF Submit!Browse
<1>2. \A q \in records : Submit!ToPublicRecord(q).probe = None
  BY DEF RecordsInv, Rec, Submit!ToPublicRecord
<1>3. Submit!ProbesStayInside'
  BY <1>1, <1>2 DEF RecordsInv, Submit!ProbesStayInside
<1>4. up' \in BOOLEAN
  BY <1>1, Zenon DEF RecordsInv
<1>5. QED BY <1>1, <1>3, <1>4 DEF RecordsInv, Submit!OneRecordEach, Submit!ProbeMatchesTransport

--------------------------------------------------------------------------

LEMMA CrashWindow == ASSUME WindowInv, Submit!Crash PROVE WindowInv'
<1>1. /\ recent' = [c \in Clients |-> {}] /\ admitted' = [c \in Clients |-> {}]
      /\ pruned' = 0 /\ now' = now /\ now \in Nat
  BY SharedAssumption DEF Submit!Crash, WindowInv, WindowTyped, Submit!SubmissionsAssumption
<1>2. \A c \in Clients : ClientWindow(c)'
  BY <1>1, EmptyWindow DEF ClientWindow, Remembered, Bounded, During
<1>3. QED BY <1>1, <1>2 DEF WindowInv, WindowTyped

\* The window, when nothing but time moves.
LEMMA WindowStands ==
  ASSUME WindowInv, UNCHANGED <<recent, admitted, pruned>>, now' \in 0..SubmitClock, now' >= now
  PROVE  WindowInv'
<1>1. now' \in Nat /\ now \in Nat
  BY SharedAssumption DEF WindowInv, WindowTyped, Submit!SubmissionsAssumption
<1>2. \A c \in Clients : ClientWindow(c)'
  BY <1>1, TimePasses DEF WindowInv
<1>3. QED BY <1>2 DEF WindowInv, WindowTyped

SubmitInv == WindowInv /\ RecordsInv

LEMMA SubmitInductive == SubmitInv /\ [Next]_vars => SubmitInv'
<1> SUFFICES ASSUME WindowInv, RecordsInv, [Next]_vars PROVE WindowInv' /\ RecordsInv'
  BY DEF SubmitInv
<1>1. (part \in SubmitParts /\ Submit!Next) \/ UNCHANGED submitVars
  BY DEF Next, ClientStep, ProbeStep, RoundStep, SubmitStep, FetchStep, vars
<1>2. now \in Nat /\ now \in 0..SubmitClock /\ now >= now /\ SubmitClock \in Nat
  BY SharedAssumption DEF WindowInv, WindowTyped, Submit!SubmissionsAssumption
<1>3. CASE UNCHANGED submitVars
  <2>1. WindowInv'
    BY <1>2, <1>3, WindowStands DEF submitVars
  <2>2. RecordsInv'
    BY <1>3 DEF submitVars, RecordsInv, Submit!OneRecordEach, Submit!ProbeMatchesTransport,
                Submit!ProbesStayInside
  <2>3. QED BY <2>1, <2>2
<1>4. CASE Submit!Tick
  <2>1. /\ now' = now + 1 /\ now < SubmitClock
        /\ UNCHANGED <<up, recent, pruned, admitted, submitPc, from, records, shown>>
    BY <1>4 DEF Submit!Tick
  <2>2. WindowInv'
    BY <1>2, <2>1, WindowStands
  <2>3. QED BY <2>1, <2>2 DEF RecordsInv, Submit!OneRecordEach, Submit!ProbeMatchesTransport,
                              Submit!ProbesStayInside
<1>5. CASE Submit!Restart
  <2>1. up' = TRUE /\ UNCHANGED <<now, recent, pruned, admitted, submitPc, from, records, shown>>
    BY <1>5 DEF Submit!Restart
  <2>2. up' \in BOOLEAN
    BY <2>1
  <2>3. QED BY <1>2, <2>1, <2>2, WindowStands
            DEF RecordsInv, Submit!OneRecordEach, Submit!ProbeMatchesTransport,
                Submit!ProbesStayInside
<1>6. CASE Submit!Browse
  <2>1. UNCHANGED <<now, recent, pruned, admitted>>
    BY <1>6 DEF Submit!Browse
  <2>2. QED BY <1>2, <1>6, <2>1, WindowStands, BrowseRecords
<1>7. ASSUME NEW r \in Submissions, Submit!Arrive(r) PROVE WindowInv' /\ RecordsInv'
  BY <1>7, ArriveWindow, ArriveRecords
<1>8. ASSUME NEW r \in Submissions, Submit!RefuseBody(r) PROVE WindowInv' /\ RecordsInv'
  <2>1. UNCHANGED <<now, recent, pruned, admitted>>
    BY <1>8 DEF Submit!RefuseBody
  <2>2. QED BY <1>2, <1>8, <2>1, WindowStands, RefuseBodyRecords
<1>9. ASSUME NEW r \in Submissions, Submit!Submit(r) PROVE WindowInv' /\ RecordsInv'
  <2>1. Submit!Crash \/ UNCHANGED <<now, recent, pruned, admitted>>
    BY <1>9 DEF Submit!Submit, Submit!Insert
  <2>2. QED BY <1>2, <1>9, <2>1, WindowStands, CrashWindow, SubmitRecords
<1>10. ASSUME NEW r \in Submissions, Submit!BodyAborted(r) PROVE WindowInv' /\ RecordsInv'
  BY <1>10, CrashWindow, CrashRecords DEF Submit!BodyAborted
<1>11. QED BY <1>1, <1>3, <1>4, <1>5, <1>6, <1>7, <1>8, <1>9, <1>10 DEF Submit!Next

\* No client is let through more often than its window allows, for any limit,
\* window and mix of requests; whoever has gone is forgotten; each 201 is a row
\* of its own, with a probe that fits its server and that nobody is shown
\* (RegistryServer.ts).
THEOREM SubmissionsKeepLimits == Spec => []SubmissionsAdmitted
<1>1. SubmitInv => SubmissionsAdmitted
  <2> SUFFICES ASSUME WindowInv, RecordsInv PROVE SubmissionsAdmitted
    BY DEF SubmitInv
  <2>0. now \in Nat /\ now \in 0..SubmitClock
    BY SharedAssumption DEF WindowInv, WindowTyped, Submit!SubmissionsAssumption
  <2>1. ASSUME NEW c \in Clients
        PROVE  /\ \A x \in admitted[c] : x \in [request : Submissions, at : 0..now]
               /\ recent[c] \subseteq admitted[c]
    BY <2>0 DEF WindowInv, WindowTyped, ClientWindow, Remembered, Stamps
  <2>2. Submit!TypeOK
    <3>1. {recent, admitted} \subseteq [Clients -> SUBSET [request : Submissions, at : 0..now]]
      BY <2>1 DEF WindowInv, WindowTyped
    <3>2. \A q \in records : q.transports \subseteq Submit!Transports /\ q.probe \in Submit!Probes
      BY DEF RecordsInv, Rec
    <3>3. QED BY <2>0, <3>1, <3>2 DEF Submit!TypeOK, RecordsInv
  <2>3. Submit!RateBounded
    <3> SUFFICES ASSUME NEW c \in Clients, NEW x \in admitted[c]
                 PROVE  Submit!Cardinality({y \in admitted[c] : y.at \in x.at..(x.at + WindowMs)})
                          <= SubmissionMax
      BY DEF Submit!RateBounded
    <3>1. Cardinality(During(admitted[c], x.at)) <= SubmissionMax
      BY <2>1 DEF WindowInv, ClientWindow, Bounded
    <3>2. \A S : Submit!Cardinality(S) = Cardinality(S)
      BY Zenon DEF Submit!Cardinality, Cardinality
    <3>3. QED BY <3>1, <3>2 DEF During
  <2>4. Submit!StaleAddressesForgotten
    BY DEF WindowInv, ClientWindow, Submit!StaleAddressesForgotten
  <2>5. QED BY <2>2, <2>3, <2>4 DEF RecordsInv, SubmissionsAdmitted
<1>2. Init => SubmitInv
  BY SubmitInitial DEF SubmitInv
<1>3. QED BY <1>1, <1>2, SubmitInductive, PTL DEF Spec
=============================================================================
