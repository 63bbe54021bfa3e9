--------------------------- MODULE SentinelProofs ---------------------------
(***************************************************************************)
(* Theorems about ApprovalGate and SentinelProxy, for any number of        *)
(* concurrent calls, whatever they ask for, share, abort and however their *)
(* processes die.                                                          *)
(*                                                                         *)
(* To the tables a step of the gate does one of the things the store's own *)
(* steps do (lemma GateForms), so what ApprovalStoreProofs proves per form *)
(* holds here too.  What a call believes of its row is the invariant       *)
(* CallInv; it survives the steps of all others because a row keeps what   *)
(* it was inserted with (BirthKept) and what is settled (FormKeeps).       *)
(*                                                                         *)
(* A step of the proxy is, to calls and tables, a step of the gate or none *)
(* (ProxyImplementsGate), so the theorems of the gate hold of the proxy.   *)
(* On top of them, StageInv ties the place where handleToolCall() stands   *)
(* to the call of the gate it waits for, to the audit log and to the       *)
(* upstream server.                                                        *)
(***************************************************************************)
EXTENDS SentinelProxy, ApprovalStoreProofs

\* A call that opted in to fail-open waits on r.
Asked(r) == \E c \in Calls : call[c].id = r /\ call[c].input.failOpen

\* A transition a step of the gate asks for: a timeout of requests that are
\* due, which approves only if it was asked to, or a party's cancellation.
GateTransition ==
  \E S \in SUBSET Requests, status \in Terminal, actor \in Principals \cup {SystemTimeout} :
    /\ TransitionPending(S, status, now, actor)
    /\ actor = SystemTimeout => \A r \in S : Pending(r) => request[r].expiresAt <= now
    /\ \/ status = "expired" /\ actor = SystemTimeout
       \/ /\ status = "approved" /\ actor = SystemTimeout /\ AllowFailOpenTimeout
          /\ \A r \in S : Asked(r)
       \/ /\ status = "cancelled"
          /\ actor # SystemTimeout
          /\ \E r \in S : S = {r} /\ actor \in {request[r].requester, request[r].approver}

\* What GateNext may do to the tables.
GateForm ==
  UNCHANGED tables \/ GateTransition \/ Insertion \/ Decision \/ Claiming \/ Dispatch

LEMMA GateFormIsForm == ASSUME now \in Times, GateForm PROVE Form
BY StoreAssumption DEF GateForm, GateTransition, Form, Transition, Times

--------------------------------------------------------------------------
(* The call invariant.                                                     *)

\* A call that has a request was promised it: the row is one of its own
\* requester over exactly what it asked for.
Served(k, rows) ==
  /\ k.input \in Inputs
  /\ k.id \in Requests
  /\ rows[k.id].status # "absent"
  /\ rows[k.id].requester = k.input.requester
  /\ rows[k.id].approver = k.input.approver
  /\ rows[k.id].payload = k.input.payload
  /\ rows[k.id].upstream = k.input.upstream
  /\ k.input.failOpen => AllowFailOpenTimeout

Answered == {"resolved", "released", "refused"}

CallInv(k, rows) ==
  /\ k.pc = "idle" => k = NoCall
  /\ k.id # None => Served(k, rows)
  /\ k.pc \in Answered \cup {"dispatching", "publishing", "cancelling", "waiting"} => k.id # None
  /\ k.pc \in Answered => k.status \in Terminal /\ rows[k.id].status = k.status
  /\ k.pc = "released" => k.status = "approved" /\ rows[k.id].claimedBy = k.input.requester

CallsInv == \A c \in Calls : CallInv(call[c], request)

CallRecord == [pc: PCs, input: Inputs \cup {None}, id: Requests \cup {None},
               next: Nat, status: Terminal \cup {None}, aborted: BOOLEAN]

LEMMA CallsTyped == GateTypeOK <=>
  /\ TypeOK
  /\ call \in [Calls -> CallRecord]
  /\ delivered \subseteq Requests
  /\ undelivered \subseteq Requests
BY DEF GateTypeOK, CallRecord

\* What a call believes of its row stays true whatever happens to the tables.
LEMMA BeliefStays ==
  ASSUME TypeOK, RowInv, Form, NEW k \in CallRecord, CallInv(k, request)
  PROVE  CallInv(k, request')
<1>1. CASE k.id = None
  BY <1>1 DEF CallInv, Answered
<1>2. CASE k.id # None
  <2>1. k.id \in Requests /\ Exists(k.id) /\ Served(k, request)
    BY <1>2 DEF CallInv, Served, Exists
  <2>2. Served(k, request')
    <3>1. /\ request'[k.id].requester = request[k.id].requester
          /\ request'[k.id].approver = request[k.id].approver
          /\ request'[k.id].payload = request[k.id].payload
          /\ request'[k.id].upstream = request[k.id].upstream
          /\ request'[k.id].status # "absent"
      BY <2>1, BirthKept DEF Exists
    <3>2. QED BY <2>1, <3>1 DEF Served
  <2>3. Keeps(k.id)
    BY <2>1, FormKeeps
  <2>4. k.input.requester # None
    BY <2>1, GateAssumption, StoreAssumption DEF Served, Input, Principals
  <2>5. QED BY <1>2, <2>2, <2>3, <2>4 DEF CallInv, Keeps
<1>3. QED BY <1>1, <1>2

\* A call that moves on with its request believes the same of it.
LEMMA Advance ==
  ASSUME TypeOK, RowInv, Form, NEW k \in CallRecord, CallInv(k, request), k.id # None,
         NEW m \in CallRecord, m.id = k.id, m.input = k.input, m.pc # "idle",
         m.pc \in Answered => m.status \in Terminal /\ request'[k.id].status = m.status,
         m.pc = "released" => m.status = "approved"
                              /\ request'[k.id].claimedBy = k.input.requester
  PROVE  CallInv(m, request')
<1>1. CallInv(k, request') /\ k.id # None
  BY BeliefStays
<1>2. Served(k, request')
  BY <1>1 DEF CallInv
<1>3. QED BY <1>1, <1>2 DEF CallInv, Served

--------------------------------------------------------------------------
(* What the step of a call does.                                           *)

GateInv == GateTypeOK /\ RowInv /\ CallsInv

Effect(c, m) ==
  /\ m \in CallRecord
  /\ call' = [call EXCEPT ![c] = m]
  /\ CallInv(m, request')
  /\ call[c].id # None => m.id = call[c].id /\ m.input = call[c].input
  /\ m.pc = "released" /\ call[c].pc # "released" => request[m.id].claimedBy = None

StepOf(c) ==
  /\ GateForm
  /\ now' = now /\ op' = op
  /\ delivered' \subseteq Requests /\ undelivered' \subseteq Requests
  /\ \E m : Effect(c, m)

LEMMA CallFacts ==
  ASSUME GateInv, NEW c \in Calls
  PROVE  /\ TypeOK /\ RowInv /\ call[c] \in CallRecord /\ CallInv(call[c], request)
         /\ now \in Times /\ now \in Nat /\ request \in [Requests -> Row]
         /\ delivered \subseteq Requests /\ undelivered \subseteq Requests
         /\ call \in [Calls -> CallRecord]
         /\ call[c].id # None =>
              /\ Served(call[c], request) /\ call[c].id \in Requests /\ Exists(call[c].id)
              /\ call[c].input \in Input /\ call[c].input \in Inputs
BY CallsTyped, StoreAssumption, GateAssumption
   DEF GateInv, CallsInv, TypeOK, Times, CallInv, Served, Exists

LEMMA ExpiryForm ==
  ASSUME NEW r \in Requests, ExpireRowIfDue(r, now)
  PROVE  GateForm
<1>1. {r} \in SUBSET Requests /\ "expired" \in Terminal
  BY DEF Terminal
<1>2. GateTransition
  BY <1>1 DEF ExpireRowIfDue, Due, GateTransition
<1>3. QED BY <1>2 DEF GateForm

LEMMA CancelForm ==
  ASSUME NEW r \in Requests, NEW p \in {request[r].requester, request[r].approver},
         p \in Principals, TransitionPending({r}, "cancelled", now, p)
  PROVE  GateForm
<1>1. {r} \in SUBSET Requests /\ "cancelled" \in Terminal /\ p # SystemTimeout
  BY StoreAssumption DEF Terminal
<1>2. GateTransition
  BY <1>1 DEF GateTransition
<1>3. QED BY <1>2 DEF GateForm

LEMMA NextChannelTyped ==
  ASSUME NEW k \in CallRecord, NEW i \in Nat
  PROVE  LET m == NextChannel(k, i) IN
           /\ m \in CallRecord /\ m.id = k.id /\ m.input = k.input
           /\ m.pc \in {"waiting", "dispatching"}
<1> DEFINE pc == IF i > Len(k.input.channels) THEN "waiting" ELSE "dispatching"
<1>1. pc \in PCs /\ pc \in {"waiting", "dispatching"}
  BY DEF PCs
<1>2. NextChannel(k, i) = [k EXCEPT !.next = i, !.pc = pc]
  BY Zenon DEF NextChannel
<1> HIDE DEF pc
<1>3. QED BY <1>1, <1>2 DEF CallRecord

\* request(): whatever row it finds or inserts was asked for by this call.
LEMMA RequestStep == ASSUME GateInv, NEW c \in Calls, Request(c) PROVE StepOf(c)
<1>0. /\ TypeOK /\ RowInv /\ now \in Times /\ now \in Nat
      /\ call \in [Calls -> CallRecord] /\ request \in [Requests -> Row]
      /\ call[c] = NoCall /\ call[c].id = None /\ call[c].pc = "idle"
      /\ UNCHANGED <<now, op, delivered, undelivered>>
      /\ delivered \subseteq Requests /\ undelivered \subseteq Requests
  <2>1. UNCHANGED <<now, op, delivered, undelivered>> /\ call[c].pc = "idle"
    BY Zenon DEF Request
  <2>2. call[c] = NoCall
    BY <2>1, CallFacts DEF CallInv
  <2>3. QED BY <2>1, <2>2, CallFacts DEF NoCall
<1>1. PICK in \in Inputs :
        \/ /\ Rejected(in)
           /\ call' = [call EXCEPT ![c] = [[call[c] EXCEPT !.input = in] EXCEPT !.pc = "failed"]]
           /\ UNCHANGED tables
        \/ /\ ~Rejected(in)
           /\ \E r \in SameKey(in.requester, in.key) :
                \/ /\ ExpireRowIfDue(r, now)
                   /\ call' = [call EXCEPT ![c] = [[call[c] EXCEPT !.input = in] EXCEPT
                        !.pc = "resolved", !.id = r, !.status = "expired"]]
                \/ /\ Pending(r) /\ ~Due(r, now)
                   /\ call' = [call EXCEPT ![c] = [[call[c] EXCEPT !.input = in] EXCEPT
                        !.pc = "waiting", !.id = r]]
                   /\ UNCHANGED tables
                \/ /\ ~Pending(r)
                   /\ call' = [call EXCEPT ![c] = [[call[c] EXCEPT !.input = in] EXCEPT
                        !.pc = "resolved", !.id = r, !.status = request[r].status]]
                   /\ UNCHANGED tables
        \/ /\ ~Rejected(in)
           /\ SameKey(in.requester, in.key) = {}
           /\ \E r \in Requests :
                /\ Insert(r, in.requester, in.approver, in.key, in.payload,
                          now + in.timeout, in.upstream)
                /\ call' = [call EXCEPT ![c] =
                     NextChannel([[call[c] EXCEPT !.input = in] EXCEPT !.id = r], 1)]
  BY Zenon DEF Request
<1>2. in \in Input
  BY GateAssumption
<1>3. SUFFICES ASSUME TRUE
               PROVE  GateForm /\ \E m : Effect(c, m)
  BY <1>0 DEF StepOf
<1>4. CASE Rejected(in) /\ UNCHANGED tables
             /\ call' = [call EXCEPT ![c] = [[call[c] EXCEPT !.input = in] EXCEPT !.pc = "failed"]]
  <2> DEFINE m == [[call[c] EXCEPT !.input = in] EXCEPT !.pc = "failed"]
  <2>1. m \in CallRecord /\ m.id = None /\ m.pc = "failed"
    BY <1>0 DEF CallRecord, PCs, Finished
  <2>2. CallInv(m, request')
    BY <2>1 DEF CallInv, Answered
  <2>3. Effect(c, m)
    BY <1>0, <1>4, <2>1, <2>2 DEF Effect
  <2>4. QED BY <1>4, <2>3 DEF GateForm
<1>5. ASSUME ~Rejected(in), NEW r \in SameKey(in.requester, in.key), GateForm,
             NEW m \in CallRecord, m.id = r, m.input = in, m.pc \in {"resolved", "waiting"},
             m.pc = "resolved" => m.status \in Terminal /\ request'[r].status = m.status,
             call' = [call EXCEPT ![c] = m]
      PROVE  \E n : Effect(c, n)
  <2>1. r \in Requests /\ Exists(r) /\ request[r].requester = in.requester
    BY <1>5 DEF SameKey
  <2>2. SameFingerprint(r, in.approver, in.payload, in.upstream)
          /\ (in.failOpen => AllowFailOpenTimeout)
    BY <1>5 DEF Rejected
  <2>3. Form
    BY <1>0, <1>5, GateFormIsForm
  <2>4. /\ Exists(r)'
        /\ request'[r].requester = in.requester /\ request'[r].approver = in.approver
        /\ request'[r].payload = in.payload /\ request'[r].upstream = in.upstream
    BY <1>0, <2>1, <2>2, <2>3, BirthKept DEF SameFingerprint
  <2>5. Served(m, request')
    BY <1>2, <1>5, <2>1, <2>2, <2>4 DEF Served, Exists
  <2>6. CallInv(m, request')
    BY <1>5, <2>5, GateAssumption DEF CallInv, Answered, Served
  <2>7. QED BY <1>0, <1>5, <2>6 DEF Effect
<1>6. CASE ~Rejected(in) /\ \E r \in SameKey(in.requester, in.key) :
                \/ /\ ExpireRowIfDue(r, now)
                   /\ call' = [call EXCEPT ![c] = [[call[c] EXCEPT !.input = in] EXCEPT
                        !.pc = "resolved", !.id = r, !.status = "expired"]]
                \/ /\ Pending(r) /\ ~Due(r, now)
                   /\ call' = [call EXCEPT ![c] = [[call[c] EXCEPT !.input = in] EXCEPT
                        !.pc = "waiting", !.id = r]]
                   /\ UNCHANGED tables
                \/ /\ ~Pending(r)
                   /\ call' = [call EXCEPT ![c] = [[call[c] EXCEPT !.input = in] EXCEPT
                        !.pc = "resolved", !.id = r, !.status = request[r].status]]
                   /\ UNCHANGED tables
  <2>1. PICK r \in SameKey(in.requester, in.key) :
                \/ /\ ExpireRowIfDue(r, now)
                   /\ call' = [call EXCEPT ![c] = [[call[c] EXCEPT !.input = in] EXCEPT
                        !.pc = "resolved", !.id = r, !.status = "expired"]]
                \/ /\ Pending(r) /\ ~Due(r, now)
                   /\ call' = [call EXCEPT ![c] = [[call[c] EXCEPT !.input = in] EXCEPT
                        !.pc = "waiting", !.id = r]]
                   /\ UNCHANGED tables
                \/ /\ ~Pending(r)
                   /\ call' = [call EXCEPT ![c] = [[call[c] EXCEPT !.input = in] EXCEPT
                        !.pc = "resolved", !.id = r, !.status = request[r].status]]
                   /\ UNCHANGED tables
    BY <1>6, Zenon
  <2>2. r \in Requests /\ Exists(r)
    BY DEF SameKey
  <2>3. CASE /\ ExpireRowIfDue(r, now)
             /\ call' = [call EXCEPT ![c] = [[call[c] EXCEPT !.input = in] EXCEPT
                        !.pc = "resolved", !.id = r, !.status = "expired"]]
    <3> DEFINE m == [[call[c] EXCEPT !.input = in] EXCEPT
                        !.pc = "resolved", !.id = r, !.status = "expired"]
    <3>1. /\ m \in CallRecord /\ m.id = r /\ m.input = in /\ m.pc = "resolved"
          /\ m.status = "expired" /\ "expired" \in Terminal
      BY <1>0, <2>2 DEF CallRecord, PCs, Terminal
    <3>2. request'[r].status = "expired"
      <4>1. request'[r] = Settled(request[r], "expired", now, SystemTimeout)
        BY <1>0, <2>2, <2>3 DEF ExpireRowIfDue, Due, TransitionPending
      <4>2. QED BY <1>0, <2>2, <4>1 DEF Settled, Row
    <3>3. GateForm
      BY <2>2, <2>3, ExpiryForm
    <3> HIDE DEF m
    <3>4. QED BY <1>5, <1>6, <2>3, <3>1, <3>2, <3>3 DEF m
  <2>4. CASE /\ Pending(r) /\ ~Due(r, now)
             /\ call' = [call EXCEPT ![c] = [[call[c] EXCEPT !.input = in] EXCEPT
                        !.pc = "waiting", !.id = r]]
             /\ UNCHANGED tables
    <3> DEFINE m == [[call[c] EXCEPT !.input = in] EXCEPT !.pc = "waiting", !.id = r]
    <3>1. m \in CallRecord /\ m.id = r /\ m.input = in /\ m.pc = "waiting"
      BY <1>0, <2>2 DEF CallRecord, PCs
    <3>2. GateForm
      BY <2>4 DEF GateForm
    <3> HIDE DEF m
    <3>3. QED BY <1>5, <1>6, <2>4, <3>1, <3>2 DEF m
  <2>5. CASE /\ ~Pending(r)
             /\ call' = [call EXCEPT ![c] = [[call[c] EXCEPT !.input = in] EXCEPT
                        !.pc = "resolved", !.id = r, !.status = request[r].status]]
             /\ UNCHANGED tables
    <3> DEFINE m == [[call[c] EXCEPT !.input = in] EXCEPT
                        !.pc = "resolved", !.id = r, !.status = request[r].status]
    <3>1. request[r].status \in Terminal /\ request' = request
      BY <1>0, <2>2, <2>5 DEF Pending, Exists, Row, tables
    <3>2. /\ m \in CallRecord /\ m.id = r /\ m.input = in /\ m.pc = "resolved"
          /\ m.status = request[r].status
      BY <1>0, <2>2, <3>1 DEF CallRecord, PCs
    <3>3. GateForm
      BY <2>5 DEF GateForm
    <3> HIDE DEF m
    <3>4. QED BY <1>5, <1>6, <2>5, <3>1, <3>2, <3>3 DEF m
  <2>6. QED BY <2>1, <2>3, <2>4, <2>5
<1>7. CASE ~Rejected(in) /\ SameKey(in.requester, in.key) = {}
           /\ \E r \in Requests :
                /\ Insert(r, in.requester, in.approver, in.key, in.payload,
                          now + in.timeout, in.upstream)
                /\ call' = [call EXCEPT ![c] =
                     NextChannel([[call[c] EXCEPT !.input = in] EXCEPT !.id = r], 1)]
  <2>1. PICK r \in Requests :
                /\ Insert(r, in.requester, in.approver, in.key, in.payload,
                          now + in.timeout, in.upstream)
                /\ call' = [call EXCEPT ![c] =
                     NextChannel([[call[c] EXCEPT !.input = in] EXCEPT !.id = r], 1)]
    BY <1>7
  <2> DEFINE m == NextChannel([[call[c] EXCEPT !.input = in] EXCEPT !.id = r], 1)
  <2>2. /\ in.requester \in Requesters /\ in.approver \in Approvers
        /\ in.key \in Keys \cup {NoKey} /\ in.payload \in Payloads
        /\ now + in.timeout \in Nat /\ in.upstream \in Upstreams
    <3>1. /\ in.requester \in Requesters /\ in.approver \in Approvers
          /\ in.key \in Keys \cup {NoKey} /\ in.payload \in Payloads
          /\ in.timeout \in Timeouts /\ in.upstream \in Upstreams
      BY <1>2, Zenon DEF Input
    <3>2. Timeouts \subseteq Nat
      BY StoreAssumption
    <3>3. in.timeout \in Nat
      BY <3>1, <3>2
    <3>4. now + in.timeout \in Nat
      BY <1>0, <3>3
    <3>5. QED BY <3>1, <3>4
  <2>3. GateForm
    BY <1>7, <2>1, <2>2 DEF GateForm, Insertion
  <2>4. /\ m \in CallRecord /\ m.id = r /\ m.input = in
        /\ m.pc \in {"waiting", "dispatching"}
    <3>1. /\ [[call[c] EXCEPT !.input = in] EXCEPT !.id = r] \in CallRecord
          /\ [[call[c] EXCEPT !.input = in] EXCEPT !.id = r].id = r
          /\ [[call[c] EXCEPT !.input = in] EXCEPT !.id = r].input = in
      BY <1>0 DEF CallRecord
    <3>2. QED BY <3>1, NextChannelTyped
  <2>5. Served(m, request')
    <3>1. in.failOpen => AllowFailOpenTimeout
      BY <1>7 DEF Rejected
    <3>2. /\ request'[r].status = "pending" /\ request'[r].requester = in.requester
          /\ request'[r].approver = in.approver /\ request'[r].payload = in.payload
          /\ request'[r].upstream = in.upstream
      BY <1>0, <2>1 DEF Insert
    <3>3. QED BY <2>4, <3>1, <3>2 DEF Served
  <2>6. CallInv(m, request')
    BY <2>4, <2>5, GateAssumption DEF CallInv, Answered, Served
  <2> HIDE DEF m
  <2>7. Effect(c, m)
    BY <1>0, <2>1, <2>4, <2>6 DEF Effect, m
  <2>8. QED BY <2>3, <2>7
<1>8. QED BY <1>1, <1>4, <1>6, <1>7

\* A call that has a request takes a step of its own.
LEMMA MovedOn ==
  ASSUME GateInv, NEW c \in Calls, call[c].id # None,
         GateForm, now' = now, op' = op,
         delivered' \subseteq Requests, undelivered' \subseteq Requests,
         NEW m \in CallRecord, m.id = call[c].id, m.input = call[c].input, m.pc # "idle",
         call' = [call EXCEPT ![c] = m],
         m.pc \in Answered => m.status \in Terminal /\ request'[call[c].id].status = m.status,
         m.pc = "released" =>
           /\ m.status = "approved"
           /\ request'[call[c].id].claimedBy = call[c].input.requester
           /\ call[c].pc = "released" \/ request[call[c].id].claimedBy = None
  PROVE  StepOf(c)
<1>1. /\ TypeOK /\ RowInv /\ call[c] \in CallRecord /\ CallInv(call[c], request)
      /\ now \in Times
  BY CallFacts
<1>2. Form
  BY <1>1, GateFormIsForm
<1>3. CallInv(m, request')
  BY <1>1, <1>2, Advance
<1>4. Effect(c, m)
  BY <1>3 DEF Effect
<1>5. QED BY <1>4 DEF StepOf

\* What a call that has a request and stands at one of its awaits knows.
LEMMA Standing ==
  ASSUME GateInv, NEW c \in Calls,
         call[c].pc \in {"dispatching", "publishing", "cancelling", "waiting", "resolved"}
  PROVE  /\ call[c].id # None /\ call[c].id \in Requests
         /\ request[call[c].id] \in Row /\ Exists(call[c].id)
         /\ request[call[c].id].requester = call[c].input.requester
         /\ call[c].input.requester \in Principals
         /\ call[c].input.failOpen \in BOOLEAN
         /\ call[c].input.failOpen => AllowFailOpenTimeout
         /\ ~Pending(call[c].id) => request[call[c].id].status \in Terminal
<1>1. call[c].id # None /\ Served(call[c], request) /\ call[c].input \in Input
  BY CallFacts DEF CallInv, Answered
<1>2. call[c].input.requester \in Principals /\ call[c].input.failOpen \in BOOLEAN
  BY <1>1, Zenon DEF Input, Principals
<1>3. call[c].id \in Requests /\ request[call[c].id] \in Row /\ Exists(call[c].id)
  BY <1>1, CallFacts
<1>4. QED BY <1>1, <1>2, <1>3 DEF Served, Row, Pending, Exists

LEMMA PublishStep == ASSUME GateInv, NEW c \in Calls, Publish(c) PROVE StepOf(c)
<1> DEFINE m == [call[c] EXCEPT !.pc = "publishing"]
<1>0. call[c].id # None /\ call[c].id \in Requests
  BY Standing DEF Publish
<1>1. /\ m \in CallRecord /\ m.id = call[c].id /\ m.input = call[c].input
      /\ m.pc = "publishing" /\ call' = [call EXCEPT ![c] = m]
  BY CallFacts DEF Publish, CallRecord, PCs
<1>2. delivered' \subseteq Requests /\ undelivered' \subseteq Requests
  BY <1>0, CallFacts DEF Publish
<1>3. GateForm /\ now' = now /\ op' = op
  BY DEF Publish, GateForm, vars, tables
<1> HIDE DEF m
<1>4. QED BY <1>0, <1>1, <1>2, <1>3, MovedOn DEF Answered

\* recordDispatch and its failure: an event of a row that is pending, or an
\* error.
LEMMA RecordStep ==
  ASSUME GateInv, NEW c \in Calls, call[c].pc \in {"dispatching", "publishing"},
         NEW type \in {"dispatched", "dispatch_failed"},
         NEW k \in CallRecord, k.id = call[c].id, k.input = call[c].input,
         k.pc \in {"dispatching", "waiting", "cancelling"},
         Record(c, type, k), undelivered' \subseteq Requests
  PROVE  StepOf(c)
<1>0. call[c].id # None /\ call[c].id \in Requests
  BY Standing
<1>1. delivered' \subseteq Requests /\ now' = now /\ op' = op
  BY CallFacts DEF Record
<1>2. CASE Pending(call[c].id)
  <2>1. log' = [log EXCEPT ![call[c].id] = Append(@, Event(type, None))]
          /\ call' = [call EXCEPT ![c] = k] /\ UNCHANGED <<request, capability>>
    BY <1>2, Zenon DEF Record
  <2>2. Dispatch
    BY <1>0, <1>2, <2>1, Zenon DEF Dispatch
  <2>3. GateForm
    BY <2>2 DEF GateForm
  <2>4. QED BY <1>0, <1>1, <2>1, <2>3, MovedOn DEF Answered
<1>3. CASE ~Pending(call[c].id)
  <2> DEFINE m == [call[c] EXCEPT !.pc = "failed"]
  <2>1. /\ m \in CallRecord /\ m.id = call[c].id /\ m.input = call[c].input
        /\ m.pc = "failed"
    BY CallFacts DEF CallRecord, PCs, Finished
  <2>2. call' = [call EXCEPT ![c] = m] /\ UNCHANGED tables
    BY <1>3, Zenon DEF Record, Throw, tables
  <2>3. GateForm
    BY <2>2 DEF GateForm
  <2> HIDE DEF m
  <2>4. QED BY <1>0, <1>1, <2>1, <2>2, <2>3, MovedOn DEF Answered
<1>4. QED BY <1>2, <1>3

LEMMA PublishedStep == ASSUME GateInv, NEW c \in Calls, Published(c) PROVE StepOf(c)
<1> DEFINE k == NextChannel(call[c], call[c].next + 1)
<1>1. call[c] \in CallRecord /\ call[c].next + 1 \in Nat
  BY CallFacts DEF CallRecord
<1>2. /\ k \in CallRecord /\ k.id = call[c].id /\ k.input = call[c].input
      /\ k.pc \in {"waiting", "dispatching"}
  BY <1>1, NextChannelTyped
<1>3. Record(c, "dispatched", k) /\ call[c].pc = "publishing" /\ undelivered' \subseteq Requests
  BY CallFacts DEF Published
<1> HIDE DEF k
<1>4. QED BY <1>2, <1>3, RecordStep

LEMMA DeliveryFailsStep == ASSUME GateInv, NEW c \in Calls, DeliveryFails(c) PROVE StepOf(c)
<1> DEFINE k == [call[c] EXCEPT !.pc = "cancelling"]
<1>1. /\ k \in CallRecord /\ k.id = call[c].id /\ k.input = call[c].input
      /\ k.pc = "cancelling"
  BY CallFacts DEF CallRecord, PCs
<1>2. Record(c, "dispatch_failed", k) /\ call[c].pc \in {"dispatching", "publishing"}
  BY DEF DeliveryFails
<1>3. undelivered' \subseteq Requests
  BY <1>2, Standing, CallFacts DEF DeliveryFails
<1> HIDE DEF k
<1>4. QED BY <1>1, <1>2, <1>3, RecordStep

\* A row that a transition finds pending has its outcome, another keeps its own.
LEMMA Outcome ==
  ASSUME TypeOK, NEW r \in Requests, NEW status, NEW actor,
         TransitionPending({r}, status, now, actor)
  PROVE  request'[r].status = IF Pending(r) THEN status ELSE request[r].status
<1>1. request[r] \in Row
  BY DEF TypeOK
<1>2. request'[r] = IF Pending(r) THEN Settled(request[r], status, now, actor) ELSE request[r]
  BY DEF TransitionPending
<1>3. QED BY <1>1, <1>2 DEF Settled, Row

\* A call that ends its wait, with the outcome its row has by then.
LEMMA ResolveStep ==
  ASSUME GateInv, NEW c \in Calls, call[c].pc \in {"cancelling", "waiting"},
         GateForm, now' = now, op' = op,
         delivered' \subseteq Requests, undelivered' \subseteq Requests,
         NEW status \in Terminal, call' = [call EXCEPT ![c] = Resolve(c, status)],
         request'[call[c].id].status = status
  PROVE  StepOf(c)
<1> DEFINE m == [call[c] EXCEPT !.pc = "resolved", !.status = status]
<1>1. /\ m \in CallRecord /\ m.id = call[c].id /\ m.input = call[c].input
      /\ m.pc = "resolved" /\ m.status = status
  BY CallFacts DEF CallRecord, PCs
<1>2. call' = [call EXCEPT ![c] = m]
  BY Zenon DEF Resolve
<1> HIDE DEF m
<1>3. QED BY <1>1, <1>2, Standing, MovedOn

LEMMA ThrowStep ==
  ASSUME GateInv, NEW c \in Calls, call[c].pc \in {"cancelling", "waiting"},
         GateForm, now' = now, op' = op,
         delivered' \subseteq Requests, undelivered' \subseteq Requests,
         call' = [call EXCEPT ![c] = Throw(c)]
  PROVE  StepOf(c)
<1> DEFINE m == [call[c] EXCEPT !.pc = "failed"]
<1>1. /\ m \in CallRecord /\ m.id = call[c].id /\ m.input = call[c].input
      /\ m.pc = "failed"
  BY CallFacts DEF CallRecord, PCs, Finished
<1>2. call' = [call EXCEPT ![c] = m]
  BY Zenon DEF Throw
<1> HIDE DEF m
<1>3. QED BY <1>1, <1>2, Standing, MovedOn DEF Answered

LEMMA CancelStep == ASSUME GateInv, NEW c \in Calls, CancelFailedDispatch(c) PROVE StepOf(c)
<1> DEFINE r == call[c].id
<1>0. /\ call[c].pc = "cancelling" /\ r \in Requests /\ TypeOK
      /\ request[r].requester = call[c].input.requester /\ call[c].input.requester \in Principals
      /\ now' = now /\ op' = op /\ delivered' \subseteq Requests /\ undelivered' \subseteq Requests
  BY Standing, CallFacts DEF CancelFailedDispatch
<1>1. CASE ExpireRowIfDue(r, now) /\ call' = [call EXCEPT ![c] = Throw(c)]
  BY <1>0, <1>1, ExpiryForm, ThrowStep
<1>2. CASE UNCHANGED tables /\ call' = [call EXCEPT ![c] = Throw(c)]
  BY <1>0, <1>2, ThrowStep DEF GateForm
<1>3. CASE /\ Pending(r)
           /\ TransitionPending({r}, "cancelled", now, call[c].input.requester)
           /\ call' = [call EXCEPT ![c] = Resolve(c, "cancelled")]
  <2>1. GateForm
    BY <1>0, <1>3, CancelForm
  <2>2. request'[r].status = "cancelled" /\ "cancelled" \in Terminal
    BY <1>0, <1>3, Outcome DEF Terminal
  <2> HIDE DEF r
  <2>3. QED BY <1>0, <1>3, <2>1, <2>2, ResolveStep DEF r
<1>4. QED BY <1>1, <1>2, <1>3 DEF CancelFailedDispatch

\* expire(): approves only for a call that opted in, and in time.
LEMMA TimeOutStep == ASSUME GateInv, NEW c \in Calls, TimeOutWait(c) PROVE StepOf(c)
<1> DEFINE r == call[c].id
           outcome == TimeoutOutcome(c)
           status == IF Pending(r) THEN outcome ELSE request[r].status
<1>0. /\ call[c].pc = "waiting" /\ r \in Requests /\ TypeOK
      /\ now' = now /\ op' = op /\ delivered' \subseteq Requests /\ undelivered' \subseteq Requests
      /\ TransitionPending({r}, outcome, now, SystemTimeout)
      /\ call' = [call EXCEPT ![c] = Resolve(c, status)]
      /\ request[r].expiresAt <= now
      /\ ~Pending(r) => request[r].status \in Terminal
  <2>1. now >= request[r].expiresAt => request[r].expiresAt <= now
    OBVIOUS
  <2>2. QED BY <2>1, Standing, CallFacts DEF TimeOutWait, TimeIsUp
<1>1. outcome \in {"approved", "expired"} /\ outcome \in Terminal
  BY DEF TimeoutOutcome, Terminal
<1>2. outcome = "approved" => AllowFailOpenTimeout /\ Asked(r)
  BY <1>0, Standing DEF TimeoutOutcome, Asked
<1>3. GateTransition
  <2> HIDE DEF outcome, r
  <2>1. {r} \in SUBSET Requests /\ \A s \in {r} : request[s].expiresAt <= now
    BY <1>0
  <2>2. QED BY <1>0, <1>1, <1>2, <2>1, Zenon DEF GateTransition
<1>4. GateForm
  BY <1>3 DEF GateForm
<1>5. request'[r].status = status /\ status \in Terminal
  BY <1>0, <1>1, Outcome
<1> HIDE DEF outcome, status, r
<1>6. QED BY <1>0, <1>4, <1>5, ResolveStep DEF r

LEMMA AbortWaitStep == ASSUME GateInv, NEW c \in Calls, AbortWait(c) PROVE StepOf(c)
<1> DEFINE r == call[c].id
<1>0. /\ call[c].pc = "waiting" /\ r \in Requests /\ TypeOK
      /\ request[r].requester = call[c].input.requester /\ call[c].input.requester \in Principals
      /\ now' = now /\ op' = op /\ delivered' \subseteq Requests /\ undelivered' \subseteq Requests
      /\ ~Pending(r) => request[r].status \in Terminal
  BY Standing, CallFacts DEF AbortWait
<1>a. "expired" \in Terminal /\ "cancelled" \in Terminal
  BY DEF Terminal
<1>1. CASE ExpireRowIfDue(r, now) /\ call' = [call EXCEPT ![c] = Resolve(c, "expired")]
  <2>1. Pending(r) /\ TransitionPending({r}, "expired", now, SystemTimeout)
    BY <1>1 DEF ExpireRowIfDue, Due
  <2>2. GateForm
    BY <1>0, <1>1, ExpiryForm
  <2>3. request'[r].status = "expired"
    BY <1>0, <2>1, Outcome
  <2> HIDE DEF r
  <2>4. QED BY <1>0, <1>a, <1>1, <2>2, <2>3, ResolveStep DEF r
<1>2. CASE /\ Pending(r)
           /\ TransitionPending({r}, "cancelled", now, call[c].input.requester)
           /\ call' = [call EXCEPT ![c] = Resolve(c, "cancelled")]
  <2>1. GateForm
    BY <1>0, <1>2, CancelForm
  <2>2. request'[r].status = "cancelled"
    BY <1>0, <1>2, Outcome
  <2> HIDE DEF r
  <2>3. QED BY <1>0, <1>a, <1>2, <2>1, <2>2, ResolveStep DEF r
<1>3. CASE /\ ~Pending(r) /\ UNCHANGED tables
           /\ call' = [call EXCEPT ![c] = Resolve(c, request[r].status)]
  <2>1. GateForm /\ request'[r].status = request[r].status
    BY <1>3 DEF GateForm, tables
  <2> HIDE DEF r
  <2>2. QED BY <1>0, <1>3, <2>1, ResolveStep DEF r
<1>4. QED BY <1>1, <1>2, <1>3 DEF AbortWait

LEMMA SeeOutcomeStep == ASSUME GateInv, NEW c \in Calls, SeeOutcome(c) PROVE StepOf(c)
<1> DEFINE r == call[c].id
<1>0. /\ call[c].pc = "waiting" /\ r \in Requests /\ request[r].status \in Terminal
      /\ now' = now /\ op' = op /\ delivered' \subseteq Requests /\ undelivered' \subseteq Requests
      /\ request' = request /\ call' = [call EXCEPT ![c] = Resolve(c, request[r].status)]
  BY Standing, CallFacts DEF SeeOutcome, vars
<1>1. GateForm
  BY DEF SeeOutcome, vars, GateForm, tables
<1> HIDE DEF r
<1>2. QED BY <1>0, <1>1, ResolveStep DEF r

\* claimExecution(): whoever wins finds the execution unclaimed.
LEMMA ClaimStep == ASSUME GateInv, NEW c \in Calls, Claim(c) PROVE StepOf(c)
<1> DEFINE r == call[c].id
           wins == /\ call[c].status = "approved" /\ request[r].status = "approved"
                   /\ request[r].claimedBy = None
                   /\ request[r].requester = call[c].input.requester
           m == [call[c] EXCEPT !.pc = IF wins THEN "released" ELSE "refused"]
<1>0. /\ call[c].pc = "resolved" /\ r # None /\ r \in Requests /\ request[r] \in Row
      /\ call[c].input.requester \in Principals
      /\ call[c].status \in Terminal /\ request[r].status = call[c].status
      /\ request \in [Requests -> Row]
      /\ delivered' \subseteq Requests /\ undelivered' \subseteq Requests
  BY Standing, CallFacts DEF Claim, CallInv, Answered
<1>1. /\ m \in CallRecord /\ m.id = r /\ m.input = call[c].input /\ m.status = call[c].status
      /\ m.pc \in {"released", "refused"}
      /\ m.pc = "released" => wins
  <2>1. call[c] \in CallRecord
    BY CallFacts
  <2> HIDE DEF wins
  <2>2. QED BY <2>1 DEF CallRecord, PCs, Finished
<1>2. call' = [call EXCEPT ![c] = m]
  BY Zenon DEF Claim
<1>3. CASE wins
  <2>1. ClaimExecution(r, call[c].input.requester, now)
    BY <1>3 DEF Claim
  <2>2. ~ExpireRowIfDue(r, now)
    BY <1>3 DEF ExpireRowIfDue, Due, Pending
  <2>3. /\ request' = [request EXCEPT ![r].claimedBy = call[c].input.requester]
        /\ log' = [log EXCEPT ![r] = Append(@, Event("execution_claimed", call[c].input.requester))]
        /\ UNCHANGED capability /\ now' = now /\ op' = op
    BY <2>1, <2>2, Zenon DEF ClaimExecution
  <2>4. Claiming
    BY <1>0, <1>3, <2>3, Zenon DEF Claiming
  <2>5. GateForm
    BY <2>4 DEF GateForm
  <2>6. /\ request'[r].claimedBy = call[c].input.requester
        /\ request'[r].status = request[r].status
    BY <1>0, <2>3 DEF Row
  <2>7. call[c].status = "approved" /\ request[r].claimedBy = None
    BY <1>3
  <2> HIDE DEF wins, m
  <2>8. /\ m.pc # "idle" /\ m.status \in Terminal /\ request'[r].status = m.status
        /\ m.status = "approved"
    BY <1>0, <1>1, <2>6, <2>7
  <2>9. QED BY <1>0, <1>1, <1>2, <2>3, <2>5, <2>6, <2>7, <2>8, MovedOn
<1>4. CASE ~wins
  <2>1. UNCHANGED vars
    BY <1>4, Zenon DEF Claim
  <2>2. GateForm /\ now' = now /\ op' = op /\ request' = request
    BY <2>1 DEF vars, GateForm, tables
  <2> HIDE DEF wins, m
  <2>3. /\ m.pc = "refused" /\ m.status \in Terminal /\ request'[r].status = m.status
    BY <1>0, <1>1, <1>4, <2>2
  <2>4. QED BY <1>0, <1>1, <1>2, <2>2, <2>3, MovedOn
<1>5. QED BY <1>3, <1>4

LEMMA AbortStep == ASSUME GateInv, NEW c \in Calls, Abort(c) PROVE StepOf(c)
<1> DEFINE m == [call[c] EXCEPT !.aborted = TRUE]
<1>0. call[c] \in CallRecord /\ call[c].pc \notin Finished \cup {"idle"}
  BY CallFacts DEF Abort
<1>1. call[c].pc \in {"dispatching", "publishing", "cancelling", "waiting", "resolved"}
  BY <1>0 DEF CallRecord, PCs
<1>2. /\ m \in CallRecord /\ m.id = call[c].id /\ m.input = call[c].input
      /\ m.pc = call[c].pc /\ m.status = call[c].status
  BY <1>0 DEF CallRecord
<1>3. call' = [call EXCEPT ![c] = m] /\ UNCHANGED <<vars, delivered, undelivered>>
  BY Zenon DEF Abort
<1>4. GateForm /\ now' = now /\ op' = op /\ request' = request
        /\ delivered' \subseteq Requests /\ undelivered' \subseteq Requests
  BY <1>3, CallFacts DEF vars, GateForm, tables
<1>5. call[c].pc = "resolved" => call[c].status \in Terminal /\ request[call[c].id].status = call[c].status
  BY CallFacts DEF CallInv, Answered
<1> HIDE DEF m
<1>6. QED BY <1>1, <1>2, <1>3, <1>4, <1>5, Standing, MovedOn DEF Answered

LEMMA CallStepOf == ASSUME GateInv, NEW c \in Calls, CallStep(c) PROVE StepOf(c)
BY RequestStep, PublishStep, PublishedStep, DeliveryFailsStep, CancelStep, TimeOutStep,
   AbortWaitStep, SeeOutcomeStep, ClaimStep, AbortStep DEF CallStep, Poll

--------------------------------------------------------------------------
(* What the rest of the world does.                                        *)

\* Decisions, cancellations, sweeps and the clock leave the calls alone.
WorldStep ==
  /\ GateForm
  /\ op' = op
  /\ now' \in Times /\ (now' = now \/ UNCHANGED tables)
  /\ UNCHANGED <<delivered, undelivered>>

LEMMA AnswerStep == ASSUME GateInv, NEW r \in Requests, Answer(r) PROVE WorldStep /\ call' = call
<1>1. PICK p \in Principals, decision \in {"approved", "denied"} : Decide(r, p, decision, now)
  BY DEF Answer
<1>2. now \in Times /\ now \in Nat
  BY CallFacts, StoreAssumption DEF GateInv, GateTypeOK, TypeOK, Times
<1>3. GateForm
  <2>1. CASE ExpireRowIfDue(r, now)
    BY <2>1, ExpiryForm
  <2>2. CASE ~ExpireRowIfDue(r, now)
    <3>1. Decision
      BY <1>1, <1>2, <2>2, Zenon DEF Decide, Decision
    <3>2. QED BY <3>1 DEF GateForm
  <2>3. QED BY <2>1, <2>2
<1>4. QED BY <1>1, <1>2, <1>3 DEF WorldStep, Answer, Decide

LEMMA WithdrawStep ==
  ASSUME GateInv, NEW r \in Requests, Withdraw(r) PROVE WorldStep /\ call' = call
<1>1. PICK p \in Principals : Cancel(r, p, now)
  BY DEF Withdraw
<1>2. now \in Times
  BY DEF GateInv, GateTypeOK, TypeOK
<1>3. GateForm
  BY <1>1, ExpiryForm, CancelForm DEF Cancel
<1>4. QED BY <1>1, <1>2, <1>3 DEF WorldStep, Withdraw, Cancel

LEMMA SweepStep == ASSUME GateInv, Sweep PROVE WorldStep /\ call' = call
<1> DEFINE S == {r \in Requests : Due(r, now)}
<1>1. TransitionPending(S, "expired", now, SystemTimeout) /\ S \in SUBSET Requests
        /\ UNCHANGED <<now, op, call, delivered, undelivered>>
  BY DEF Sweep
<1>2. now \in Times /\ "expired" \in Terminal
  BY DEF GateInv, GateTypeOK, TypeOK, Terminal
<1>3. \A r \in S : request[r].expiresAt <= now
  BY DEF Due
<1> HIDE DEF S
<1>4. GateTransition
  BY <1>1, <1>2, <1>3 DEF GateTransition
<1>5. QED BY <1>1, <1>2, <1>4 DEF WorldStep, GateForm

LEMMA TimeStep == ASSUME GateInv, Time PROVE WorldStep /\ call' = call
<1>1. now \in 0 .. MaxTime /\ MaxTime \in Nat
  BY StoreAssumption DEF GateInv, GateTypeOK, TypeOK, Times
<1>2. now' = now + 1 /\ now < MaxTime /\ UNCHANGED <<tables, op, call, delivered, undelivered>>
  BY DEF Time, Tick
<1>3. now' \in Times
  BY <1>1, <1>2 DEF Times
<1>4. QED BY <1>2, <1>3 DEF WorldStep, GateForm

\* A call is in the middle of its work, not at an end.
LEMMA CrashStep ==
  ASSUME GateInv, NEW S \in SUBSET Calls, CrashProcess(S)
  PROVE  /\ WorldStep
         /\ call' \in [Calls -> CallRecord]
         /\ \A c \in Calls :
              /\ call'[c].id = call[c].id /\ call'[c].input = call[c].input
              /\ CallInv(call'[c], request')
              /\ call'[c].pc = "released" => call'[c] = call[c]
<1>1. UNCHANGED <<vars, delivered, undelivered>> /\ now \in Times
        /\ call \in [Calls -> CallRecord]
  BY CallsTyped DEF CrashProcess, GateInv, GateTypeOK, TypeOK
<1>2. WorldStep
  BY <1>1 DEF vars, tables, WorldStep, GateForm
<1>3. ASSUME NEW c \in Calls
      PROVE  /\ call'[c] \in CallRecord
             /\ call'[c].id = call[c].id /\ call'[c].input = call[c].input
             /\ CallInv(call'[c], request')
             /\ call'[c].pc = "released" => call'[c] = call[c]
  <2>1. call[c] \in CallRecord /\ CallInv(call[c], request) /\ request' = request
    BY <1>1, CallFacts DEF vars
  <2>2. CASE call'[c] = call[c]
    BY <2>1, <2>2
  <2>3. CASE call'[c] = [call[c] EXCEPT !.pc = "crashed"]
    <3>1. /\ call'[c] \in CallRecord /\ call'[c].pc = "crashed"
          /\ call'[c].id = call[c].id /\ call'[c].input = call[c].input
      BY <2>1, <2>3 DEF CallRecord, PCs, Finished
    <3>2. QED BY <2>1, <3>1 DEF CallInv, Served, Answered
  <2>4. call'[c] = call[c] \/ call'[c] = [call[c] EXCEPT !.pc = "crashed"]
    BY Zenon DEF CrashProcess
  <2>5. QED BY <2>2, <2>3, <2>4
<1>4. call' \in [Calls -> CallRecord]
  <2>1. call' = [c \in Calls |-> call'[c]]
    BY Zenon DEF CrashProcess
  <2>2. QED BY <1>3, <2>1
<1>5. QED BY <1>2, <1>3, <1>4

\* Every step of the gate, as the theorems see it.
LEMMA GateForms ==
  ASSUME GateInv, [GateNext]_gateVars
  PROVE  /\ GateForm /\ Form /\ op' = op
         /\ now' \in Times /\ (now' = now \/ UNCHANGED tables)
         /\ delivered' \subseteq Requests /\ undelivered' \subseteq Requests
         /\ \/ \E c \in Calls : StepOf(c)
            \/ call' = call
            \/ /\ call' \in [Calls -> CallRecord]
               /\ \A c \in Calls :
                    /\ call'[c].id = call[c].id /\ call'[c].input = call[c].input
                    /\ CallInv(call'[c], request')
                    /\ call'[c].pc = "released" => call'[c] = call[c]
<1>0. now \in Times /\ delivered \subseteq Requests /\ undelivered \subseteq Requests
  BY DEF GateInv, GateTypeOK, TypeOK
<1>1. CASE UNCHANGED gateVars
  BY <1>0, <1>1, GateFormIsForm DEF gateVars, vars, tables, GateForm
<1>2. ASSUME NEW c \in Calls, CallStep(c)
      PROVE  StepOf(c)
  BY <1>2, CallStepOf
<1>3. ASSUME NEW r \in Requests, Answer(r) \/ Withdraw(r)
      PROVE  WorldStep /\ call' = call
  BY <1>3, AnswerStep, WithdrawStep
<1>4. CASE \E S \in SUBSET Calls : CrashProcess(S)
  <2>1. WorldStep
    BY <1>4, CrashStep
  <2>2. QED BY <1>0, <1>4, <2>1, CrashStep, GateFormIsForm DEF WorldStep
<1>5. CASE Sweep \/ Time
  <2>1. WorldStep /\ call' = call
    BY <1>5, SweepStep, TimeStep
  <2>2. QED BY <1>0, <2>1, GateFormIsForm DEF WorldStep
<1>6. CASE \E c \in Calls : CallStep(c)
  <2>1. PICK c \in Calls : StepOf(c)
    BY <1>2, <1>6
  <2>2. QED BY <1>0, <2>1, GateFormIsForm DEF StepOf
<1>7. CASE \E r \in Requests : Answer(r) \/ Withdraw(r)
  <2>1. WorldStep /\ call' = call
    BY <1>3, <1>7
  <2>2. QED BY <1>0, <2>1, GateFormIsForm DEF WorldStep
<1>8. QED BY <1>1, <1>4, <1>5, <1>6, <1>7 DEF GateNext

LEMMA CallsMove ==
  ASSUME GateInv, [GateNext]_gateVars
  PROVE  /\ call' \in [Calls -> CallRecord]
         /\ \A c \in Calls :
              /\ CallInv(call'[c], request')
              /\ call[c].id # None => call'[c].id = call[c].id /\ call'[c].input = call[c].input
<1>0. call \in [Calls -> CallRecord] /\ TypeOK /\ RowInv /\ Form
  BY CallsTyped, GateForms DEF GateInv
<1>1. ASSUME NEW c \in Calls, call'[c] = call[c]
      PROVE  CallInv(call'[c], request')
  BY <1>0, <1>1, CallFacts, BeliefStays
<1>2. CASE \E c \in Calls : StepOf(c)
  <2>1. PICK c \in Calls, m \in CallRecord : Effect(c, m)
    BY <1>2 DEF StepOf, Effect
  <2>2. /\ call' \in [Calls -> CallRecord] /\ call'[c] = m
        /\ \A d \in Calls \ {c} : call'[d] = call[d]
    BY <1>0, <2>1 DEF Effect
  <2>3. QED BY <1>1, <2>1, <2>2 DEF Effect
<1>3. CASE call' = call
  BY <1>0, <1>1, <1>3
<1>4. QED BY <1>2, <1>3, GateForms

LEMMA GateInvInit == GateInit => GateInv
<1> SUFFICES ASSUME GateInit PROVE GateInv
  OBVIOUS
<1>1. TypeOK /\ RowInv
  BY InitTypeOK, InitRowInv DEF GateInit
<1>2. NoCall \in CallRecord
  BY DEF NoCall, CallRecord, PCs
<1>3. NoCall.id = None /\ NoCall.pc = "idle"
  BY DEF NoCall
<1>4. CallInv(NoCall, request)
  BY <1>3 DEF CallInv, Answered
<1>5. QED BY <1>1, <1>2, <1>4, CallsTyped DEF GateInit, GateInv, CallsInv

LEMMA GateInvStep == GateInv /\ [GateNext]_gateVars => GateInv'
<1> SUFFICES ASSUME GateInv, [GateNext]_gateVars PROVE GateInv'
  OBVIOUS
<1>1. TypeOK /\ RowInv /\ Form /\ op \in [Handles -> Ops] /\ op' = op /\ now' \in Times
        /\ delivered' \subseteq Requests /\ undelivered' \subseteq Requests
  BY GateForms DEF GateInv, GateTypeOK, TypeOK
<1>2. TypeOK'
  BY <1>1, TablesTyped DEF TypeOK
<1>3. RowInv'
  BY <1>1, FormRowInv
<1>4. call' \in [Calls -> CallRecord] /\ CallsInv'
  BY CallsMove DEF CallsInv
<1>5. GateTypeOK'
  BY <1>1, <1>2, <1>4 DEF GateTypeOK, CallRecord
<1>6. QED BY <1>3, <1>4, <1>5 DEF GateInv

\* What every call believes of its row is true, in every reachable state.
LEMMA GateCorrect == GateSpec => []GateInv
BY GateInvInit, GateInvStep, PTL DEF GateSpec

--------------------------------------------------------------------------
(* Theorems                                                                *)

\* Store and calls are type correct.
THEOREM GateTypeCorrect == GateSpec => []GateTypeOK
BY GateCorrect, PTL DEF GateInv

\* What holdRequest() returned is never contradicted by the row.
THEOREM FinalResults == GateSpec => []ResultIsFinal
<1>1. GateInv => ResultIsFinal
  BY DEF GateInv, CallsInv, CallInv, Answered, ResultIsFinal
<1>2. QED BY <1>1, GateCorrect, PTL

\* A released call holds the claim of an approval of exactly what it asked for.
THEOREM ReleasesAreApproved == GateSpec => []ReleasedAsApproved
<1>1. GateInv => ReleasedAsApproved
  BY DEF GateInv, CallsInv, CallInv, Served, Answered, ReleasedAsApproved, SameFingerprint
<1>2. QED BY <1>1, GateCorrect, PTL

\* No two calls are released under one request, however many joined it.
THEOREM SingleRelease == GateSpec => []OneReleasePerRequest
<1>1. GateInit => OneReleasePerRequest
  BY DEF GateInit, NoCall, OneReleasePerRequest
<1>2. GateInv /\ OneReleasePerRequest /\ [GateNext]_gateVars => OneReleasePerRequest'
  <2> SUFFICES ASSUME GateInv, OneReleasePerRequest, [GateNext]_gateVars,
                      NEW c \in Calls, NEW d \in Calls, c # d,
                      call'[c].pc = "released", call'[d].pc = "released"
               PROVE  call'[c].id # call'[d].id
    BY DEF OneReleasePerRequest
  <2>0. call \in [Calls -> CallRecord]
    BY CallsTyped DEF GateInv
  <2>1. CASE call'[c] = call[c] /\ call'[d] = call[d]
    BY <2>1 DEF OneReleasePerRequest
  <2>2. ASSUME NEW e \in Calls, NEW f \in Calls, e # f, StepOf(e),
               call'[e].pc = "released", call'[f].pc = "released"
        PROVE  call'[e].id # call'[f].id
    <3>1. PICK m \in CallRecord : Effect(e, m)
      BY <2>2 DEF StepOf, Effect
    <3>2. call'[e] = m /\ call'[f] = call[f] /\ call[f].pc = "released"
      BY <2>0, <2>2, <3>1 DEF Effect
    <3>3. /\ request[call[f].id].claimedBy = call[f].input.requester
          /\ call[f].input.requester # None
      <4>1. CallInv(call[f], request) /\ call[f].id # None
        BY <3>2, CallFacts DEF CallInv, Answered
      <4>2. call[f].input.requester \in Principals
        BY <4>1, CallFacts, Zenon DEF Input, Principals
      <4>3. QED BY <3>2, <4>1, <4>2, StoreAssumption DEF CallInv
    <3>4. CASE call[e].pc = "released"
      <4>1. call[e].id # None
        BY <3>4, CallFacts DEF CallInv, Answered
      <4>2. m.id = call[e].id
        BY <3>1, <4>1 DEF Effect
      <4>3. QED BY <2>2, <3>2, <3>4, <4>2 DEF OneReleasePerRequest
    <3>5. CASE call[e].pc # "released"
      <4>1. request[m.id].claimedBy = None
        BY <2>2, <3>1, <3>2, <3>5 DEF Effect
      <4>2. QED BY <3>2, <3>3, <4>1
    <3>6. QED BY <3>4, <3>5
  <2>3. CASE \E e \in Calls : StepOf(e)
    <3>1. PICK e \in Calls : StepOf(e)
      BY <2>3
    <3>2. e # c /\ e # d => call'[c] = call[c] /\ call'[d] = call[d]
      BY <2>0, <3>1 DEF StepOf, Effect
    <3>3. QED BY <2>1, <2>2, <3>1, <3>2
  <2>4. QED BY <2>1, <2>3, GateForms
<1>3. QED BY <1>1, <1>2, GateCorrect, PTL DEF GateSpec

\* A decision settles one request, for one of the parties.
LEMMA DecisionSettles ==
  ASSUME Decision
  PROVE  \E s \in Requests, p \in Principals, decision \in {"approved", "denied"}, t \in Nat :
           request' = [request EXCEPT ![s] = Settled(@, decision, t, p)]
BY Zenon DEF Decision

\* No request is settled by a timeout before its time.
THEOREM TimeoutsAreDue == GateSpec => []NoEarlyTimeout
<1>1. GateInit => NoEarlyTimeout
  BY StoreAssumption DEF GateInit, Init, AbsentRow, NoEarlyTimeout
<1>2. GateInv /\ NoEarlyTimeout /\ [GateNext]_gateVars => NoEarlyTimeout'
  <2> SUFFICES ASSUME GateInv, NoEarlyTimeout, [GateNext]_gateVars, NEW r \in Requests,
                      request'[r].decidedBy = SystemTimeout
               PROVE  request'[r].decidedAt >= request'[r].expiresAt
    BY DEF NoEarlyTimeout
  <2>0. /\ GateForm /\ request \in [Requests -> Row] /\ now \in Nat
        /\ Coherent(request[r], capability[r])
    BY GateForms, StoreAssumption DEF GateInv, GateTypeOK, TypeOK, RowInv, Times
  <2>1. CASE request'[r] = request[r]
    BY <2>1 DEF NoEarlyTimeout
  <2>2. CASE GateTransition
    <3>1. PICK S \in SUBSET Requests, status \in Terminal,
               actor \in Principals \cup {SystemTimeout} :
            /\ TransitionPending(S, status, now, actor)
            /\ actor = SystemTimeout => \A s \in S : Pending(s) => request[s].expiresAt <= now
      BY <2>2 DEF GateTransition
    <3>2. CASE r \in S /\ Pending(r)
      <4>1. request'[r] = Settled(request[r], status, now, actor)
        BY <3>1, <3>2 DEF TransitionPending
      <4>2. /\ request'[r].decidedAt = now /\ request'[r].decidedBy = actor
            /\ request'[r].expiresAt = request[r].expiresAt
        BY <2>0, <4>1 DEF Settled, Row
      <4>3. request[r].expiresAt <= now /\ request[r].expiresAt \in Nat
        BY <2>0, <3>1, <3>2, <4>2 DEF Coherent, Opened, Pending
      <4>4. QED BY <2>0, <4>2, <4>3
    <3>3. CASE ~(r \in S /\ Pending(r))
      BY <2>1, <3>1, <3>3 DEF TransitionPending
    <3>4. QED BY <3>2, <3>3
  <2>3. CASE Insertion
    <3>1. PICK s \in Requests, requester \in Requesters, approver \in Approvers,
               key \in Keys \cup {NoKey}, payload \in Payloads, e \in Nat,
               upstream \in Upstreams :
                 Insert(s, requester, approver, key, payload, e, upstream)
      BY <2>3 DEF Insertion
    <3>2. r # s
      BY <2>0, <3>1, StoreAssumption DEF Insert
    <3>3. QED BY <2>0, <2>1, <3>1, <3>2 DEF Insert
  <2>4. CASE Decision
    <3>1. PICK s \in Requests, p \in Principals, decision \in {"approved", "denied"}, t \in Nat :
                 request' = [request EXCEPT ![s] = Settled(@, decision, t, p)]
      BY <2>4, DecisionSettles
    <3>2. p # SystemTimeout
      BY StoreAssumption
    <3>3. r # s
      BY <2>0, <3>1, <3>2 DEF Settled, Row
    <3>4. QED BY <2>0, <2>1, <3>1, <3>3
  <2>5. CASE Claiming
    <3>1. PICK s \in Requests, p \in Principals :
                 request' = [request EXCEPT ![s].claimedBy = p]
      BY <2>5, Zenon DEF Claiming
    <3>2. /\ request'[r].decidedAt = request[r].decidedAt
          /\ request'[r].decidedBy = request[r].decidedBy
          /\ request'[r].expiresAt = request[r].expiresAt
      BY <2>0, <3>1 DEF Row
    <3>3. QED BY <3>2 DEF NoEarlyTimeout
  <2>6. CASE UNCHANGED tables \/ Dispatch
    BY <2>1, <2>6 DEF tables, Dispatch
  <2>7. QED BY <2>0, <2>2, <2>3, <2>4, <2>5, <2>6 DEF GateForm
<1>3. QED BY <1>1, <1>2, GateCorrect, PTL DEF GateSpec

\* A timeout approves only a request that a fail-open call waits on.
THEOREM FailOpenIsAsked == GateSpec => []FailOpenWasAsked
<1>1. GateInit => FailOpenWasAsked
  BY DEF GateInit, Init, AbsentRow, FailOpenWasAsked
<1>2. GateInv /\ FailOpenWasAsked /\ [GateNext]_gateVars => FailOpenWasAsked'
  <2> SUFFICES ASSUME GateInv, FailOpenWasAsked, [GateNext]_gateVars, NEW r \in Requests,
                      request'[r].status = "approved", request'[r].decidedBy = SystemTimeout
               PROVE  \E c \in Calls : call'[c].id = r /\ call'[c].input.failOpen
    BY DEF FailOpenWasAsked
  <2>0. GateForm /\ request \in [Requests -> Row]
    BY GateForms DEF GateInv, GateTypeOK, TypeOK
  <2>1. SUFFICES Asked(r)
    <3>1. PICK c \in Calls : call[c].id = r /\ call[c].input.failOpen
      BY <2>1 DEF Asked
    <3>2. call[c].id # None
      BY <3>1, GateAssumption
    <3>3. QED BY <3>1, <3>2, CallsMove
  <2>2. CASE request'[r].status = request[r].status /\ request'[r].decidedBy = request[r].decidedBy
    BY <2>2 DEF FailOpenWasAsked, Asked
  <2>3. CASE GateTransition
    <3>1. PICK S \in SUBSET Requests, status \in Terminal,
               actor \in Principals \cup {SystemTimeout} :
            /\ TransitionPending(S, status, now, actor)
            /\ status = "approved" => \A s \in S : Asked(s)
      BY <2>3 DEF GateTransition
    <3>2. CASE r \in S /\ Pending(r)
      <4>1. request'[r] = Settled(request[r], status, now, actor)
        BY <3>1, <3>2 DEF TransitionPending
      <4>2. request'[r].status = status
        BY <2>0, <4>1 DEF Settled, Row
      <4>3. QED BY <3>1, <3>2, <4>2
    <3>3. CASE ~(r \in S /\ Pending(r))
      BY <2>2, <3>1, <3>3 DEF TransitionPending
    <3>4. QED BY <3>2, <3>3
  <2>4. CASE Insertion
    <3>1. PICK s \in Requests, requester \in Requesters, approver \in Approvers,
               key \in Keys \cup {NoKey}, payload \in Payloads, e \in Nat,
               upstream \in Upstreams :
                 Insert(s, requester, approver, key, payload, e, upstream)
      BY <2>4 DEF Insertion
    <3>2. r # s
      BY <2>0, <3>1 DEF Insert
    <3>3. QED BY <2>0, <2>2, <3>1, <3>2 DEF Insert
  <2>5. CASE Decision
    <3>1. PICK s \in Requests, p \in Principals, decision \in {"approved", "denied"}, t \in Nat :
                 request' = [request EXCEPT ![s] = Settled(@, decision, t, p)]
      BY <2>5, DecisionSettles
    <3>2. p # SystemTimeout
      BY StoreAssumption
    <3>3. r # s
      BY <2>0, <3>1, <3>2 DEF Settled, Row
    <3>4. QED BY <2>0, <2>2, <3>1, <3>3
  <2>6. CASE Claiming
    <3>1. PICK s \in Requests, p \in Principals :
                 request' = [request EXCEPT ![s].claimedBy = p]
      BY <2>6, Zenon DEF Claiming
    <3>2. QED BY <2>0, <2>2, <3>1 DEF Row
  <2>7. CASE UNCHANGED tables \/ Dispatch
    BY <2>2, <2>7 DEF tables, Dispatch
  <2>8. QED BY <2>0, <2>3, <2>4, <2>5, <2>6, <2>7 DEF GateForm
<1>3. QED BY <1>1, <1>2, GateCorrect, PTL DEF GateSpec

--------------------------------------------------------------------------
(* What ApprovalStoreProofs proves per form holds of the gate too.         *)

\* The calls of the gate, too, use an idempotency key for one request only.
THEOREM GateUniqueKeys == GateSpec => []KeyNamesOneRequest
<1>1. GateInit => KeyNamesOneRequest
  BY DEF GateInit, Init, KeyNamesOneRequest, Exists, AbsentRow
<1>2. GateInv /\ KeyNamesOneRequest /\ [GateNext]_gateVars => KeyNamesOneRequest'
  BY GateForms, FormUniqueKeys DEF GateInv, GateTypeOK
<1>3. QED BY <1>1, <1>2, GateCorrect, PTL DEF GateSpec

\* Under the gate's concurrent calls a request lives the abstract life cycle.
THEOREM GateImplementsLifecycle == GateSpec => ImplementsLifecycle
<1>1. GateInit => Lifecycle!Init
  BY InitRefines DEF GateInit
<1>2. GateInv /\ [GateNext]_gateVars => [Lifecycle!Next]_(Lifecycle!vars)
  BY GateForms, FormRefines DEF GateInv, GateTypeOK
<1>3. QED BY <1>1, <1>2, GateCorrect, PTL DEF GateSpec, ImplementsLifecycle, Lifecycle!Spec

\* The log of a request tells its row while the gate records dispatches.
THEOREM GateFaithfulLog == GateSpec => []LogTellsTheRow
<1>1. GateInit => OpInv /\ LogTellsTheRow
  BY InitTells DEF GateInit
<1>2. GateInv /\ OpInv /\ LogTellsTheRow /\ [GateNext]_gateVars => OpInv' /\ LogTellsTheRow'
  <2> SUFFICES ASSUME GateInv, OpInv, LogTellsTheRow, [GateNext]_gateVars
               PROVE  OpInv' /\ LogTellsTheRow'
    OBVIOUS
  <2>1. TypeOK /\ RowInv /\ Form /\ op' = op /\ op \in [Handles -> Ops]
    BY GateForms DEF GateInv, GateTypeOK, TypeOK
  <2>2. OpInv'
    <3> SUFFICES ASSUME NEW h \in Handles, op[h].kind = "dispatch"
                 PROVE  request'[op[h].id].status # "absent"
      BY <2>1 DEF OpInv, Exists
    <3>1. op[h].id \in Requests /\ Exists(op[h].id)
      BY <2>1 DEF OpInv, Ops, Idle
    <3>2. QED BY <2>1, <3>1, BirthKept DEF Exists
  <2>3. QED BY <2>1, <2>2, FormTells
<1>3. QED BY <1>1, <1>2, GateCorrect, PTL DEF GateSpec

--------------------------------------------------------------------------
(* The proxy.                                                              *)

Stages == Over \cup {"new", "holding", "cleared", "calling"}
Reasons == Terminal \cup {"pipeline", "policy", "claimed", "none", "error"}
AuditRecord == [decision: {"allow", "deny"}, reason: Reasons]

--------------------------------------------------------------------------
(* The proxy uses the gate as the gate is meant to be used.                *)

LEMMA ProxyInitIsGateInit == ProxyInit => GateInit
BY DEF ProxyInit

LEMMA HoldIsCallStep == ASSUME NEW c \in Calls, Hold(c) PROVE CallStep(c)
BY DEF Hold, CallStep

LEMMA ProxyStepIsGateStep == [ProxyNext]_proxyVars => [GateNext]_gateVars
<1> SUFFICES ASSUME [ProxyNext]_proxyVars PROVE [GateNext]_gateVars
  OBVIOUS
<1>1. CASE UNCHANGED proxyVars
  BY <1>1 DEF proxyVars
<1>2. ASSUME NEW c \in Calls, ProxyStep(c) PROVE [GateNext]_gateVars
  <2>1. CASE Hold(c)
    BY <2>1, HoldIsCallStep DEF GateNext
  <2>2. CASE Enforce(c)
    BY <2>2 DEF Enforce, CallStep, GateNext
  <2>3. CASE Arrive(c) \/ Invoke(c) \/ Return(c)
    BY <2>3 DEF Arrive, Invoke, Return
  <2>4. QED BY <1>2, <2>1, <2>2, <2>3 DEF ProxyStep
<1>3. CASE \E S \in SUBSET Calls : CrashProxy(S)
  BY <1>3 DEF CrashProxy, GateNext
<1>4. CASE World
  BY <1>4 DEF World, GateNext
<1>5. QED BY <1>1, <1>2, <1>3, <1>4 DEF ProxyNext

\* Every behaviour of the proxy is one of the gate: handleToolCall() calls
\* holdRequest() and claimExecution() in no way ApprovalGate leaves out.
THEOREM ProxyImplementsGate == ProxySpec => GateSpec
BY ProxyInitIsGateInit, ProxyStepIsGateStep, PTL DEF ProxySpec, GateSpec

--------------------------------------------------------------------------
(* The stage invariant.                                                    *)

\* What a denial was recorded with is the result of the call of the gate.
Grounds(c, reason) ==
  /\ reason \in Terminal => call[c].pc = "refused" /\ call[c].status = reason
  /\ reason = "claimed" => call[c].pc = "refused" /\ request[call[c].id].claimedBy # None

StageInv(c) ==
  /\ stage[c] # "new" => wants[c] \in Inputs
  /\ call[c].pc # "idle" => stage[c] # "new" /\ NeedsApproval(c) /\ call[c].input = wants[c]
  /\ stage[c] = "holding" => NeedsApproval(c)
  /\ stage[c] \in {"cleared", "calling"} \/ c \in invoked =>
       /\ stage[c] # "new"
       /\ Evaluate(wants[c].payload) # "deny"
       /\ NeedsApproval(c) => call[c].pc = "released"
  /\ c \in invoked => stage[c] \in {"calling", "done", "failed", "crashed"}
  /\ stage[c] \in {"calling", "done"} => c \in invoked
  /\ stage[c] = "denied" =>
       \E reason \in Reasons :
         audit[c] = <<[decision |-> "deny", reason |-> reason]>> /\ Grounds(c, reason)
  /\ c \in invoked /\ stage[c] \in {"done", "failed"} =>
       \E reason \in {"none", "error"} :
         audit[c] = <<[decision |-> "allow", reason |-> reason]>>
  /\ stage[c] # "denied" /\ ~(c \in invoked /\ stage[c] \in {"done", "failed"}) =>
       audit[c] = <<>>

ProxyTyped ==
  /\ stage \in [Calls -> Stages]
  /\ wants \in [Calls -> Inputs \cup {None}]
  /\ audit \in [Calls -> Seq(AuditRecord)]
  /\ invoked \subseteq Calls

ProxyInv == GateInv /\ ProxyTyped /\ \A c \in Calls : StageInv(c)

\* A call that is over at the gate stays where it was; others only move on.
SameCall(c) ==
  /\ call'[c].id = call[c].id /\ call'[c].input = call[c].input
  /\ \/ call'[c].pc = call[c].pc /\ call'[c].status = call[c].status
     \/ call[c].pc \notin Finished \cup {"idle"} /\ call'[c].pc = "crashed"

\* The proxy's records of c stay; its process may die.
SameRecords(c) ==
  /\ stage'[c] = stage[c] \/ (stage[c] \notin Over \cup {"new"} /\ stage'[c] = "crashed")
  /\ wants'[c] = wants[c] /\ audit'[c] = audit[c] /\ (c \in invoked' <=> c \in invoked)

LEMMA GroundsKept ==
  ASSUME GateInv, [GateNext]_gateVars, NEW c \in Calls, SameCall(c), NEW reason,
         Grounds(c, reason)
  PROVE  Grounds(c, reason)'
<1>1. reason \in Terminal => call'[c].pc = "refused" /\ call'[c].status = reason
  BY DEF Grounds, SameCall, Finished
<1>2. ASSUME reason = "claimed"
      PROVE  call'[c].pc = "refused" /\ request'[call'[c].id].claimedBy # None
  <2>1. call[c].pc = "refused" /\ request[call[c].id].claimedBy # None
    BY <1>2 DEF Grounds
  <2>2. call[c].id # None /\ call[c].id \in Requests /\ TypeOK /\ RowInv
    BY <2>1, CallFacts DEF CallInv, Answered
  <2>3. Keeps(call[c].id)
    BY <2>2, GateForms, FormKeeps
  <2>4. QED BY <2>1, <2>3 DEF Keeps, SameCall, Finished
<1>3. QED BY <1>1, <1>2 DEF Grounds

LEMMA StageKept ==
  ASSUME GateInv, [GateNext]_gateVars, NEW c \in Calls, StageInv(c), SameCall(c), SameRecords(c)
  PROVE  StageInv(c)'
<1>1. NeedsApproval(c)' <=> NeedsApproval(c)
  BY DEF SameRecords, NeedsApproval
<1>2. ASSUME stage'[c] = "denied"
      PROVE  \E reason \in Reasons :
               audit'[c] = <<[decision |-> "deny", reason |-> reason]>> /\ Grounds(c, reason)'
  <2>1. PICK reason \in Reasons :
          audit[c] = <<[decision |-> "deny", reason |-> reason]>> /\ Grounds(c, reason)
    BY <1>2 DEF StageInv, SameRecords
  <2>2. Grounds(c, reason)'
    BY <2>1, GroundsKept
  <2>3. QED BY <2>1, <2>2 DEF SameRecords
<1>3. CASE stage'[c] = stage[c]
  BY <1>1, <1>2, <1>3 DEF StageInv, SameRecords, SameCall, Finished
<1>4. CASE stage[c] \notin Over \cup {"new"} /\ stage'[c] = "crashed"
  BY <1>1, <1>2, <1>4 DEF StageInv, SameRecords, SameCall, Finished, Over
<1>5. QED BY <1>3, <1>4 DEF SameRecords

--------------------------------------------------------------------------
(* One lemma per step of the proxy.                                        *)

\* What a step of call c leaves of the other calls.
OthersStay(c) ==
  \A d \in Calls \ {c} : SameCall(d) /\ SameRecords(d)

\* The stage invariant after a step of c, as far as it concerns c.
Moves(c) == ProxyTyped' /\ StageInv(c)' /\ OthersStay(c)

LEMMA ProxyFacts ==
  ASSUME ProxyInv, NEW c \in Calls
  PROVE  /\ GateInv /\ ProxyTyped /\ StageInv(c)
         /\ call \in [Calls -> CallRecord] /\ call[c] \in CallRecord
         /\ CallInv(call[c], request)
BY CallFacts DEF ProxyInv

LEMMA DenyMoves ==
  ASSUME ProxyTyped, NEW c \in Calls, audit[c] = <<>>, NEW reason \in Reasons, Deny(c, reason)
  PROVE  /\ stage' \in [Calls -> Stages] /\ audit' \in [Calls -> Seq(AuditRecord)]
         /\ stage'[c] = "denied"
         /\ audit'[c] = <<[decision |-> "deny", reason |-> reason]>>
         /\ \A d \in Calls \ {c} : stage'[d] = stage[d] /\ audit'[d] = audit[d]
<1> DEFINE rec == [decision |-> "deny", reason |-> reason]
<1>1. rec \in AuditRecord
  BY DEF AuditRecord
<1>2. stage' = [stage EXCEPT ![c] = "denied"] /\ audit' = [audit EXCEPT ![c] = Append(@, rec)]
  BY DEF Deny, Enter, RecordAudit
<1> HIDE DEF rec
<1>3. Append(audit[c], rec) = <<rec>> /\ <<rec>> \in Seq(AuditRecord)
  BY <1>1
<1>4. "denied" \in Stages
  BY DEF Stages, Over
<1>5. QED BY <1>2, <1>3, <1>4 DEF ProxyTyped, rec

LEMMA ArriveMoves == ASSUME ProxyInv, NEW c \in Calls, Arrive(c) PROVE Moves(c)
<1>1. PICK in \in Inputs :
        /\ stage[c] = "new"
        /\ wants' = [wants EXCEPT ![c] = in]
        /\ Refuse(c, in) \/ Apply(c, in)
        /\ UNCHANGED <<gateVars, invoked>>
  BY DEF Arrive
<1>2. /\ ProxyTyped /\ StageInv(c) /\ call' = call /\ request' = request /\ invoked' = invoked
      /\ call[c].pc = "idle" /\ c \notin invoked /\ audit[c] = <<>>
  BY <1>1, ProxyFacts DEF gateVars, vars, StageInv
<1>3. wants' \in [Calls -> Inputs \cup {None}] /\ wants'[c] = in
        /\ \A d \in Calls \ {c} : wants'[d] = wants[d]
  BY <1>1, <1>2 DEF ProxyTyped
<1>4. NeedsApproval(c)' <=> Evaluate(in.payload) = "require_approval"
  BY <1>3 DEF NeedsApproval
<1>5. ASSUME NEW reason \in {"pipeline", "policy"}, Deny(c, reason) PROVE Moves(c)
  <2>1. reason \in Reasons /\ reason \notin Terminal \cup {"claimed"}
    BY DEF Reasons, Terminal
  <2>2. /\ stage' \in [Calls -> Stages] /\ audit' \in [Calls -> Seq(AuditRecord)]
        /\ stage'[c] = "denied"
        /\ audit'[c] = <<[decision |-> "deny", reason |-> reason]>>
        /\ \A d \in Calls \ {c} : stage'[d] = stage[d] /\ audit'[d] = audit[d]
    BY <1>2, <1>5, <2>1, DenyMoves
  <2>3. Grounds(c, reason)'
    BY <2>1 DEF Grounds
  <2>4. StageInv(c)'
    BY <1>1, <1>2, <1>3, <2>1, <2>2, <2>3 DEF StageInv
  <2>5. QED BY <1>2, <1>3, <2>2, <2>4 DEF Moves, ProxyTyped, OthersStay, SameCall, SameRecords
<1>6. ASSUME NEW next \in {"cleared", "holding", "failed"}, Enter(c, next), audit' = audit,
             next = "cleared" => Evaluate(in.payload) \in {"allow", "transform"},
             next = "holding" => Evaluate(in.payload) = "require_approval"
      PROVE  Moves(c)
  <2>1. /\ stage' \in [Calls -> Stages] /\ stage'[c] = next
        /\ \A d \in Calls \ {c} : stage'[d] = stage[d]
    BY <1>2, <1>6 DEF Enter, Stages, Over, ProxyTyped
  <2>2. StageInv(c)'
    BY <1>1, <1>2, <1>3, <1>4, <1>6, <2>1 DEF StageInv
  <2>3. QED BY <1>2, <1>3, <1>6, <2>1, <2>2
               DEF Moves, ProxyTyped, OthersStay, SameCall, SameRecords
<1>7. Refuse(c, in) => Deny(c, "pipeline")
  BY DEF Refuse
<1>8. ASSUME Apply(c, in)
      PROVE  \/ Deny(c, "policy")
             \/ \E next \in {"cleared", "holding", "failed"} :
                  /\ Enter(c, next) /\ audit' = audit
                  /\ next = "cleared" => Evaluate(in.payload) \in {"allow", "transform"}
                  /\ next = "holding" => Evaluate(in.payload) = "require_approval"
  BY <1>8 DEF Apply
<1>9. QED BY <1>1, <1>5, <1>6, <1>7, <1>8

\* A step of c at the gate leaves the other calls as they are.
LEMMA OthersAtGate ==
  ASSUME ProxyInv, NEW c \in Calls, CallStep(c)
  PROVE  \A d \in Calls \ {c} : call'[d] = call[d]
<1>1. PICK m : Effect(c, m)
  BY CallStepOf, ProxyFacts DEF StepOf
<1>2. QED BY <1>1, ProxyFacts DEF Effect

LEMMA HoldMoves == ASSUME ProxyInv, NEW c \in Calls, Hold(c) PROVE Moves(c)
<1>1. /\ ProxyTyped /\ StageInv(c) /\ GateInv /\ CallInv(call[c], request)
      /\ stage[c] = "holding" /\ NeedsApproval(c) /\ UNCHANGED <<wants, audit, invoked>>
  BY ProxyFacts DEF Hold, StageInv
<1>2. CallStep(c) /\ [GateNext]_gateVars
  BY HoldIsCallStep DEF GateNext
<1>3. PICK next \in {"failed", "holding"} : stage' = [stage EXCEPT ![c] = next]
  BY DEF Hold, Enter
<1>4. /\ stage' \in [Calls -> Stages] /\ stage'[c] = next
      /\ \A d \in Calls \ {c} : stage'[d] = stage[d]
  BY <1>1, <1>3 DEF ProxyTyped, Stages, Over
<1>5. call'[c].input = wants[c]
  <2>1. CASE Request(c) /\ call'[c].input = wants[c]
    BY <2>1
  <2>2. CASE Publish(c) \/ Published(c) \/ DeliveryFails(c) \/ CancelFailedDispatch(c) \/ Poll(c)
    <3>1. call[c].pc \in {"dispatching", "publishing", "cancelling", "waiting"}
      BY <2>2 DEF Publish, Published, DeliveryFails, CancelFailedDispatch,
                  Poll, TimeOutWait, AbortWait, SeeOutcome
    <3>2. call[c].id # None /\ call[c].input = wants[c]
      BY <1>1, <3>1 DEF CallInv, StageInv
    <3>3. QED BY <1>1, <1>2, <3>2, CallsMove
  <2>3. QED BY <2>1, <2>2 DEF Hold
<1>6. NeedsApproval(c)' /\ c \notin invoked /\ audit[c] = <<>>
  BY <1>1 DEF NeedsApproval, StageInv
<1>7. StageInv(c)'
  BY <1>1, <1>4, <1>5, <1>6 DEF StageInv
<1>8. OthersStay(c)
  BY <1>1, <1>2, <1>4, OthersAtGate DEF OthersStay, SameCall, SameRecords
<1>9. QED BY <1>1, <1>4, <1>7, <1>8 DEF Moves, ProxyTyped

LEMMA EnforceMoves == ASSUME ProxyInv, NEW c \in Calls, Enforce(c) PROVE Moves(c)
<1>1. /\ ProxyTyped /\ StageInv(c) /\ GateInv /\ CallInv(call[c], request)
      /\ call[c] \in CallRecord /\ call \in [Calls -> CallRecord]
      /\ stage[c] = "holding" /\ NeedsApproval(c) /\ UNCHANGED <<wants, invoked>>
      /\ Claim(c) /\ call[c].pc = "resolved"
  BY ProxyFacts DEF Enforce, Claim, StageInv
<1>2. CallStep(c) /\ [GateNext]_gateVars
  BY <1>1 DEF CallStep, GateNext
<1>3. NeedsApproval(c)' /\ c \notin invoked /\ audit[c] = <<>> /\ call[c].input = wants[c]
        /\ wants[c] \in Inputs
  BY <1>1 DEF NeedsApproval, StageInv
<1>4. PICK pc \in {"released", "refused"} : call' = [call EXCEPT ![c].pc = pc]
  BY <1>1, Zenon DEF Claim
<1>5. /\ call'[c].pc = pc /\ call'[c].id = call[c].id
      /\ call'[c].input = call[c].input /\ call'[c].status = call[c].status
  BY <1>1, <1>4 DEF CallRecord
<1>6. \A d \in Calls \ {c} : call'[d] = call[d]
  BY <1>1, <1>4
<1>7. CASE pc = "released"
  <2>1. stage' = [stage EXCEPT ![c] = "cleared"] /\ UNCHANGED audit
    BY <1>5, <1>7 DEF Enforce, MayProceed, Enter
  <2>2. /\ stage' \in [Calls -> Stages] /\ stage'[c] = "cleared"
        /\ \A d \in Calls \ {c} : stage'[d] = stage[d]
    BY <1>1, <2>1 DEF ProxyTyped, Stages, Over
  <2>3. StageInv(c)'
    BY <1>1, <1>3, <1>5, <1>7, <2>1, <2>2 DEF StageInv, NeedsApproval
  <2>4. QED BY <1>1, <1>6, <2>1, <2>2, <2>3
               DEF Moves, ProxyTyped, OthersStay, SameCall, SameRecords
<1>8. CASE pc = "refused"
  <2>1. /\ call[c].id # None /\ call[c].status \in Terminal
        /\ request[call[c].id].status = call[c].status
        /\ request[call[c].id].requester = call[c].input.requester
    BY <1>1 DEF CallInv, Answered, Served
  <2>2. PICK reason \in Reasons : Deny(c, reason) /\ reason = DenialReason(c)
    BY <1>5, <1>8, <2>1 DEF Enforce, MayProceed, DenialReason, Reasons
  <2>3. Grounds(c, reason)'
    <3>1. CASE call[c].status # "approved"
      BY <1>5, <1>8, <2>1, <2>2, <3>1 DEF Grounds, DenialReason, Terminal
    <3>2. CASE call[c].status = "approved"
      <4>1. request[call[c].id].claimedBy # None /\ request' = request
        BY <1>1, <1>5, <1>8, <2>1, <3>2 DEF Claim, vars
      <4>2. QED BY <1>5, <1>8, <2>2, <3>2, <4>1 DEF Grounds, DenialReason, Terminal
    <3>3. QED BY <3>1, <3>2
  <2>5. /\ stage' \in [Calls -> Stages] /\ audit' \in [Calls -> Seq(AuditRecord)]
        /\ stage'[c] = "denied"
        /\ audit'[c] = <<[decision |-> "deny", reason |-> reason]>>
        /\ \A d \in Calls \ {c} : stage'[d] = stage[d] /\ audit'[d] = audit[d]
    BY <1>1, <1>3, <2>2, DenyMoves
  <2>6. StageInv(c)'
    <3>1. \E q \in Reasons : audit'[c] = <<[decision |-> "deny", reason |-> q]>> /\ Grounds(c, q)'
      BY <2>3, <2>5
    <3>2. QED BY <1>1, <1>3, <1>5, <2>5, <3>1 DEF StageInv
  <2>7. QED BY <1>1, <1>6, <2>5, <2>6 DEF Moves, ProxyTyped, OthersStay, SameCall, SameRecords
<1>9. QED BY <1>7, <1>8

LEMMA InvokeMoves == ASSUME ProxyInv, NEW c \in Calls, Invoke(c) PROVE Moves(c)
<1>1. /\ ProxyTyped /\ StageInv(c)
      /\ stage[c] = "cleared" /\ invoked' = invoked \cup {c}
      /\ stage' = [stage EXCEPT ![c] = "calling"]
      /\ call' = call /\ wants' = wants /\ audit' = audit
  BY ProxyFacts DEF Invoke, Enter, gateVars
<1>2. /\ stage' \in [Calls -> Stages] /\ stage'[c] = "calling"
      /\ \A d \in Calls \ {c} : stage'[d] = stage[d]
  BY <1>1 DEF ProxyTyped, Stages
<1>3. NeedsApproval(c)' <=> NeedsApproval(c)
  BY <1>1 DEF NeedsApproval
<1>4. StageInv(c)'
  BY <1>1, <1>2, <1>3 DEF StageInv
<1>5. QED BY <1>1, <1>2, <1>4 DEF Moves, ProxyTyped, OthersStay, SameCall, SameRecords

LEMMA ReturnMoves == ASSUME ProxyInv, NEW c \in Calls, Return(c) PROVE Moves(c)
<1>1. /\ ProxyTyped /\ StageInv(c)
      /\ stage[c] = "calling" /\ c \in invoked /\ audit[c] = <<>>
      /\ call' = call /\ wants' = wants /\ invoked' = invoked
  BY ProxyFacts DEF Return, gateVars, StageInv
<1>2. PICK next \in {"done", "failed"}, reason \in {"none", "error"} :
        Enter(c, next) /\ RecordAudit(c, "allow", reason)
  BY DEF Return
<1> DEFINE rec == [decision |-> "allow", reason |-> reason]
<1>3. rec \in AuditRecord
  BY DEF AuditRecord, Reasons
<1>4. stage' = [stage EXCEPT ![c] = next] /\ audit' = [audit EXCEPT ![c] = Append(@, rec)]
  BY <1>2 DEF Enter, RecordAudit
<1> HIDE DEF rec
<1>5. /\ stage' \in [Calls -> Stages] /\ stage'[c] = next
      /\ audit' \in [Calls -> Seq(AuditRecord)] /\ audit'[c] = <<rec>>
      /\ \A d \in Calls \ {c} : stage'[d] = stage[d] /\ audit'[d] = audit[d]
  BY <1>1, <1>3, <1>4 DEF ProxyTyped, Stages, Over
<1>6. NeedsApproval(c)' <=> NeedsApproval(c)
  BY <1>1 DEF NeedsApproval
<1>7. \E q \in {"none", "error"} : audit'[c] = <<[decision |-> "allow", reason |-> q]>>
  BY <1>5 DEF rec
<1>8. StageInv(c)'
  BY <1>1, <1>5, <1>6, <1>7 DEF StageInv
<1>9. QED BY <1>1, <1>5, <1>8 DEF Moves, ProxyTyped, OthersStay, SameCall, SameRecords

LEMMA CrashMoves ==
  ASSUME ProxyInv, NEW S \in SUBSET Calls, CrashProxy(S)
  PROVE  ProxyTyped' /\ \A c \in Calls : SameCall(c) /\ SameRecords(c)
<1>1. ProxyTyped /\ UNCHANGED <<wants, audit, invoked>> /\ GateInv /\ CrashProcess(S)
  BY DEF CrashProxy, ProxyInv
<1>2. ASSUME NEW c \in Calls
      PROVE  /\ stage'[c] \in Stages
             /\ stage'[c] = stage[c] \/ (stage[c] \notin Over \cup {"new"} /\ stage'[c] = "crashed")
  BY <1>1 DEF CrashProxy, ProxyTyped, Stages, Over
<1>3. stage' \in [Calls -> Stages]
  <2>1. stage' = [c \in Calls |-> stage'[c]]
    BY Zenon DEF CrashProxy
  <2>2. QED BY <1>2, <2>1
<1>4. ASSUME NEW c \in Calls PROVE SameCall(c)
  <2>1. call[c] \in CallRecord
    BY ProxyFacts
  <2>2. \/ call'[c] = call[c]
        \/ /\ call[c].pc \notin Finished \cup {"idle"}
           /\ call'[c] = [call[c] EXCEPT !.pc = "crashed"]
    BY <1>1, Zenon DEF CrashProcess
  <2>3. QED BY <2>1, <2>2 DEF SameCall, CallRecord
<1>5. QED BY <1>1, <1>2, <1>3, <1>4 DEF ProxyTyped, SameRecords

LEMMA WorldMoves ==
  ASSUME ProxyInv, World
  PROVE  ProxyTyped' /\ \A c \in Calls : SameCall(c) /\ SameRecords(c)
<1>1. call' = call
  BY ProxyFacts, AnswerStep, WithdrawStep, SweepStep, TimeStep DEF World, ProxyInv
<1>2. UNCHANGED <<stage, wants, audit, invoked>>
  BY DEF World
<1>3. QED BY <1>1, <1>2 DEF ProxyInv, ProxyTyped, SameCall, SameRecords

--------------------------------------------------------------------------
LEMMA ProxyInvInit == ProxyInit => ProxyInv
<1> SUFFICES ASSUME ProxyInit PROVE ProxyInv
  OBVIOUS
<1>1. GateInv
  BY ProxyInitIsGateInit, GateInvInit
<1>2. ProxyTyped
  BY DEF ProxyInit, ProxyTyped, Stages
<1>3. ASSUME NEW c \in Calls PROVE StageInv(c)
  BY DEF ProxyInit, GateInit, NoCall, StageInv
<1>4. QED BY <1>1, <1>2, <1>3 DEF ProxyInv

LEMMA ProxyInvStep == ProxyInv /\ [ProxyNext]_proxyVars => ProxyInv'
<1> SUFFICES ASSUME ProxyInv, [ProxyNext]_proxyVars PROVE ProxyInv'
  OBVIOUS
<1>1. [GateNext]_gateVars /\ GateInv /\ GateInv'
  BY ProxyStepIsGateStep, GateInvStep DEF ProxyInv
<1>2. ASSUME NEW c \in Calls, ProxyStep(c)
      PROVE  Moves(c)
  BY <1>2, ArriveMoves, HoldMoves, EnforceMoves, InvokeMoves, ReturnMoves DEF ProxyStep
<1>3. ASSUME NEW c \in Calls, SameCall(c), SameRecords(c) PROVE StageInv(c)'
  BY <1>1, <1>3, StageKept DEF ProxyInv
<1>4. CASE \E c \in Calls : ProxyStep(c)
  <2>1. PICK c \in Calls : ProxyStep(c)
    BY <1>4
  <2>2. QED BY <1>1, <1>2, <1>3, <2>1 DEF Moves, OthersStay, ProxyInv
<1>5. CASE \E S \in SUBSET Calls : CrashProxy(S)
  BY <1>1, <1>3, <1>5, CrashMoves DEF ProxyInv
<1>6. CASE World
  BY <1>1, <1>3, <1>6, WorldMoves DEF ProxyInv
<1>7. CASE UNCHANGED proxyVars
  <2>1. ProxyTyped' /\ \A c \in Calls : SameCall(c) /\ SameRecords(c)
    BY <1>7 DEF proxyVars, gateVars, ProxyInv, ProxyTyped, SameCall, SameRecords
  <2>2. QED BY <1>1, <1>3, <2>1 DEF ProxyInv
<1>8. QED BY <1>4, <1>5, <1>6, <1>7 DEF ProxyNext

\* The handler's stage, the gate's call and the audit log agree at all times.
LEMMA ProxyCorrect == ProxySpec => []ProxyInv
BY ProxyInvInit, ProxyInvStep, PTL DEF ProxySpec

--------------------------------------------------------------------------
(* Theorems                                                                *)

\* The proxy is type correct.
THEOREM ProxyTypeCorrect == ProxySpec => []ProxyTypeOK
<1>1. ProxyInv => ProxyTypeOK
  BY DEF ProxyInv, ProxyTyped, GateInv, ProxyTypeOK, Stages, AuditRecord, Reasons
<1>2. QED BY <1>1, ProxyCorrect, PTL

\* Two invocations of the upstream server never ran on one approval.
THEOREM ApprovalsAreSpentOnce == ProxySpec => []OneInvocationPerApproval
<1>1. ProxyInv /\ OneReleasePerRequest => OneInvocationPerApproval
  BY DEF ProxyInv, ProxyTyped, StageInv, OneReleasePerRequest, OneInvocationPerApproval
<1>2. QED BY <1>1, ProxyCorrect, ProxyImplementsGate, SingleRelease, PTL

\* Whatever was invoked no rule denied, and what needs approval had it.
THEOREM InvocationsAreRightful == ProxySpec => []InvokedByRight
<1>1. ProxyInv /\ ReleasedAsApproved => InvokedByRight
  BY DEF ProxyInv, ProxyTyped, StageInv, ReleasedAsApproved, InvokedByRight
<1>2. QED BY <1>1, ProxyCorrect, ProxyImplementsGate, ReleasesAreApproved, PTL

\* The audit log agrees with the upstream server and the approval tables.
THEOREM AuditIsTruthful == ProxySpec => []AuditTellsTheCall
<1>1. ProxyInv /\ ResultIsFinal => AuditTellsTheCall
  <2> SUFFICES ASSUME ProxyInv, ResultIsFinal, NEW c \in Calls
               PROVE  /\ Len(audit[c]) <= 1
                      /\ audit[c] # <<>> => (audit[c][1].decision = "allow") = (c \in invoked)
                      /\ c \in invoked /\ stage[c] \notin {"calling", "crashed"} => audit[c] # <<>>
                      /\ audit[c] # <<>> =>
                           /\ audit[c][1].reason \in Terminal =>
                                request[call[c].id].status = audit[c][1].reason
                           /\ audit[c][1].reason = "claimed" =>
                                request[call[c].id].claimedBy # None
    BY DEF AuditTellsTheCall
  <2>1. StageInv(c) /\ stage[c] \in Stages
    BY DEF ProxyInv, ProxyTyped
  <2>2. CASE audit[c] = <<>>
    BY <2>1, <2>2 DEF StageInv
  <2>3. CASE stage[c] = "denied"
    <3>1. PICK reason \in Reasons :
            audit[c] = <<[decision |-> "deny", reason |-> reason]>> /\ Grounds(c, reason)
      BY <2>1, <2>3 DEF StageInv
    <3>2. /\ Len(audit[c]) = 1 /\ audit[c] # <<>>
          /\ audit[c][1].decision = "deny" /\ audit[c][1].reason = reason
      BY <3>1
    <3>3. c \notin invoked
      BY <2>1, <2>3 DEF StageInv
    <3>4. /\ reason \in Terminal => request[call[c].id].status = reason
          /\ reason = "claimed" => request[call[c].id].claimedBy # None
      BY <3>1 DEF Grounds, ResultIsFinal
    <3>5. QED BY <3>2, <3>3, <3>4
  <2>4. CASE c \in invoked /\ stage[c] \in {"done", "failed"}
    <3>1. PICK reason \in {"none", "error"} :
            audit[c] = <<[decision |-> "allow", reason |-> reason]>>
      BY <2>1, <2>4 DEF StageInv
    <3>2. /\ Len(audit[c]) = 1 /\ audit[c] # <<>>
          /\ audit[c][1].decision = "allow" /\ audit[c][1].reason = reason
      BY <3>1
    <3>3. QED BY <2>4, <3>2 DEF Terminal
  <2>5. CASE stage[c] # "denied" /\ ~(c \in invoked /\ stage[c] \in {"done", "failed"})
    BY <2>1, <2>2, <2>5 DEF StageInv
  <2>6. QED BY <2>3, <2>4, <2>5
<1>2. QED BY <1>1, ProxyCorrect, ProxyImplementsGate, FinalResults, PTL
=============================================================================
