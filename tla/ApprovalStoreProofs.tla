----------------------- MODULE ApprovalStoreProofs -----------------------
(***************************************************************************)
(* Theorems about ApprovalStore, for every set of requests, principals,    *)
(* keys and handles, every clock bound and both timeout policies.          *)
(*                                                                         *)
(* A step of Next does one of five things to the tables (lemma StepForms): *)
(* nothing, a transition of pending rows, an insert, a decision, a claim,  *)
(* or the append of a dispatch event.  Each invariant is then proved once  *)
(* per form instead of once per operation.                                 *)
(***************************************************************************)
EXTENDS ApprovalStore, TLAPS

\* A transition the operations ask for: by a timeout, or by a party's cancel.
Transition ==
  \E S \in SUBSET Requests, status \in Terminal, t \in Nat,
     actor \in Principals \cup {SystemTimeout} :
    /\ TransitionPending(S, status, t, actor)
    /\ \/ status = "expired" /\ actor = SystemTimeout
       \/ status = "approved" /\ actor = SystemTimeout /\ AllowFailOpenTimeout
       \/ /\ status = "cancelled"
          /\ actor # SystemTimeout
          /\ \E r \in S : S = {r} /\ actor \in {request[r].requester, request[r].approver}

Insertion ==
  \E r \in Requests, requester \in Requesters, approver \in Approvers,
     key \in Keys \cup {NoKey}, payload \in Payloads, e \in Nat,
     upstream \in Upstreams :
    /\ SameKey(requester, key) = {}
    /\ Insert(r, requester, approver, key, payload, e, upstream)

Decision ==
  \E r \in Requests, p \in Principals, decision \in {"approved", "denied"}, t \in Nat :
    /\ Pending(r)
    /\ CapabilityAccepts(r, p, t)
    /\ request' = [request EXCEPT ![r] = Settled(@, decision, t, p)]
    /\ capability' = [capability EXCEPT ![r].usedAt = t]
    /\ log' = [log EXCEPT ![r] = Append(@, Event(decision, p))]

Claiming ==
  \E r \in Requests, p \in Principals :
    /\ request[r].status = "approved"
    /\ request[r].requester = p
    /\ request[r].claimedBy = None
    /\ request' = [request EXCEPT ![r].claimedBy = p]
    /\ log' = [log EXCEPT ![r] = Append(@, Event("execution_claimed", p))]
    /\ UNCHANGED capability

Dispatch ==
  \E r \in Requests, type \in {"dispatched", "dispatch_failed"} :
    /\ Pending(r) \/ \E h \in Handles : op[h].kind = "dispatch" /\ op[h].id = r
    /\ log' = [log EXCEPT ![r] = Append(@, Event(type, None))]
    /\ UNCHANGED <<request, capability>>

\* What Next may do to the tables.
Form == UNCHANGED tables \/ Transition \/ Insertion \/ Decision \/ Claiming \/ Dispatch

LEMMA StepForms ==
  ASSUME now \in Times, op \in [Handles -> Ops], [Next]_vars
  PROVE  Form
<1> USE StoreAssumption DEF Times, Terminal
<1>1. CASE UNCHANGED vars \/ Tick
  BY <1>1 DEF Form, vars, Tick, tables
<1>2. ASSUME NEW r \in Requests, NEW t \in Nat, ExpireRowIfDue(r, t)
      PROVE  Transition
  BY <1>2 DEF ExpireRowIfDue, Transition
<1>3. CASE Create
  <2>1. PICK requester \in Requesters, approver \in Approvers, key \in Keys \cup {NoKey},
             payload \in Payloads, timeout \in Timeouts, upstream \in Upstreams, t \in Times :
               CreateOrReuse(requester, approver, key, payload, timeout, upstream, t)
    BY <1>3 DEF Create
  <2>2. CASE \E r \in SameKey(requester, key) : Reuse(r, approver, payload, upstream)
    <3>1. PICK r \in SameKey(requester, key) : Reuse(r, approver, payload, upstream)
      BY <2>2
    <3>2. r \in Requests /\ Transition
      BY <3>1, <1>2 DEF Reuse, SameKey
    <3>3. QED BY <3>2 DEF Form
  <2>3. CASE /\ SameKey(requester, key) = {}
             /\ \E r \in Requests :
                  Insert(r, requester, approver, key, payload, t + timeout, upstream)
    <3>1. t + timeout \in Nat
      OBVIOUS
    <3>2. Insertion
      BY <2>3, <3>1 DEF Insertion
    <3>3. QED BY <3>2 DEF Form
  <2>4. QED BY <2>1, <2>2, <2>3 DEF CreateOrReuse
<1>4. ASSUME NEW r \in Requests, Settle(r)
      PROVE  Form
  <2>1. PICK t \in Times, p \in Principals :
               \/ Decide(r, p, "approved", t)
               \/ Decide(r, p, "denied", t)
               \/ Cancel(r, p, t)
               \/ ClaimExecution(r, p, t)
    BY <1>4 DEF Settle
  <2>2. CASE Decide(r, p, "approved", t)
    <3>1. CASE ExpireRowIfDue(r, t)
      BY <3>1, <1>2 DEF Form
    <3>2. CASE ~ExpireRowIfDue(r, t)
      <4>1. t \in Nat /\ "approved" \in {"approved", "denied"}
        OBVIOUS
      <4>2. Decision
        BY <2>2, <3>2, <4>1, Zenon DEF Decide, Decision
      <4>3. QED BY <4>2 DEF Form
    <3>3. QED BY <3>1, <3>2
  <2>3. CASE Decide(r, p, "denied", t)
    <3>1. CASE ExpireRowIfDue(r, t)
      BY <3>1, <1>2 DEF Form
    <3>2. CASE ~ExpireRowIfDue(r, t)
      <4>1. t \in Nat /\ "denied" \in {"approved", "denied"}
        OBVIOUS
      <4>2. Decision
        BY <2>3, <3>2, <4>1, Zenon DEF Decide, Decision
      <4>3. QED BY <4>2 DEF Form
    <3>3. QED BY <3>1, <3>2
  <2>4. CASE Cancel(r, p, t)
    <3>1. CASE ExpireRowIfDue(r, t)
      BY <3>1, <1>2 DEF Form
    <3>2. CASE /\ p \in {request[r].requester, request[r].approver}
               /\ TransitionPending({r}, "cancelled", t, p)
      <4>1. {r} \in SUBSET Requests /\ "cancelled" \in Terminal /\ t \in Nat
              /\ p # SystemTimeout
        BY DEF Principals
      <4>2. Transition
        BY <3>2, <4>1 DEF Transition
      <4>3. QED BY <4>2 DEF Form
    <3>3. QED BY <2>4, <3>1, <3>2 DEF Cancel
  <2>5. CASE ClaimExecution(r, p, t)
    BY <2>5, <1>2 DEF ClaimExecution, Claiming, Form
  <2>6. QED BY <2>1, <2>2, <2>3, <2>4, <2>5
<1>5. ASSUME NEW r \in Requests, TimeOut(r)
      PROVE  Form
  <2>1. PICK t \in Times, failOpen \in BOOLEAN : Expire(r, failOpen, t)
    BY <1>5 DEF TimeOut
  <2>2. CASE failOpen
    <3>1. TransitionPending({r}, "approved", t, SystemTimeout)
      BY <2>1, <2>2 DEF Expire
    <3>2. /\ {r} \in SUBSET Requests /\ t \in Nat
          /\ "approved" \in Terminal /\ "expired" \in Terminal
      OBVIOUS
    <3>3. failOpen => AllowFailOpenTimeout
      BY <2>1 DEF Expire
    <3>4. Transition
      BY <2>2, <3>1, <3>2, <3>3 DEF Transition
    <3>5. QED BY <3>4 DEF Form
  <2>3. CASE ~failOpen
    <3>1. TransitionPending({r}, "expired", t, SystemTimeout)
      BY <2>1, <2>3 DEF Expire
    <3>2. /\ {r} \in SUBSET Requests /\ t \in Nat
          /\ "approved" \in Terminal /\ "expired" \in Terminal
      OBVIOUS
    <3>3. failOpen => AllowFailOpenTimeout
      BY <2>1 DEF Expire
    <3>4. Transition
      BY <2>3, <3>1, <3>2, <3>3 DEF Transition
    <3>5. QED BY <3>4 DEF Form
  <2>4. QED BY <2>2, <2>3
<1>6. ASSUME NEW h \in Handles, HandleStep(h)
      PROVE  Form
  <2>1. CASE \/ \E t \in Times : SelectDue(h, t)
             \/ \E r \in Requests, type \in {"dispatched", "dispatch_failed"} :
                  RequirePending(h, r, type)
             \/ Crash(h)
    BY <2>1 DEF SelectDue, RequirePending, Crash, Form, tables
  <2>2. CASE ExpireDue(h)
    <3>1. op[h].ids \in SUBSET Requests /\ op[h].at \in Nat
      BY <2>2 DEF ExpireDue, Ops, Idle
    <3>2. QED BY <2>2, <3>1 DEF ExpireDue, Transition, Form
  <2>3. CASE RecordDispatch(h)
    <3>1. op[h].id \in Requests /\ op[h].type \in {"dispatched", "dispatch_failed"}
      BY <2>3 DEF RecordDispatch, Ops, Idle
    <3>2. QED BY <2>3, <3>1 DEF RecordDispatch, Dispatch, Form
  <2>4. QED BY <1>6, <2>1, <2>2, <2>3 DEF HandleStep
<1>7. QED BY <1>1, <1>3, <1>4, <1>5, <1>6 DEF Next

--------------------------------------------------------------------------
(* Types                                                                   *)

LEMMA InitTypeOK == Init => TypeOK
BY StoreAssumption
   DEF Init, TypeOK, Times, Row, AbsentRow, Capability, NoCapability, Events, Ops, Idle

LEMMA SettledType ==
  ASSUME NEW row \in Row, NEW status \in Terminal, NEW t \in Nat,
         NEW actor \in Principals \cup {SystemTimeout}
  PROVE  Settled(row, status, t, actor) \in Row
BY DEF Settled, Row

LEMMA ClaimedType ==
  ASSUME NEW row \in Row, NEW p \in Principals
  PROVE  [row EXCEPT !.claimedBy = p] \in Row
BY DEF Row

LEMMA LogType ==
  ASSUME log \in [Requests -> Seq(Events)], NEW r \in Requests,
         NEW type \in EventTypes, NEW actor \in Principals \cup {SystemTimeout, None}
  PROVE  Append(log[r], Event(type, actor)) \in Seq(Events)
<1>1. Event(type, actor) \in Events
  BY DEF Event, Events
<1>2. log[r] \in Seq(Events)
  OBVIOUS
<1>3. QED BY <1>1, <1>2

\* The tables keep their types whatever a step does to them.
LEMMA TablesTyped ==
  ASSUME TypeOK, Form
  PROVE  /\ request' \in [Requests -> Row]
         /\ capability' \in [Requests -> Capability]
         /\ log' \in [Requests -> Seq(Events)]
<1> USE StoreAssumption
<1>0. /\ request \in [Requests -> Row]
      /\ capability \in [Requests -> Capability]
      /\ log \in [Requests -> Seq(Events)]
  BY DEF TypeOK
<1>a. Terminal \subseteq EventTypes
  BY DEF EventTypes
<1>1. CASE UNCHANGED tables
  BY <1>0, <1>1 DEF tables
<1>2. CASE Transition
  <2>1. PICK S \in SUBSET Requests, status \in Terminal, t \in Nat,
             actor \in Principals \cup {SystemTimeout} :
               TransitionPending(S, status, t, actor)
    BY <1>2 DEF Transition
  <2>2. \A r \in Requests : Settled(request[r], status, t, actor) \in Row
    BY <1>0, SettledType
  <2>3. request' \in [Requests -> Row]
    BY <1>0, <2>1, <2>2 DEF TransitionPending
  <2>4. \A r \in Requests : Append(log[r], Event(status, actor)) \in Seq(Events)
    BY <1>0, <1>a, LogType
  <2>5. log' \in [Requests -> Seq(Events)]
    BY <1>0, <2>1, <2>4 DEF TransitionPending
  <2>6. QED BY <1>0, <2>1, <2>3, <2>5 DEF TransitionPending
<1>3. CASE Insertion
  <2>1. PICK r \in Requests, requester \in Requesters, approver \in Approvers,
             key \in Keys \cup {NoKey}, payload \in Payloads, e \in Nat,
             upstream \in Upstreams :
               Insert(r, requester, approver, key, payload, e, upstream)
    BY <1>3 DEF Insertion
  <2>2. Earlier(e, upstream) \in Nat
    BY DEF Earlier
  <2>3. request' \in [Requests -> Row]
    BY <1>0, <2>1, <2>2 DEF Insert, Row
  <2>4. capability' \in [Requests -> Capability]
    BY <1>0, <2>1, <2>2 DEF Insert, Capability
  <2>5. log[r] \in Seq(Events) /\ Event("created", requester) \in Events
          /\ Event("capability_issued", None) \in Events
    BY <1>0 DEF Event, Events, EventTypes, Principals
  <2>6. log[r] \o <<Event("created", requester), Event("capability_issued", None)>>
          \in Seq(Events)
    BY <2>5
  <2>7. log' \in [Requests -> Seq(Events)]
    BY <1>0, <2>1, <2>6, Zenon DEF Insert
  <2>8. QED BY <2>3, <2>4, <2>7
<1>4. CASE Decision
  <2>1. PICK r \in Requests, p \in Principals, decision \in {"approved", "denied"}, t \in Nat :
               /\ request' = [request EXCEPT ![r] = Settled(@, decision, t, p)]
               /\ capability' = [capability EXCEPT ![r].usedAt = t]
               /\ log' = [log EXCEPT ![r] = Append(@, Event(decision, p))]
    BY <1>4, Zenon DEF Decision
  <2>a. decision \in Terminal
    BY DEF Terminal
  <2>2. request' \in [Requests -> Row]
    BY <1>0, <2>1, <2>a, SettledType
  <2>3. capability' \in [Requests -> Capability]
    BY <1>0, <2>1 DEF Capability
  <2>4. Append(log[r], Event(decision, p)) \in Seq(Events)
    BY <1>0, <1>a, <2>a, LogType
  <2>5. log' \in [Requests -> Seq(Events)]
    BY <1>0, <2>1, <2>4, Zenon
  <2>6. QED BY <2>2, <2>3, <2>5
<1>5. CASE Claiming
  <2>1. PICK r \in Requests, p \in Principals :
               /\ request' = [request EXCEPT ![r].claimedBy = p]
               /\ log' = [log EXCEPT ![r] = Append(@, Event("execution_claimed", p))]
               /\ UNCHANGED capability
    BY <1>5, Zenon DEF Claiming
  <2>2. request' \in [Requests -> Row]
    BY <1>0, <2>1, ClaimedType
  <2>3. Append(log[r], Event("execution_claimed", p)) \in Seq(Events)
    BY <1>0, LogType DEF EventTypes
  <2>4. log' \in [Requests -> Seq(Events)]
    BY <1>0, <2>1, <2>3, Zenon
  <2>5. QED BY <1>0, <2>1, <2>2, <2>4
<1>6. CASE Dispatch
  <2>1. PICK r \in Requests, type \in {"dispatched", "dispatch_failed"} :
               /\ log' = [log EXCEPT ![r] = Append(@, Event(type, None))]
               /\ UNCHANGED <<request, capability>>
    BY <1>6, Zenon DEF Dispatch
  <2>2. type \in EventTypes
    BY DEF EventTypes
  <2>3. Append(log[r], Event(type, None)) \in Seq(Events)
    BY <1>0, <2>2, LogType
  <2>4. log' \in [Requests -> Seq(Events)]
    BY <1>0, <2>1, <2>3, Zenon
  <2>5. QED BY <1>0, <2>1, <2>4
<1>7. QED BY <1>1, <1>2, <1>3, <1>4, <1>5, <1>6 DEF Form

\* The clock and the handles are not tables; Next itself keeps their types.
LEMMA NextTypeOK == TypeOK /\ [Next]_vars => TypeOK'
<1> SUFFICES ASSUME TypeOK, [Next]_vars
             PROVE  TypeOK'
  OBVIOUS
<1> USE StoreAssumption DEF Times
<1>1. Form
  BY StepForms DEF TypeOK
<1>2. now' \in Times /\ op' \in [Handles -> Ops]
  <2>0. now \in Times /\ op \in [Handles -> Ops]
    BY DEF TypeOK
  <2>1. CASE UNCHANGED vars
    BY <2>0, <2>1 DEF vars
  <2>2. CASE Tick
    BY <2>0, <2>2 DEF Tick
  <2>3. CASE Create
    BY <2>0, <2>3 DEF Create, CreateOrReuse
  <2>4. CASE \E r \in Requests : Settle(r) \/ TimeOut(r)
    <3>1. now' = now /\ op' = op
      BY <2>4 DEF Settle, TimeOut, Decide, Cancel, ClaimExecution, Expire
    <3>2. QED BY <2>0, <3>1
  <2>5. ASSUME NEW h \in Handles, HandleStep(h)
        PROVE  now' = now /\ op' \in [Handles -> Ops]
    <3>1. CASE \E t \in Times : SelectDue(h, t)
      <4>1. PICK t \in Times : SelectDue(h, t)
        BY <3>1
      <4>2. [kind |-> "expireDue", ids |-> {r \in Requests : Due(r, t)}, at |-> t] \in Ops
        BY DEF Ops
      <4>3. QED BY <2>0, <4>1, <4>2 DEF SelectDue
    <3>2. CASE ExpireDue(h) \/ RecordDispatch(h) \/ Crash(h)
      BY <2>0, <3>2 DEF ExpireDue, RecordDispatch, Crash, Ops
    <3>3. CASE \E r \in Requests, type \in {"dispatched", "dispatch_failed"} :
                 RequirePending(h, r, type)
      BY <2>0, <3>3 DEF RequirePending, Ops
    <3>4. QED BY <2>5, <3>1, <3>2, <3>3 DEF HandleStep
  <2>6. QED BY <2>0, <2>1, <2>2, <2>3, <2>4, <2>5 DEF Next
<1>3. QED BY <1>1, <1>2, TablesTyped DEF TypeOK

\* Every reachable state of the store is well typed.
THEOREM TypeCorrect == Spec => []TypeOK
BY InitTypeOK, NextTypeOK, PTL DEF Spec

--------------------------------------------------------------------------
(* The row invariant: what ties a request, its capability and its author   *)
(* together.  ClaimNeedsApproval, CapabilitySpentByDecision and            *)
(* DecisionInTime are not inductive by themselves: a decision is in time   *)
(* only because the capability carries the expiry of its request, and a    *)
(* claim survives only because a settled row is never settled again.       *)

Opened(row, c) ==
  /\ row.requester \in Requesters
  /\ row.approver \in Approvers
  /\ row.expiresAt \in Nat
  /\ row.upstream # None => row.upstream \in Nat /\ row.expiresAt <= row.upstream
  /\ c.principal = row.approver
  /\ c.expiresAt = row.expiresAt

Unsettled(row, c) ==
  /\ row.decidedAt = None /\ row.decidedBy = None /\ row.claimedBy = None
  /\ c.usedAt = None

Author(row) ==
  \/ row.status \in {"approved", "denied"} /\ row.decidedBy = row.approver
  \/ row.status = "cancelled" /\ row.decidedBy \in {row.requester, row.approver}
  \/ row.status = "expired" /\ row.decidedBy = SystemTimeout
  \/ row.status = "approved" /\ row.decidedBy = SystemTimeout /\ AllowFailOpenTimeout

Spent(row, c) ==
  /\ c.usedAt # None =>
       /\ row.status \in {"approved", "denied"}
       /\ row.decidedBy = row.approver
       /\ row.decidedAt = c.usedAt
       /\ row.decidedAt \in Nat /\ row.decidedAt < row.expiresAt
  /\ row.status \in {"approved", "denied"} =>
       c.usedAt # None \/ (row.decidedBy = SystemTimeout /\ row.status = "approved")

Coherent(row, c) ==
  /\ row.status = "absent" => row = AbsentRow /\ c = NoCapability
  /\ row.status # "absent" => Opened(row, c)
  /\ row.status \in {"absent", "pending"} => Unsettled(row, c)
  /\ row.status \in Terminal => Author(row) /\ Spent(row, c)
  /\ row.claimedBy # None => row.status = "approved" /\ row.claimedBy = row.requester

RowInv == \A r \in Requests : Coherent(request[r], capability[r])

LEMMA InitRowInv == Init => RowInv
BY StoreAssumption
   DEF Init, RowInv, Coherent, AbsentRow, NoCapability, Unsettled, Terminal

\* Settling a pending row keeps it coherent, when the author is entitled to it.
LEMMA SettledCoherent ==
  ASSUME NEW row \in Row, NEW c \in Capability, Coherent(row, c),
         row.status = "pending", NEW status \in Terminal, NEW t \in Nat,
         NEW actor \in Principals \cup {SystemTimeout},
         \/ status = "expired" /\ actor = SystemTimeout
         \/ status = "approved" /\ actor = SystemTimeout /\ AllowFailOpenTimeout
         \/ status = "cancelled" /\ actor \in {row.requester, row.approver}
  PROVE  Coherent(Settled(row, status, t, actor), c)
BY StoreAssumption
   DEF Coherent, Settled, Row, Capability, Opened, Unsettled, Author, Spent, Terminal, Principals

LEMMA DecidedCoherent ==
  ASSUME NEW row \in Row, NEW c \in Capability, Coherent(row, c),
         row.status = "pending", NEW status \in {"approved", "denied"}, NEW t \in Nat,
         c.expiresAt > t
  PROVE  Coherent(Settled(row, status, t, c.principal), [c EXCEPT !.usedAt = t])
BY StoreAssumption
   DEF Coherent, Settled, Row, Capability, Opened, Unsettled, Author, Spent, Terminal, Principals

LEMMA ClaimedCoherent ==
  ASSUME NEW row \in Row, NEW c \in Capability, Coherent(row, c),
         row.status = "approved"
  PROVE  Coherent([row EXCEPT !.claimedBy = row.requester], c)
BY StoreAssumption
   DEF Coherent, Row, Capability, Opened, Unsettled, Author, Spent, Terminal, Principals

LEMMA FormRowInv == TypeOK /\ RowInv /\ Form => RowInv'
<1> SUFFICES ASSUME TypeOK, RowInv, Form, NEW r \in Requests
             PROVE  Coherent(request'[r], capability'[r])
  BY DEF RowInv
<1> USE StoreAssumption
<1>0. /\ request \in [Requests -> Row]
      /\ capability \in [Requests -> Capability]
      /\ Coherent(request[r], capability[r])
  BY DEF TypeOK, RowInv
<1>1. CASE request'[r] = request[r] /\ capability'[r] = capability[r]
  BY <1>0, <1>1
<1>2. CASE Transition
  <2>1. PICK S \in SUBSET Requests, status \in Terminal, t \in Nat,
             actor \in Principals \cup {SystemTimeout} :
               /\ TransitionPending(S, status, t, actor)
               /\ \/ status = "expired" /\ actor = SystemTimeout
                  \/ status = "approved" /\ actor = SystemTimeout /\ AllowFailOpenTimeout
                  \/ /\ status = "cancelled"
                     /\ actor # SystemTimeout
                     /\ \E s \in S :
                          S = {s} /\ actor \in {request[s].requester, request[s].approver}
    BY <1>2 DEF Transition
  <2>2. capability'[r] = capability[r]
    BY <2>1 DEF TransitionPending
  <2>3. CASE r \in S /\ Pending(r)
    <3>1. request'[r] = Settled(request[r], status, t, actor)
      BY <2>1, <2>3 DEF TransitionPending
    <3>2. Coherent(Settled(request[r], status, t, actor), capability[r])
      BY <1>0, <2>1, <2>3, SettledCoherent DEF Pending
    <3>3. QED BY <2>2, <3>1, <3>2
  <2>4. CASE ~(r \in S /\ Pending(r))
    <3>1. request'[r] = request[r]
      BY <2>1, <2>4 DEF TransitionPending
    <3>2. QED BY <1>1, <2>2, <3>1
  <2>5. QED BY <2>3, <2>4
<1>3. CASE Insertion
  <2>1. PICK s \in Requests, requester \in Requesters, approver \in Approvers,
             key \in Keys \cup {NoKey}, payload \in Payloads, e \in Nat,
             upstream \in Upstreams :
               Insert(s, requester, approver, key, payload, e, upstream)
    BY <1>3 DEF Insertion
  <2>2. CASE r = s
    BY <1>0, <2>1, <2>2
       DEF Insert, Earlier, Coherent, Opened, Unsettled, Terminal
  <2>3. CASE r # s
    BY <1>0, <1>1, <2>1, <2>3 DEF Insert
  <2>4. QED BY <2>2, <2>3
<1>4. CASE Decision
  <2>1. PICK s \in Requests, p \in Principals, decision \in {"approved", "denied"}, t \in Nat :
               /\ Pending(s)
               /\ CapabilityAccepts(s, p, t)
               /\ request' = [request EXCEPT ![s] = Settled(@, decision, t, p)]
               /\ capability' = [capability EXCEPT ![s].usedAt = t]
    BY <1>4, Zenon DEF Decision
  <2>2. CASE r = s
    <3>1. /\ request'[r] = Settled(request[r], decision, t, capability[r].principal)
          /\ capability'[r] = [capability[r] EXCEPT !.usedAt = t]
          /\ capability[r].expiresAt > t
          /\ request[r].status = "pending"
      BY <1>0, <2>1, <2>2 DEF CapabilityAccepts, Pending
    <3>2. Coherent(Settled(request[r], decision, t, capability[r].principal),
                   [capability[r] EXCEPT !.usedAt = t])
      BY <1>0, <3>1, DecidedCoherent
    <3>3. QED BY <3>1, <3>2
  <2>3. CASE r # s
    BY <1>0, <1>1, <2>1, <2>3
  <2>4. QED BY <2>2, <2>3
<1>5. CASE Claiming
  <2>1. PICK s \in Requests :
               /\ request[s].status = "approved"
               /\ request' = [request EXCEPT ![s].claimedBy = request[s].requester]
               /\ UNCHANGED capability
    BY <1>5 DEF Claiming
  <2>2. CASE r = s
    <3>1. request'[r] = [request[r] EXCEPT !.claimedBy = request[r].requester]
      BY <1>0, <2>1, <2>2
    <3>2. Coherent([request[r] EXCEPT !.claimedBy = request[r].requester], capability[r])
      BY <1>0, <2>1, <2>2, ClaimedCoherent
    <3>3. QED BY <2>1, <3>1, <3>2
  <2>3. CASE r # s
    BY <1>0, <1>1, <2>1, <2>3
  <2>4. QED BY <2>2, <2>3
<1>6. CASE UNCHANGED tables \/ Dispatch
  BY <1>0, <1>6 DEF tables, Dispatch
<1>7. QED BY <1>2, <1>3, <1>4, <1>5, <1>6 DEF Form

\* The row invariant of every reachable state.
LEMMA RowCorrect == Spec => [](TypeOK /\ RowInv)
<1>1. Init => TypeOK /\ RowInv
  BY InitTypeOK, InitRowInv
<1>2. TypeOK /\ RowInv /\ [Next]_vars => (TypeOK /\ RowInv)'
  <2> SUFFICES ASSUME TypeOK, RowInv, [Next]_vars
               PROVE  TypeOK' /\ RowInv'
    OBVIOUS
  <2>1. Form
    BY StepForms DEF TypeOK
  <2>2. QED BY <2>1, NextTypeOK, FormRowInv
<1>3. QED BY <1>1, <1>2, PTL DEF Spec

\* At most one execution, only of an approved request, only by its requester.
THEOREM ClaimSafety == Spec => []ClaimNeedsApproval
<1>1. RowInv => ClaimNeedsApproval
  BY DEF RowInv, Coherent, ClaimNeedsApproval
<1>2. QED BY <1>1, RowCorrect, PTL

\* A capability is spent exactly by the human decision it authorised.
THEOREM CapabilitySafety == Spec => []CapabilitySpentByDecision
<1>1. TypeOK /\ RowInv => CapabilitySpentByDecision
  <2> SUFFICES ASSUME TypeOK, RowInv, NEW r \in Requests
               PROVE  CapabilitySpentByDecision!(r)
    BY DEF CapabilitySpentByDecision
  <2>1. Coherent(request[r], capability[r]) /\ request[r].status \in {"absent", "pending"} \cup Terminal
    BY DEF RowInv, TypeOK, Row
  <2>2. QED BY <2>1 DEF Coherent, Unsettled, Spent, Terminal
<1>2. QED BY <1>1, RowCorrect, PTL

\* No human decision at or after the request's expiry or the caller's bound.
THEOREM DecisionTimeliness == Spec => []DecisionInTime
<1>1. TypeOK /\ RowInv => DecisionInTime
  <2> SUFFICES ASSUME TypeOK, RowInv, NEW r \in Requests
               PROVE  DecisionInTime!(r)
    BY DEF DecisionInTime
  <2>1. Coherent(request[r], capability[r]) /\ request[r].status \in {"absent", "pending"} \cup Terminal
    BY DEF RowInv, TypeOK, Row
  <2>2. QED BY <2>1 DEF Coherent, Unsettled, Spent, Opened, Terminal
<1>2. QED BY <1>1, RowCorrect, PTL

--------------------------------------------------------------------------
(* What a step may never do, and the unique key                            *)

\* Terminal columns that are set stay as they are.
Keeps(r) ==
  /\ request[r].status \in Terminal =>
       /\ request'[r].status = request[r].status
       /\ request'[r].decidedBy = request[r].decidedBy
       /\ request'[r].decidedAt = request[r].decidedAt
  /\ request[r].claimedBy # None => request'[r].claimedBy = request[r].claimedBy

LEMMA FormKeeps == ASSUME TypeOK, RowInv, Form, NEW r \in Requests PROVE Keeps(r)
<1> USE DEF Keeps
<1>0. request \in [Requests -> Row] /\ Coherent(request[r], capability[r])
  BY DEF TypeOK, RowInv
<1>1. CASE request'[r] = request[r]
  BY <1>1
<1>2. CASE Transition
  BY <1>0, <1>1, <1>2
     DEF Transition, TransitionPending, Pending, Coherent, Unsettled, Terminal
<1>3. CASE Insertion
  <2>1. \/ request'[r] = request[r]
        \/ request[r].status = "absent"
    BY <1>0, <1>3 DEF Insertion, Insert, Exists
  <2>2. QED BY <1>0, <1>1, <2>1 DEF Coherent, Unsettled, Terminal
<1>4. CASE Decision
  <2>1. \/ request'[r] = request[r]
        \/ request[r].status = "pending"
    BY <1>0, <1>4 DEF Decision, Pending
  <2>2. QED BY <1>0, <1>1, <2>1 DEF Coherent, Unsettled, Terminal
<1>5. CASE Claiming
  <2>1. PICK s \in Requests, p \in Principals :
               /\ request[s].claimedBy = None
               /\ request' = [request EXCEPT ![s].claimedBy = p]
    BY <1>5, Zenon DEF Claiming
  <2>2. CASE r = s
    BY <1>0, <2>1, <2>2 DEF Row
  <2>3. CASE r # s
    BY <1>0, <1>1, <2>1, <2>3
  <2>4. QED BY <2>2, <2>3
<1>6. CASE UNCHANGED tables \/ Dispatch
  BY <1>1, <1>6 DEF tables, Dispatch
<1>7. QED BY <1>2, <1>3, <1>4, <1>5, <1>6 DEF Form

\* A settled row keeps its outcome, author and time; a claim keeps its owner.
THEOREM Irreversible == Spec => SettledForGood
<1>1. TypeOK /\ RowInv /\ [Next]_vars => \A r \in Requests : Keeps(r)
  BY StepForms, FormKeeps DEF TypeOK
<1>2. Spec => [][\A r \in Requests : Keeps(r)]_vars
  BY <1>1, RowCorrect, PTL DEF Spec
<1>3. QED BY <1>2 DEF SettledForGood, Keeps

\* A row keeps what it was inserted with.
LEMMA BirthKept ==
  ASSUME TypeOK, Form, NEW r \in Requests, Exists(r)
  PROVE  /\ Exists(r)'
         /\ \A f \in {"requester", "approver", "key", "payload", "expiresAt", "upstream"} :
              request'[r][f] = request[r][f]
<1>0. request \in [Requests -> Row]
  BY DEF TypeOK
<1>1. CASE Transition
  <2>1. PICK S \in SUBSET Requests, status \in Terminal, t \in Nat,
             actor \in Principals \cup {SystemTimeout} :
               TransitionPending(S, status, t, actor)
    BY <1>1 DEF Transition
  <2>2. request'[r] \in {request[r], Settled(request[r], status, t, actor)}
    BY <2>1 DEF TransitionPending
  <2>3. QED BY <1>0, <2>2 DEF Settled, Row, Exists, Terminal
<1>2. CASE Insertion
  BY <1>0, <1>2 DEF Insertion, Insert, Exists
<1>3. CASE Decision
  <2>1. PICK s \in Requests, d \in {"approved", "denied"}, p \in Principals, t \in Nat :
               request' = [request EXCEPT ![s] = Settled(@, d, t, p)]
    BY <1>3, Zenon DEF Decision
  <2>2. QED BY <1>0, <2>1 DEF Settled, Row, Exists
<1>4. CASE Claiming
  <2>1. PICK s \in Requests, p \in Principals :
               request' = [request EXCEPT ![s].claimedBy = p]
    BY <1>4, Zenon DEF Claiming
  <2>2. QED BY <1>0, <2>1 DEF Row, Exists
<1>5. CASE UNCHANGED tables \/ Dispatch
  BY <1>5 DEF tables, Dispatch, Exists
<1>6. QED BY <1>1, <1>2, <1>3, <1>4, <1>5 DEF Form

\* Only an insert brings a row into existence.
LEMMA OnlyInsertCreates ==
  ASSUME TypeOK, RowInv, Form, ~Insertion, NEW r \in Requests, Exists(r)'
  PROVE  Exists(r)
<1>0. request \in [Requests -> Row]
  BY DEF TypeOK
<1>1. CASE Transition
  BY <1>0, <1>1 DEF Transition, TransitionPending, Pending, Exists
<1>2. CASE Decision
  BY <1>0, <1>2 DEF Decision, Pending, Exists
<1>3. CASE Claiming
  BY <1>0, <1>3 DEF Claiming, Exists
<1>4. CASE UNCHANGED tables \/ Dispatch
  BY <1>4 DEF tables, Dispatch, Exists
<1>5. QED BY <1>1, <1>2, <1>3, <1>4 DEF Form

LEMMA FormUniqueKeys ==
  TypeOK /\ RowInv /\ KeyNamesOneRequest /\ Form => KeyNamesOneRequest'
<1> SUFFICES ASSUME TypeOK, RowInv, KeyNamesOneRequest, Form,
                    NEW r \in Requests, NEW s \in Requests, r # s,
                    Exists(r)', Exists(s)', request'[r].key # NoKey,
                    request'[r].requester = request'[s].requester
             PROVE  request'[r].key # request'[s].key
  BY DEF KeyNamesOneRequest
<1>0. request \in [Requests -> Row]
  BY DEF TypeOK
<1>1. CASE Exists(r) /\ Exists(s)
  BY <1>0, <1>1, BirthKept DEF KeyNamesOneRequest
<1>2. CASE Insertion
  <2>1. PICK n \in Requests, requester \in Requesters, approver \in Approvers,
             key \in Keys \cup {NoKey}, payload \in Payloads, e \in Nat,
             upstream \in Upstreams :
               /\ SameKey(requester, key) = {}
               /\ Insert(n, requester, approver, key, payload, e, upstream)
    BY <1>2 DEF Insertion
  <2>2. /\ request'[n].requester = requester /\ request'[n].key = key
        /\ \A m \in Requests \ {n} : request'[m] = request[m]
    BY <1>0, <2>1 DEF Insert
  <2>3. CASE r = n
    <3>1. Exists(s) /\ request'[s] = request[s]
      BY <2>2, <2>3 DEF Exists
    <3>2. s \notin SameKey(requester, key)
      BY <2>1
    <3>3. QED BY <2>2, <2>3, <3>1, <3>2 DEF SameKey
  <2>4. CASE s = n
    <3>1. Exists(r) /\ request'[r] = request[r]
      BY <2>2, <2>4 DEF Exists
    <3>2. r \notin SameKey(requester, key)
      BY <2>1
    <3>3. QED BY <2>2, <2>4, <3>1, <3>2 DEF SameKey
  <2>5. CASE r # n /\ s # n
    BY <1>1, <2>2, <2>5 DEF Exists
  <2>6. QED BY <2>3, <2>4, <2>5
<1>3. CASE ~Insertion
  BY <1>0, <1>1, <1>3, OnlyInsertCreates
<1>4. QED BY <1>2, <1>3

\* Two requests of one requester never share an idempotency key.
THEOREM UniqueKeys == Spec => []KeyNamesOneRequest
<1>1. Init => KeyNamesOneRequest
  BY DEF Init, KeyNamesOneRequest, Exists, AbsentRow
<1>2. TypeOK /\ RowInv /\ KeyNamesOneRequest /\ [Next]_vars => KeyNamesOneRequest'
  BY StepForms, FormUniqueKeys DEF TypeOK
<1>3. QED BY <1>1, <1>2, RowCorrect, PTL DEF Spec

--------------------------------------------------------------------------
(* Refinement                                                              *)

PhaseBar == [r \in Requests |-> Phase(r)]
AuthorityBar == [r \in Requests |-> Authority(r)]

\* The initial tables map to the initial life cycle.
LEMMA InitRefines == Init => Lifecycle!Init
BY StoreAssumption
   DEF Init, AbsentRow, Lifecycle!Init, Phase, Authority, Terminal

\* A transition of the pending rows of S settles exactly those rows.
LEMMA TransitionRefines ==
  ASSUME TypeOK, RowInv, Transition
  PROVE  Lifecycle!Next \/ UNCHANGED Lifecycle!vars
<1> USE StoreAssumption
<1>1. PICK S \in SUBSET Requests, status \in Terminal, t \in Nat,
           actor \in Principals \cup {SystemTimeout} :
             /\ TransitionPending(S, status, t, actor)
             /\ \/ status = "expired" /\ actor = SystemTimeout
                \/ status = "approved" /\ actor = SystemTimeout /\ AllowFailOpenTimeout
                \/ /\ status = "cancelled"
                   /\ actor # SystemTimeout
                   /\ \E s \in S :
                        S = {s} /\ actor \in {request[s].requester, request[s].approver}
  BY DEF Transition
<1> DEFINE C == {r \in S : Pending(r)}
           Role(r) == IF actor = SystemTimeout THEN "policy"
                      ELSE IF actor = request[r].approver THEN "approver"
                      ELSE "requester"
<1>2. \A r \in Requests \ C : request'[r] = request[r]
  BY <1>1 DEF TransitionPending, TypeOK
<1>3. \A r \in C : request'[r] = Settled(request[r], status, t, actor)
  BY <1>1 DEF TransitionPending, TypeOK
<1>4. \A r \in Requests \ C : Phase(r)' = Phase(r) /\ Authority(r)' = Authority(r)
  BY <1>2 DEF Phase, Authority
<1>5. ASSUME NEW r \in C
      PROVE  /\ Phase(r) = "pending"
             /\ Phase(r)' = status
             /\ Authority(r)' = Role(r)
  <2>1. request[r] \in Row /\ Coherent(request[r], capability[r]) /\ request[r].status = "pending"
    BY DEF TypeOK, RowInv, Pending
  <2>2. /\ request'[r].status = status /\ request'[r].decidedBy = actor
        /\ request'[r].claimedBy = None
        /\ request'[r].approver = request[r].approver
    <3>1. request[r].claimedBy = None
      BY <2>1 DEF Coherent, Unsettled
    <3>2. request'[r] = Settled(request[r], status, t, actor)
      BY <1>3
    <3>3. QED BY <2>1, <3>1, <3>2 DEF Settled, Row
  <2>3. request[r].claimedBy = None
    BY <2>1 DEF Coherent, Unsettled
  <2>4. QED BY <2>1, <2>2, <2>3 DEF Phase, Authority
<1>6. CASE C = {}
  BY <1>4, <1>6 DEF Lifecycle!vars
<1>7. CASE C # {}
  <2>1. PICK r \in C : TRUE
    BY <1>7
  <2>2. \A s \in C : Role(s) = Role(r)
    BY <1>1
  <2>3. Role(r) \in Lifecycle!Authorities /\ status \in Lifecycle!Outcomes
    BY DEF Lifecycle!Authorities, Lifecycle!Outcomes, Terminal
  <2>4. Lifecycle!Entitled(Role(r), status)
    BY <1>1 DEF Lifecycle!Entitled
  <2>5. Lifecycle!Settle(C, Role(r), status)
    BY <1>4, <1>5, <1>7, <2>2, <2>4 DEF Lifecycle!Settle
  <2>6. QED BY <2>3, <2>5 DEF Lifecycle!Next
<1>8. QED BY <1>6, <1>7

\* Every step of the tables is a step of the life cycle, or changes nothing of it.
LEMMA FormRefines ==
  ASSUME TypeOK, RowInv, Form
  PROVE  Lifecycle!Next \/ UNCHANGED Lifecycle!vars
<1> USE StoreAssumption
<1>0. /\ request \in [Requests -> Row]
      /\ \A r \in Requests : Coherent(request[r], capability[r])
  BY DEF TypeOK, RowInv
<1>1. CASE UNCHANGED request
  BY <1>1 DEF Lifecycle!vars, Phase, Authority
<1>2. CASE Insertion
  <2>1. PICK n \in Requests, requester \in Requesters, approver \in Approvers,
             key \in Keys \cup {NoKey}, payload \in Payloads, e \in Nat,
             upstream \in Upstreams :
               Insert(n, requester, approver, key, payload, e, upstream)
    BY <1>2 DEF Insertion
  <2>2. /\ request[n].status = "absent" /\ request[n].claimedBy = None
        /\ request'[n].status = "pending" /\ request'[n].claimedBy = None
        /\ \A m \in Requests \ {n} : request'[m] = request[m]
    BY <1>0, <2>1 DEF Insert, Exists, Coherent, Unsettled
  <2>3. /\ Phase(n) = "absent" /\ Phase(n)' = "pending"
        /\ Authority(n)' = Authority(n)
        /\ \A m \in Requests \ {n} : Phase(m)' = Phase(m) /\ Authority(m)' = Authority(m)
    BY <2>2 DEF Phase, Authority, Terminal
  <2>4. Lifecycle!Open(n)
    BY <2>3 DEF Lifecycle!Open
  <2>5. QED BY <2>4 DEF Lifecycle!Next
<1>3. CASE Decision
  <2>1. PICK n \in Requests, p \in Principals, decision \in {"approved", "denied"}, t \in Nat :
               /\ Pending(n)
               /\ CapabilityAccepts(n, p, t)
               /\ request' = [request EXCEPT ![n] = Settled(@, decision, t, p)]
    BY <1>3, Zenon DEF Decision
  <2>2. /\ request[n].status = "pending" /\ request[n].claimedBy = None
        /\ request'[n].status = decision /\ request'[n].claimedBy = None
        /\ request'[n].decidedBy = p /\ request'[n].approver = p
        /\ \A m \in Requests \ {n} : request'[m] = request[m]
    BY <1>0, <2>1
       DEF Pending, CapabilityAccepts, Settled, Row, Coherent, Unsettled, Opened
  <2>3. /\ Phase(n) = "pending" /\ Phase(n)' = decision
        /\ Authority(n)' = "approver"
        /\ \A m \in Requests \ {n} : Phase(m)' = Phase(m) /\ Authority(m)' = Authority(m)
    BY <2>2 DEF Phase, Authority, Terminal
  <2>4. Lifecycle!Settle({n}, "approver", decision)
    BY <2>3 DEF Lifecycle!Settle, Lifecycle!Entitled
  <2>5. {n} \in SUBSET Requests /\ "approver" \in Lifecycle!Authorities
          /\ decision \in Lifecycle!Outcomes
    BY DEF Lifecycle!Authorities, Lifecycle!Outcomes
  <2>6. QED BY <2>4, <2>5 DEF Lifecycle!Next
<1>4. CASE Claiming
  <2>1. PICK n \in Requests, p \in Principals :
               /\ request[n].status = "approved"
               /\ request[n].claimedBy = None
               /\ request' = [request EXCEPT ![n].claimedBy = p]
    BY <1>4, Zenon DEF Claiming
  <2>2. /\ request'[n].claimedBy # None
        /\ request'[n].status = request[n].status
        /\ request'[n].decidedBy = request[n].decidedBy
        /\ request'[n].approver = request[n].approver
        /\ \A m \in Requests \ {n} : request'[m] = request[m]
    BY <1>0, <2>1 DEF Row
  <2>3. /\ Phase(n) = "approved" /\ Phase(n)' = "released"
        /\ Authority(n)' = Authority(n)
        /\ \A m \in Requests \ {n} : Phase(m)' = Phase(m) /\ Authority(m)' = Authority(m)
    BY <2>1, <2>2 DEF Phase, Authority
  <2>4. Lifecycle!Release(n)
    BY <2>3 DEF Lifecycle!Release
  <2>5. QED BY <2>4 DEF Lifecycle!Next
<1>5. CASE Transition
  BY <1>5, TransitionRefines
<1>6. QED BY <1>0, <1>1, <1>2, <1>3, <1>4, <1>5 DEF Form, tables, Dispatch

\* The store implements the abstract life cycle.
THEOREM Refinement == Spec => ImplementsLifecycle
<1>1. TypeOK /\ RowInv /\ [Next]_vars => [Lifecycle!Next]_(Lifecycle!vars)
  BY StepForms, FormRefines DEF TypeOK
<1>2. QED
  BY <1>1, InitRefines, RowCorrect, PTL DEF Spec, ImplementsLifecycle, Lifecycle!Spec

--------------------------------------------------------------------------
(* The event log                                                           *)

\* Only a request that exists waits for its dispatch event.
OpInv == \A h \in Handles : op[h].kind = "dispatch" => Exists(op[h].id)

LEMMA NextOpInv == TypeOK /\ OpInv /\ [Next]_vars => OpInv'
<1> SUFFICES ASSUME TypeOK, OpInv, [Next]_vars, NEW h \in Handles,
                    op'[h].kind = "dispatch"
             PROVE  request'[op'[h].id].status # "absent"
  BY DEF OpInv, Exists
<1>0. Form /\ op \in [Handles -> Ops]
  BY StepForms DEF TypeOK
<1>1. CASE op' = op
  <2>1. op[h].id \in Requests /\ Exists(op[h].id)
    BY <1>0, <1>1 DEF OpInv, Ops, Idle
  <2>2. QED BY <1>0, <1>1, <2>1, BirthKept DEF Exists
<1>2. ASSUME NEW g \in Handles, HandleStep(g)
      PROVE  request'[op'[h].id].status # "absent"
  <2>1. CASE op'[h] = op[h]
    <3>1. op[h].id \in Requests /\ Exists(op[h].id)
      BY <1>0, <2>1 DEF OpInv, Ops, Idle
    <3>2. QED BY <1>0, <2>1, <3>1, BirthKept DEF Exists
  <2>2. CASE op'[h] # op[h]
    <3>1. op'[h] # Idle
      BY DEF Idle
    <3>2. ASSUME NEW r \in Requests, NEW type \in {"dispatched", "dispatch_failed"},
                 RequirePending(g, r, type)
          PROVE  request'[op'[h].id].status # "absent"
      <4>1. g = h /\ op'[h].id = r /\ request' = request /\ Pending(r)
        BY <1>0, <2>2, <3>2 DEF RequirePending, tables
      <4>2. QED BY <4>1 DEF Pending, Exists
    <3>3. ~(\E t \in Times : SelectDue(g, t))
      BY <1>0, <2>2 DEF SelectDue
    <3>4. ~(ExpireDue(g) \/ RecordDispatch(g) \/ Crash(g))
      BY <1>0, <2>2, <3>1 DEF ExpireDue, RecordDispatch, Crash
    <3>5. QED BY <1>2, <3>2, <3>3, <3>4 DEF HandleStep
  <2>3. QED BY <2>1, <2>2
<1>3. CASE Create
  BY <1>1, <1>3 DEF Create, CreateOrReuse
<1>4. CASE \E r \in Requests : Settle(r) \/ TimeOut(r)
  <2>1. op' = op
    BY <1>4 DEF Settle, TimeOut, Decide, Cancel, ClaimExecution, Expire
  <2>2. QED BY <1>1, <2>1
<1>5. CASE Tick \/ UNCHANGED vars
  BY <1>1, <1>5 DEF Tick, vars
<1>6. QED BY <1>2, <1>3, <1>4, <1>5 DEF Next

\* An appended event is found at the new end, and disturbs no other position.
LEMMA AppendPositions ==
  ASSUME NEW s \in Seq(Events), NEW e \in Events, NEW types
  PROVE  /\ Len(Append(s, e)) = Len(s) + 1
         /\ DOMAIN Append(s, e) = DOMAIN s \cup {Len(s) + 1}
         /\ Append(s, e)[Len(s) + 1] = e
         /\ \A i \in DOMAIN s : Append(s, e)[i] = s[i] /\ i < Len(s) + 1
         /\ e.type \in types =>
              Positions(Append(s, e), types) = Positions(s, types) \cup {Len(s) + 1}
         /\ e.type \notin types => Positions(Append(s, e), types) = Positions(s, types)
<1>1. /\ Len(Append(s, e)) = Len(s) + 1
      /\ DOMAIN Append(s, e) = DOMAIN s \cup {Len(s) + 1}
      /\ Append(s, e)[Len(s) + 1] = e
      /\ \A i \in DOMAIN s : Append(s, e)[i] = s[i] /\ i < Len(s) + 1
  OBVIOUS
<1>2. QED BY <1>1 DEF Positions

LEMMA SettledTells ==
  ASSUME NEW row \in Row, NEW s \in Seq(Events), Tells(s, row),
         row.status = "pending", row.claimedBy = None,
         NEW status \in Terminal, NEW t \in Nat,
         NEW actor \in Principals \cup {SystemTimeout}
  PROVE  Tells(Append(s, Event(status, actor)), Settled(row, status, t, actor))
<1> DEFINE e == Event(status, actor)
           q == Append(s, e)
           new == Settled(row, status, t, actor)
<1>0. e = Event(status, actor)
  OBVIOUS
<1>1. e \in Events /\ e.type = status /\ e.type \in Terminal /\ e.type # "execution_claimed"
  BY DEF Event, Events, EventTypes, Terminal
<1>2. new.status = status /\ new.decidedBy = actor /\ new.claimedBy = None
        /\ new.requester = row.requester
  BY DEF Settled, Row
<1>3. Positions(s, Terminal) = {} /\ Positions(s, {"execution_claimed"}) = {}
        /\ Len(s) >= 2 /\ s[1] = Event("created", row.requester)
        /\ s[2] = Event("capability_issued", None)
  BY DEF Tells, Terminal
<1>4. Positions(q, Terminal) = {Len(s) + 1} /\ q[Len(s) + 1] = e /\ Len(s) + 1 \in DOMAIN q
  BY <1>1, <1>3, AppendPositions
<1>5. Positions(q, {"execution_claimed"}) = {}
  BY <1>1, <1>3, AppendPositions
<1>6. Len(q) >= 2 /\ q[1] = s[1] /\ q[2] = s[2]
  <2>1. 1 \in DOMAIN s /\ 2 \in DOMAIN s
    BY <1>3
  <2>2. QED BY <1>1, <1>3, <2>1, AppendPositions
<1>7. status # "absent"
  BY DEF Terminal
<1> HIDE DEF q, new, e
<1>8. Tells(q, new)
  BY <1>0, <1>2, <1>3, <1>4, <1>5, <1>6, <1>7 DEF Tells
<1>9. QED BY <1>8 DEF q, new, e

LEMMA ClaimedTells ==
  ASSUME NEW row \in Row, NEW s \in Seq(Events), Tells(s, row),
         row.status = "approved", row.claimedBy = None, NEW p \in Principals
  PROVE  Tells(Append(s, Event("execution_claimed", p)), [row EXCEPT !.claimedBy = p])
<1> DEFINE e == Event("execution_claimed", p)
           q == Append(s, e)
           new == [row EXCEPT !.claimedBy = p]
<1>0. e = Event("execution_claimed", p)
  OBVIOUS
<1>1. e \in Events /\ e.type = "execution_claimed" /\ e.type \notin Terminal /\ e.actor = p
  BY DEF Event, Events, EventTypes, Terminal
<1>2. new.status = "approved" /\ new.decidedBy = row.decidedBy /\ new.claimedBy = p
        /\ new.requester = row.requester /\ p # None
  BY StoreAssumption DEF Row
<1>3. PICK i \in DOMAIN s : /\ Positions(s, Terminal) = {i}
                            /\ s[i] = Event("approved", row.decidedBy)
  BY DEF Tells, Terminal
<1>4. Positions(s, {"execution_claimed"}) = {}
        /\ Len(s) >= 2 /\ s[1] = Event("created", row.requester)
        /\ s[2] = Event("capability_issued", None)
  BY DEF Tells
<1>5. Positions(q, Terminal) = {i} /\ i \in DOMAIN q /\ q[i] = s[i] /\ i < Len(s) + 1
  BY <1>1, <1>3, AppendPositions
<1>6. Positions(q, {"execution_claimed"}) = {Len(s) + 1} /\ Len(s) + 1 \in DOMAIN q
        /\ q[Len(s) + 1] = e
  BY <1>1, <1>4, AppendPositions
<1>7. Len(q) >= 2 /\ q[1] = s[1] /\ q[2] = s[2]
  <2>1. 1 \in DOMAIN s /\ 2 \in DOMAIN s
    BY <1>4
  <2>2. QED BY <1>1, <1>4, <2>1, AppendPositions
<1> HIDE DEF q, new, e
<1>8. Tells(q, new)
  BY <1>1, <1>2, <1>3, <1>4, <1>5, <1>6, <1>7 DEF Tells, Terminal
<1>9. QED BY <1>8 DEF q, new, e

LEMMA DispatchTells ==
  ASSUME NEW row \in Row, NEW s \in Seq(Events), Tells(s, row), row.status # "absent",
         NEW type \in {"dispatched", "dispatch_failed"}
  PROVE  Tells(Append(s, Event(type, None)), row)
<1> DEFINE e == Event(type, None)
           q == Append(s, e)
<1>0. e = Event(type, None)
  OBVIOUS
<1>1. e \in Events /\ e.type \notin Terminal /\ e.type # "execution_claimed"
  BY DEF Event, Events, EventTypes, Terminal
<1>2. Positions(q, Terminal) = Positions(s, Terminal)
        /\ Positions(q, {"execution_claimed"}) = Positions(s, {"execution_claimed"})
  BY <1>1, AppendPositions
<1>3. \A i \in DOMAIN s : i \in DOMAIN q /\ q[i] = s[i]
  BY <1>1, AppendPositions
<1>4. Len(s) >= 2 /\ Len(q) >= 2 /\ 1 \in DOMAIN s /\ 2 \in DOMAIN s
  BY <1>1, AppendPositions DEF Tells
<1> HIDE DEF q, e
<1>5. Tells(q, row)
  BY <1>2, <1>3, <1>4 DEF Tells
<1>6. QED BY <1>5 DEF q, e

LEMMA FormTells == TypeOK /\ RowInv /\ OpInv /\ LogTellsTheRow /\ Form => LogTellsTheRow'
<1> SUFFICES ASSUME TypeOK, RowInv, OpInv, LogTellsTheRow, Form, NEW r \in Requests
             PROVE  Tells(log'[r], request'[r])
  BY DEF LogTellsTheRow
<1>0. /\ request \in [Requests -> Row] /\ log \in [Requests -> Seq(Events)]
      /\ Tells(log[r], request[r]) /\ Coherent(request[r], capability[r])
  BY DEF TypeOK, RowInv, LogTellsTheRow
<1>1. CASE request'[r] = request[r] /\ log'[r] = log[r]
  BY <1>0, <1>1
<1>2. CASE Transition
  <2>1. PICK S \in SUBSET Requests, status \in Terminal, t \in Nat,
             actor \in Principals \cup {SystemTimeout} :
               TransitionPending(S, status, t, actor)
    BY <1>2 DEF Transition
  <2>2. CASE r \in S /\ Pending(r)
    <3>1. /\ request'[r] = Settled(request[r], status, t, actor)
          /\ log'[r] = Append(log[r], Event(status, actor))
      BY <2>1, <2>2 DEF TransitionPending
    <3>2. request[r].status = "pending" /\ request[r].claimedBy = None
      BY <1>0, <2>2 DEF Pending, Coherent, Unsettled
    <3>3. Tells(Append(log[r], Event(status, actor)), Settled(request[r], status, t, actor))
      BY <1>0, <3>2, SettledTells
    <3>4. QED BY <3>1, <3>3
  <2>3. CASE ~(r \in S /\ Pending(r))
    BY <1>1, <2>1, <2>3 DEF TransitionPending
  <2>4. QED BY <2>2, <2>3
<1>3. CASE Insertion
  <2>1. PICK n \in Requests, requester \in Requesters, approver \in Approvers,
             key \in Keys \cup {NoKey}, payload \in Payloads, e \in Nat,
             upstream \in Upstreams :
               Insert(n, requester, approver, key, payload, e, upstream)
    BY <1>3 DEF Insertion
  <2>2. CASE r = n
    <3>1. log[r] = <<>>
      BY <1>0, <2>1, <2>2 DEF Insert, Exists, Tells
    <3>2. log'[r] = <<Event("created", requester), Event("capability_issued", None)>>
      BY <1>0, <2>1, <2>2, <3>1 DEF Insert
    <3>3. /\ request'[r].status = "pending" /\ request'[r].requester = requester
          /\ request'[r].claimedBy = None
      BY <1>0, <2>1, <2>2 DEF Insert
    <3>4. /\ Positions(log'[r], Terminal) = {}
          /\ Positions(log'[r], {"execution_claimed"}) = {}
      BY <3>2 DEF Positions, Event, Terminal
    <3>5. /\ Len(log'[r]) = 2
          /\ log'[r][1] = Event("created", requester)
          /\ log'[r][2] = Event("capability_issued", None)
      BY <3>2
    <3>6. QED BY <3>3, <3>4, <3>5 DEF Tells, Terminal
  <2>3. CASE r # n
    BY <1>0, <1>1, <2>1, <2>3 DEF Insert
  <2>4. QED BY <2>2, <2>3
<1>4. CASE Decision
  <2>1. PICK n \in Requests, p \in Principals, decision \in {"approved", "denied"}, t \in Nat :
               /\ Pending(n)
               /\ CapabilityAccepts(n, p, t)
               /\ request' = [request EXCEPT ![n] = Settled(@, decision, t, p)]
               /\ capability' = [capability EXCEPT ![n].usedAt = t]
               /\ log' = [log EXCEPT ![n] = Append(@, Event(decision, p))]
    BY <1>4, Zenon DEF Decision
  <2>2. CASE r = n
    <3>1. /\ request'[r] = Settled(request[r], decision, t, p)
          /\ log'[r] = Append(log[r], Event(decision, p))
      BY <1>0, <2>1, <2>2
    <3>2. request[r].status = "pending" /\ request[r].claimedBy = None /\ decision \in Terminal
      BY <1>0, <2>1, <2>2 DEF Pending, Coherent, Unsettled, Terminal
    <3>3. Tells(Append(log[r], Event(decision, p)), Settled(request[r], decision, t, p))
      BY <1>0, <3>2, SettledTells
    <3>4. QED BY <3>1, <3>3
  <2>3. CASE r # n
    BY <1>0, <1>1, <2>1, <2>3
  <2>4. QED BY <2>2, <2>3
<1>5. CASE Claiming
  <2>1. PICK n \in Requests, p \in Principals :
               /\ request[n].status = "approved"
               /\ request[n].claimedBy = None
               /\ request' = [request EXCEPT ![n].claimedBy = p]
               /\ log' = [log EXCEPT ![n] = Append(@, Event("execution_claimed", p))]
    BY <1>5, Zenon DEF Claiming
  <2>2. CASE r = n
    <3>1. /\ request'[r] = [request[r] EXCEPT !.claimedBy = p]
          /\ log'[r] = Append(log[r], Event("execution_claimed", p))
      BY <1>0, <2>1, <2>2
    <3>2. QED BY <1>0, <2>1, <2>2, <3>1, ClaimedTells
  <2>3. CASE r # n
    BY <1>0, <1>1, <2>1, <2>3
  <2>4. QED BY <2>2, <2>3
<1>6. CASE Dispatch
  <2>1. PICK n \in Requests, type \in {"dispatched", "dispatch_failed"} :
               /\ Pending(n) \/ \E h \in Handles : op[h].kind = "dispatch" /\ op[h].id = n
               /\ log' = [log EXCEPT ![n] = Append(@, Event(type, None))]
               /\ UNCHANGED <<request, capability>>
    BY <1>6, Zenon DEF Dispatch
  <2>2. Exists(n)
    BY <2>1 DEF OpInv, Pending, Exists
  <2>3. CASE r = n
    <3>1. request'[r] = request[r] /\ log'[r] = Append(log[r], Event(type, None))
      BY <1>0, <2>1, <2>3
    <3>2. QED BY <1>0, <2>2, <2>3, <3>1, DispatchTells DEF Exists
  <2>4. CASE r # n
    BY <1>0, <1>1, <2>1, <2>4
  <2>5. QED BY <2>3, <2>4
<1>7. CASE UNCHANGED tables
  BY <1>1, <1>7 DEF tables
<1>8. QED BY <1>2, <1>3, <1>4, <1>5, <1>6, <1>7 DEF Form

LEMMA InitTells == Init => OpInv /\ LogTellsTheRow
<1> SUFFICES ASSUME Init
             PROVE  OpInv /\ LogTellsTheRow
  OBVIOUS
<1>1. OpInv
  BY DEF Init, OpInv, Idle
<1>2. ASSUME NEW r \in Requests
      PROVE  Tells(log[r], request[r])
  <2>1. log[r] = <<>> /\ request[r].status = "absent" /\ request[r].claimedBy = None
    BY DEF Init, AbsentRow
  <2>2. \A types : Positions(log[r], types) = {}
    BY <2>1 DEF Positions
  <2>3. QED BY <2>1, <2>2 DEF Tells, Terminal
<1>3. QED BY <1>1, <1>2 DEF LogTellsTheRow

\* The immutable event table tells every row, through every interleaving.
THEOREM FaithfulLog == Spec => []LogTellsTheRow
<1>1. Init => OpInv /\ LogTellsTheRow
  BY InitTells
<1>2. TypeOK /\ RowInv /\ OpInv /\ LogTellsTheRow /\ [Next]_vars
        => OpInv' /\ LogTellsTheRow'
  <2> SUFFICES ASSUME TypeOK, RowInv, OpInv, LogTellsTheRow, [Next]_vars
               PROVE  OpInv' /\ LogTellsTheRow'
    OBVIOUS
  <2>1. Form
    BY StepForms DEF TypeOK
  <2>2. QED BY <2>1, NextOpInv, FormTells
<1>3. QED BY <1>1, <1>2, RowCorrect, PTL DEF Spec
==========================================================================
