-------------------------- MODULE ApprovalStore --------------------------
(***************************************************************************)
(* Sentinel's durable approval store (approval/ApprovalStore.ts): three    *)
(* SQLite tables, shared by every operating-system process that opened the *)
(* database file - the proxy and the `sentinel approvals` command line.    *)
(*                                                                         *)
(* Every method that runs inside db.transaction() is one action: SQLite    *)
(* serialises those.  Three things are not inside it and are not atomic    *)
(* here either:                                                            *)
(*   - the clock.  Methods read it before BEGIN, then may wait for the     *)
(*     database lock; an action's argument t is that reading, any instant  *)
(*     up to the present;                                                  *)
(*   - expireDue(), which selects the due rows before its transaction;     *)
(*   - recordDispatch() and recordDispatchFailure(), which select the row, *)
(*     check it is pending, and then insert the event, in no transaction.  *)
(* The last two keep what they read in op[h], h a database handle.         *)
(*                                                                         *)
(* A call that ends in an error and changes no row is a stuttering step.   *)
(***************************************************************************)
EXTENDS Integers, Sequences, FiniteSets

CONSTANTS
  Requests,    \* ids randomUUID() may return
  Requesters,  \* principals that ask for approval
  Approvers,   \* principals an approval may be assigned to
  Keys,        \* idempotency keys, before they are scoped to a requester
  NoKey,       \* a request made without one
  Payloads,    \* what the fingerprint covers besides the fields of a row:
               \*   the sanitized tool call and the set of channels
  Timeouts,    \* approval timeouts, a set of durations
  Upstreams,   \* expiries callers send, None when they send none
  Handles,     \* database handles, one per operating-system process
  SystemTimeout,     \* the actor "system:timeout"
  None,        \* SQL NULL
  AllowFailOpenTimeout,
  MaxTime,     \* bound: the clock stops here
  MaxEvents    \* bound: no dispatch event is started past this log length

Principals == Requesters \cup Approvers
Times == 0 .. MaxTime
Terminal == {"approved", "denied", "expired", "cancelled"}

ASSUME StoreAssumption ==
  /\ MaxTime \in Nat
  /\ MaxEvents \in Nat
  /\ AllowFailOpenTimeout \in BOOLEAN
  /\ Timeouts \subseteq Nat \ {0}
  /\ None \notin Nat
  /\ None \notin Principals
  /\ SystemTimeout \notin Principals \cup {None}
  /\ Upstreams \subseteq Nat \cup {None}
  /\ NoKey \notin Keys

VARIABLES
  now,         \* the wall clock
  request,     \* table approval_requests
  capability,  \* table approval_capabilities, one row per request
  log,         \* table approval_events, split by request
  op           \* per handle, what an operation read before it writes

vars == <<now, request, capability, log, op>>
tables == <<request, capability, log>>

Row == [status: {"absent", "pending"} \cup Terminal,
        requester: Requesters \cup {None}, approver: Approvers \cup {None},
        key: Keys \cup {NoKey}, payload: Payloads \cup {None},
        expiresAt: Nat \cup {None}, upstream: Nat \cup {None},
        decidedAt: Nat \cup {None}, decidedBy: Principals \cup {SystemTimeout, None},
        claimedBy: Principals \cup {None}]

AbsentRow == [status |-> "absent", requester |-> None, approver |-> None,
              key |-> NoKey, payload |-> None,
              expiresAt |-> None, upstream |-> None,
              decidedAt |-> None, decidedBy |-> None, claimedBy |-> None]

Capability == [principal: Approvers \cup {None}, expiresAt: Nat \cup {None},
               usedAt: Nat \cup {None}]
NoCapability == [principal |-> None, expiresAt |-> None, usedAt |-> None]

EventTypes == {"created", "capability_issued", "dispatched", "dispatch_failed",
               "execution_claimed"} \cup Terminal
Event(type, actor) == [type |-> type, actor |-> actor]
Events == [type: EventTypes, actor: Principals \cup {SystemTimeout, None}]

Idle == [kind |-> "idle"]
Ops == {Idle}
  \cup [kind: {"dispatch"}, id: Requests, type: {"dispatched", "dispatch_failed"}]
  \cup [kind: {"expireDue"}, ids: SUBSET Requests, at: Times]

Init ==
  /\ now = 0
  /\ request = [r \in Requests |-> AbsentRow]
  /\ capability = [r \in Requests |-> NoCapability]
  /\ log = [r \in Requests |-> <<>>]
  /\ op = [h \in Handles |-> Idle]

--------------------------------------------------------------------------
(* The statements the operations are made of.                              *)

Pending(r) == request[r].status = "pending"
Exists(r) == request[r].status # "absent"

Settled(row, status, t, actor) ==
  [row EXCEPT !.status = status, !.decidedAt = t, !.decidedBy = actor]

\* Variant with a bug: the status is not looked at again.
TransitionAll(S, status, t, actor) ==
  /\ request' = [r \in Requests |->
       IF r \in S THEN Settled(request[r], status, t, actor) ELSE request[r]]
  /\ log' = [r \in Requests |->
       IF r \in S THEN Append(log[r], Event(status, actor)) ELSE log[r]]
  /\ UNCHANGED capability

\* UPDATE ... WHERE id IN S AND status = 'pending', with the event of each
\* row it changed.
TransitionPending(S, status, t, actor) ==
  LET changed == {r \in S : Pending(r)} IN
  /\ request' = [r \in Requests |->
       IF r \in changed THEN Settled(request[r], status, t, actor) ELSE request[r]]
  /\ log' = [r \in Requests |->
       IF r \in changed THEN Append(log[r], Event(status, actor)) ELSE log[r]]
  /\ UNCHANGED capability

Due(r, t) == Pending(r) /\ request[r].expiresAt <= t

ExpireRowIfDue(r, t) ==
  Due(r, t) /\ TransitionPending({r}, "expired", t, SystemTimeout)

--------------------------------------------------------------------------
(* createOrReuse                                                           *)

\* Variant with a bug: the caller's own expiry does not count.
TimeoutOnly(expiresAt, upstream) == expiresAt

Earlier(expiresAt, upstream) ==
  IF upstream = None \/ expiresAt <= upstream THEN expiresAt ELSE upstream

\* normalizeCreateInput, with the clock at t: both expiries lie ahead.
Acceptable(expiresAt, upstream, t) ==
  expiresAt > t /\ Earlier(expiresAt, upstream) > t

\* Variant with a bug: only open requests are found again.
SameKeyPending(requester, key) ==
  {r \in Requests : /\ key # NoKey
                    /\ Pending(r)
                    /\ request[r].requester = requester
                    /\ request[r].key = key}

\* Rows that carry the idempotency key, scoped to its requester.
SameKey(requester, key) ==
  {r \in Requests : /\ key # NoKey
                    /\ Exists(r)
                    /\ request[r].requester = requester
                    /\ request[r].key = key}

SameFingerprint(r, approver, payload, upstream) ==
  /\ request[r].approver = approver
  /\ request[r].payload = payload
  /\ request[r].upstream = upstream

\* A stored row answers the call; no capability is issued again.
Reuse(r, approver, payload, upstream) ==
  /\ SameFingerprint(r, approver, payload, upstream)
  /\ ExpireRowIfDue(r, now)

\* Variant with a bug: the row is stored under the name of its first event.
InsertAsCreated(r, requester, approver, key, payload, expiresAt, upstream) ==
  /\ ~Exists(r)
  /\ request' = [request EXCEPT ![r].status = "created"]
  /\ UNCHANGED <<capability, log>>

Insert(r, requester, approver, key, payload, expiresAt, upstream) ==
  LET due == Earlier(expiresAt, upstream) IN
  /\ ~Exists(r)
  /\ request' = [request EXCEPT ![r] =
       [status |-> "pending", requester |-> requester, approver |-> approver,
        key |-> key, payload |-> payload, expiresAt |-> due, upstream |-> upstream,
        decidedAt |-> None, decidedBy |-> None, claimedBy |-> None]]
  /\ capability' = [capability EXCEPT ![r] =
       [principal |-> approver, expiresAt |-> due, usedAt |-> None]]
  /\ log' = [log EXCEPT ![r] = @ \o <<Event("created", requester),
                                      Event("capability_issued", None)>>]

CreateOrReuse(requester, approver, key, payload, timeout, upstream, t) ==
  /\ t <= now
  /\ Acceptable(t + timeout, upstream, t)
  /\ \/ \E r \in SameKey(requester, key) : Reuse(r, approver, payload, upstream)
     \/ /\ SameKey(requester, key) = {}
        /\ \E r \in Requests :
             Insert(r, requester, approver, key, payload, t + timeout, upstream)
  /\ UNCHANGED <<now, op>>

--------------------------------------------------------------------------
(* decide, claimExecution, cancel, expire                                  *)

\* Variant with a bug: anybody may use a capability.
CapabilityOfAnyone(r, p, t) ==
  capability[r].usedAt = None /\ capability[r].expiresAt > t

CapabilityAccepts(r, p, t) ==
  /\ capability[r].usedAt = None
  /\ capability[r].principal = p
  /\ capability[r].expiresAt > t

\* Variant with a bug: the capability is not marked as used.
DecideUnspent(r, p, decision, t) ==
  /\ t <= now
  /\ Exists(r)
  /\ ~Due(r, t)
  /\ CapabilityAccepts(r, p, t)
  /\ TransitionPending({r}, decision, t, p)
  /\ UNCHANGED <<now, op>>

\* The caller holds the capability of r.
Decide(r, p, decision, t) ==
  /\ t <= now
  /\ Exists(r)
  /\ \/ ExpireRowIfDue(r, t)
     \/ /\ ~Due(r, t)
        /\ CapabilityAccepts(r, p, t)
        /\ Pending(r)
        /\ request' = [request EXCEPT ![r] = Settled(@, decision, t, p)]
        /\ capability' = [capability EXCEPT ![r].usedAt = t]
        /\ log' = [log EXCEPT ![r] = Append(@, Event(decision, p))]
  /\ UNCHANGED <<now, op>>

\* Variant with a bug: who may claim does not depend on the outcome.
ClaimAnyStatus(r, p, t) ==
  /\ t <= now
  /\ Exists(r)
  /\ request[r].requester = p
  /\ request[r].claimedBy = None
  /\ request' = [request EXCEPT ![r].claimedBy = p]
  /\ log' = [log EXCEPT ![r] = Append(@, Event("execution_claimed", p))]
  /\ UNCHANGED <<now, capability, op>>

\* Variant with a bug: a claim does not exclude another.
ClaimAgain(r, p, t) ==
  /\ t <= now
  /\ request[r].status = "approved"
  /\ request[r].requester = p
  /\ request' = [request EXCEPT ![r].claimedBy = p]
  /\ log' = [log EXCEPT ![r] = Append(@, Event("execution_claimed", p))]
  /\ UNCHANGED <<now, capability, op>>

ClaimExecution(r, p, t) ==
  /\ t <= now
  /\ Exists(r)
  /\ \/ ExpireRowIfDue(r, t)
     \/ /\ request[r].status = "approved"
        /\ request[r].requester = p
        /\ request[r].claimedBy = None
        /\ request' = [request EXCEPT ![r].claimedBy = p]
        /\ log' = [log EXCEPT ![r] = Append(@, Event("execution_claimed", p))]
        /\ UNCHANGED capability
  /\ UNCHANGED <<now, op>>

Cancel(r, p, t) ==
  /\ t <= now
  /\ Exists(r)
  /\ \/ ExpireRowIfDue(r, t)
     \/ /\ ~Due(r, t)
        /\ Pending(r)
        /\ p \in {request[r].requester, request[r].approver}
        /\ TransitionPending({r}, "cancelled", t, p)
  /\ UNCHANGED <<now, op>>

\* The caller has decided that time is up; the store does not look again.
Expire(r, failOpen, t) ==
  /\ t <= now
  /\ failOpen => AllowFailOpenTimeout
  /\ Pending(r)
  /\ TransitionPending({r}, IF failOpen THEN "approved" ELSE "expired", t, SystemTimeout)
  /\ UNCHANGED <<now, op>>

--------------------------------------------------------------------------
(* expireDue, recordDispatch and recordDispatchFailure: read, then write.  *)

SelectDue(h, t) ==
  /\ op[h] = Idle
  /\ t <= now
  /\ {r \in Requests : Due(r, t)} # {}
  /\ op' = [op EXCEPT ![h] =
       [kind |-> "expireDue", ids |-> {r \in Requests : Due(r, t)}, at |-> t]]
  /\ UNCHANGED <<now, tables>>

ExpireDue(h) ==
  /\ op[h].kind = "expireDue"
  /\ TransitionPending(op[h].ids, "expired", op[h].at, SystemTimeout)
  /\ op' = [op EXCEPT ![h] = Idle]
  /\ UNCHANGED now

RequirePending(h, r, type) ==
  /\ op[h] = Idle
  /\ Pending(r)
  /\ Len(log[r]) < MaxEvents
  /\ op' = [op EXCEPT ![h] = [kind |-> "dispatch", id |-> r, type |-> type]]
  /\ UNCHANGED <<now, tables>>

RecordDispatch(h) ==
  /\ op[h].kind = "dispatch"
  /\ log' = [log EXCEPT ![op[h].id] = Append(@, Event(op[h].type, None))]
  /\ op' = [op EXCEPT ![h] = Idle]
  /\ UNCHANGED <<now, request, capability>>

--------------------------------------------------------------------------
Tick ==
  /\ now < MaxTime
  /\ now' = now + 1
  /\ UNCHANGED <<tables, op>>

\* The process that owns the handle dies; committed rows stay.
Crash(h) ==
  /\ op[h] # Idle
  /\ op' = [op EXCEPT ![h] = Idle]
  /\ UNCHANGED <<now, tables>>

Create ==
  \E requester \in Requesters, approver \in Approvers, key \in Keys \cup {NoKey},
     payload \in Payloads, timeout \in Timeouts, upstream \in Upstreams, t \in Times :
    CreateOrReuse(requester, approver, key, payload, timeout, upstream, t)

Settle(r) ==
  \E t \in Times, p \in Principals :
    \/ Decide(r, p, "approved", t)
    \/ Decide(r, p, "denied", t)
    \/ Cancel(r, p, t)
    \/ ClaimExecution(r, p, t)

TimeOut(r) == \E t \in Times, failOpen \in BOOLEAN : Expire(r, failOpen, t)

HandleStep(h) ==
  \/ \E t \in Times : SelectDue(h, t)
  \/ ExpireDue(h)
  \/ \E r \in Requests, type \in {"dispatched", "dispatch_failed"} :
       RequirePending(h, r, type)
  \/ RecordDispatch(h)
  \/ Crash(h)

Next ==
  \/ Tick
  \/ Create
  \/ \E r \in Requests : Settle(r) \/ TimeOut(r)
  \/ \E h \in Handles : HandleStep(h)

Spec == Init /\ [][Next]_vars

--------------------------------------------------------------------------
(* Properties                                                              *)

\* Every table holds values of its columns' types.
TypeOK ==
  /\ now \in Times
  /\ request \in [Requests -> Row]
  /\ capability \in [Requests -> Capability]
  /\ log \in [Requests -> Seq(Events)]
  /\ op \in [Handles -> Ops]

Positions(events, types) == {i \in DOMAIN events : events[i].type \in types}

\* The events of a request say what its row says.
Tells(events, row) ==
  /\ row.status = "absent" => events = <<>>
  /\ row.status # "absent" => /\ Len(events) >= 2
                              /\ events[1] = Event("created", row.requester)
                              /\ events[2] = Event("capability_issued", None)
  /\ row.status \notin Terminal => Positions(events, Terminal) = {}
  /\ row.status \in Terminal =>
       \E i \in DOMAIN events :
         /\ Positions(events, Terminal) = {i}
         /\ events[i] = Event(row.status, row.decidedBy)
         /\ \A j \in Positions(events, {"execution_claimed"}) : i < j
  /\ row.claimedBy = None => Positions(events, {"execution_claimed"}) = {}
  /\ row.claimedBy # None =>
       \E j \in DOMAIN events :
         /\ Positions(events, {"execution_claimed"}) = {j}
         /\ events[j].actor = row.claimedBy

\* "Every transition is appended to an immutable event table" (README:84):
\* whatever ran concurrently, the log of a request names exactly one outcome
\* when the row is settled, by the principal who settled it, and none before;
\* and exactly one execution claim when the row is claimed, after its approval.
LogTellsTheRow == \A r \in Requests : Tells(log[r], request[r])

\* "An atomic execution claim ensures that an approved request can release at
\* most one upstream tool invocation" (docs/security.md:72): whoever holds the
\* claim is the requester, of a request that was approved and stays approved.
ClaimNeedsApproval ==
  \A r \in Requests :
    request[r].claimedBy # None =>
      /\ request[r].status = "approved"
      /\ request[r].claimedBy = request[r].requester

\* "Capabilities are request-bound, principal-bound, single-use" (security.md:70):
\* a capability is spent exactly by the decision it authorised.  A timeout and
\* a cancellation leave it unspent, and it is then useless.
CapabilitySpentByDecision ==
  \A r \in Requests :
    /\ capability[r].usedAt # None =>
         /\ request[r].status \in {"approved", "denied"}
         /\ request[r].decidedBy = request[r].approver
         /\ request[r].decidedAt = capability[r].usedAt
    /\ request[r].status \in {"approved", "denied"} =>
         \/ capability[r].usedAt # None
         \/ request[r].decidedBy = SystemTimeout /\ request[r].status = "approved"

\* Capabilities "expire at the earlier of Sentinel's timeout or the caller's
\* upstream expiry" (security.md:70): no human decision carries a time at or
\* after either, however long the deciding process waited for the database.
DecisionInTime ==
  \A r \in Requests :
    capability[r].usedAt # None =>
      /\ request[r].decidedAt < request[r].expiresAt
      /\ request[r].upstream # None => request[r].decidedAt < request[r].upstream

\* Two stored requests never share a requester and an idempotency key, so a
\* key that was used once always finds the request it was used for.
KeyNamesOneRequest ==
  \A r, s \in Requests :
    /\ r # s
    /\ Exists(r) /\ Exists(s)
    /\ request[r].key # NoKey
    /\ request[r].requester = request[s].requester
    => request[r].key # request[s].key

\* "Terminal states are not reversible" (README:84): a settled row keeps its
\* outcome, its author and its time, and a claim keeps its owner - although
\* expireDue settles rows from a list it read before its transaction.
SettledForGood ==
  [][\A r \in Requests :
       /\ request[r].status \in Terminal =>
            /\ request'[r].status = request[r].status
            /\ request'[r].decidedBy = request[r].decidedBy
            /\ request'[r].decidedAt = request[r].decidedAt
       /\ request[r].claimedBy # None =>
            request'[r].claimedBy = request[r].claimedBy]_vars

--------------------------------------------------------------------------
(* The store implements ApprovalLifecycle.                                 *)

Phase(r) == IF request[r].claimedBy # None THEN "released" ELSE request[r].status

Authority(r) ==
  IF request[r].status \notin Terminal THEN "none"
  ELSE IF request[r].decidedBy = SystemTimeout THEN "policy"
  ELSE IF request[r].decidedBy = request[r].approver THEN "approver"
  ELSE "requester"

Lifecycle == INSTANCE ApprovalLifecycle WITH
  phase <- [r \in Requests |-> Phase(r)],
  authority <- [r \in Requests |-> Authority(r)]

\* Every step of the store is a step of the abstract life cycle: opened once,
\* settled once by an authority entitled to the outcome, released at most once.
ImplementsLifecycle == Lifecycle!Spec
==========================================================================
