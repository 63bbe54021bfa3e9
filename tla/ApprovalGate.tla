--------------------------- MODULE ApprovalGate ---------------------------
(***************************************************************************)
(* approval/ApprovalGate.ts over the shared store: concurrent calls that   *)
(* open or join an approval request, publish its capability to the         *)
(* channels, poll for the outcome and claim the execution.                 *)
(*                                                                         *)
(* A call is an async function; call[c].pc says at which of its awaits, or *)
(* between which two of its database transactions, it stands.  Calls may   *)
(* live in one process or in several that share the database, so another   *)
(* call, the command line, the approver or the clock may step in between   *)
(* any two transactions.  Within a transaction the clock is read fresh:    *)
(* ApprovalStore covers readings that grew stale.                          *)
(***************************************************************************)
EXTENDS ApprovalStore

CONSTANTS
  Calls,     \* invocations of holdRequest(), each used once
  Inputs,    \* what a caller may ask for, see Input
  Channels,  \* names of approval channels
  Adapters   \* the channels an adapter is registered for

Input == [requester: Requesters, approver: Approvers, key: Keys \cup {NoKey},
          payload: Payloads, channels: Seq(Channels) \ {<<>>}, timeout: Timeouts,
          upstream: Upstreams, failOpen: BOOLEAN]

ASSUME GateAssumption ==
  /\ Inputs \subseteq Input
  /\ Adapters \subseteq Channels
  /\ None \notin Requests \* randomUUID() is never NULL

VARIABLES
  call,       \* per call: program counter and local variables
  delivered,  \* requests whose capability was handed to an adapter
  undelivered \* history: requests with a channel that could not be served

gateVars == <<vars, call, delivered, undelivered>>

NoCall == [pc |-> "idle", input |-> None, id |-> None, next |-> 0,
           status |-> None, aborted |-> FALSE]

Finished == {"released", "refused", "failed", "crashed"}

GateInit ==
  /\ Init
  /\ call = [c \in Calls |-> NoCall]
  /\ delivered = {}
  /\ undelivered = {}

Resolve(c, status) == [call[c] EXCEPT !.pc = "resolved", !.status = status]
Throw(c) == [call[c] EXCEPT !.pc = "failed"]

--------------------------------------------------------------------------
(* request(): create or join, then publish channel by channel.             *)

\* Past the last channel the call waits.
NextChannel(record, i) ==
  [record EXCEPT !.next = i,
                 !.pc = IF i > Len(record.input.channels) THEN "waiting" ELSE "dispatching"]

\* Variant with a bug: a key may be used again for another request.
RejectedByTime(in) ==
  \/ in.failOpen /\ ~AllowFailOpenTimeout
  \/ ~Acceptable(now + in.timeout, in.upstream, now)

Rejected(in) ==
  \/ in.failOpen /\ ~AllowFailOpenTimeout
  \/ ~Acceptable(now + in.timeout, in.upstream, now)
  \/ \E r \in SameKey(in.requester, in.key) :
       ~SameFingerprint(r, in.approver, in.payload, in.upstream)

Request(c) ==
  /\ call[c].pc = "idle"
  /\ \E in \in Inputs :
       LET started == [call[c] EXCEPT !.input = in]
           existing == SameKey(in.requester, in.key) IN
       /\ now + in.timeout <= MaxTime  \* bound: the clock can reach the expiry
       /\ \/ /\ Rejected(in)
             /\ call' = [call EXCEPT ![c] = [started EXCEPT !.pc = "failed"]]
             /\ UNCHANGED tables
          \/ /\ ~Rejected(in)
             /\ \E r \in existing :
                  \/ /\ ExpireRowIfDue(r, now)
                     /\ call' = [call EXCEPT ![c] =
                          [started EXCEPT !.pc = "resolved", !.id = r, !.status = "expired"]]
                  \/ /\ Pending(r) /\ ~Due(r, now)
                     /\ call' = [call EXCEPT ![c] = [started EXCEPT !.pc = "waiting", !.id = r]]
                     /\ UNCHANGED tables
                  \/ /\ ~Pending(r)
                     /\ call' = [call EXCEPT ![c] = [started EXCEPT
                          !.pc = "resolved", !.id = r, !.status = request[r].status]]
                     /\ UNCHANGED tables
          \/ /\ ~Rejected(in)
             /\ existing = {}
             /\ \E r \in Requests :
                  /\ Insert(r, in.requester, in.approver, in.key, in.payload,
                            now + in.timeout, in.upstream)
                  /\ call' = [call EXCEPT ![c] = NextChannel([started EXCEPT !.id = r], 1)]
  /\ UNCHANGED <<now, op, delivered, undelivered>>

Channel(c) == call[c].input.channels[call[c].next]

\* The adapter holds the capability from the moment publish() is called.
Publish(c) ==
  /\ call[c].pc = "dispatching"
  /\ Channel(c) \in Adapters
  /\ delivered' = delivered \cup {call[c].id}
  /\ call' = [call EXCEPT ![c].pc = "publishing"]
  /\ UNCHANGED <<vars, undelivered>>

\* recordDispatch or recordDispatchFailure; both refuse a settled request, and
\* a refusal of the first is followed by the refusal of the second.
Record(c, type, continue) ==
  LET r == call[c].id IN
  /\ \/ /\ Pending(r)
        /\ log' = [log EXCEPT ![r] = Append(@, Event(type, None))]
        /\ call' = [call EXCEPT ![c] = continue]
     \/ /\ ~Pending(r)
        /\ call' = [call EXCEPT ![c] = Throw(c)]
        /\ UNCHANGED log
  /\ UNCHANGED <<now, request, capability, op, delivered>>

Published(c) ==
  /\ call[c].pc = "publishing"
  /\ Record(c, "dispatched", NextChannel(call[c], call[c].next + 1))
  /\ UNCHANGED undelivered

DeliveryFails(c) ==
  /\ \/ call[c].pc = "publishing"
     \/ call[c].pc = "dispatching" /\ Channel(c) \notin Adapters
  /\ Record(c, "dispatch_failed", [call[c] EXCEPT !.pc = "cancelling"])
  /\ undelivered' = undelivered \cup {call[c].id}

\* cancelFailedDispatch: throws when the request was settled in the meantime.
CancelFailedDispatch(c) ==
  LET r == call[c].id IN
  /\ call[c].pc = "cancelling"
  /\ \/ /\ Due(r, now)
        /\ ExpireRowIfDue(r, now)
        /\ call' = [call EXCEPT ![c] = Throw(c)]
     \/ /\ ~Pending(r)
        /\ call' = [call EXCEPT ![c] = Throw(c)]
        /\ UNCHANGED tables
     \/ /\ Pending(r) /\ ~Due(r, now)
        /\ TransitionPending({r}, "cancelled", now, call[c].input.requester)
        /\ call' = [call EXCEPT ![c] = Resolve(c, "cancelled")]
  /\ UNCHANGED <<now, op, delivered, undelivered>>

--------------------------------------------------------------------------
(* holdRequest(): one turn of the polling loop, in the code's order.       *)

\* Variant with a bug: one tick early.
TimeIsAlmostUp(r) == now + 1 >= request[r].expiresAt

TimeIsUp(r) == now >= request[r].expiresAt

\* Variant with a bug: fail-open for everybody once it is permitted.
OutcomePermitted(c) == IF AllowFailOpenTimeout THEN "approved" ELSE "expired"

TimeoutOutcome(c) == IF call[c].input.failOpen THEN "approved" ELSE "expired"

\* Variant with a bug: the outcome is the intended one, not the stored one.
TimeOutBlindly(c) ==
  /\ call[c].pc = "waiting"
  /\ TimeIsUp(call[c].id)
  /\ TransitionPending({call[c].id}, TimeoutOutcome(c), now, SystemTimeout)
  /\ call' = [call EXCEPT ![c] = Resolve(c, TimeoutOutcome(c))]
  /\ UNCHANGED <<now, op, delivered, undelivered>>

TimeOutWait(c) ==
  LET r == call[c].id
      outcome == TimeoutOutcome(c) IN
  /\ call[c].pc = "waiting"
  /\ TimeIsUp(r)
  /\ TransitionPending({r}, outcome, now, SystemTimeout)
  /\ call' = [call EXCEPT ![c] =
       Resolve(c, IF Pending(r) THEN outcome ELSE request[r].status)]
  /\ UNCHANGED <<now, op, delivered, undelivered>>

\* cancelAfterAbort.  The loop saw the time before the expiry; cancel() looks
\* at the clock again and may find the request due.
AbortWait(c) ==
  LET r == call[c].id IN
  /\ call[c].pc = "waiting"
  /\ call[c].aborted
  /\ \/ /\ Due(r, now)
        /\ ExpireRowIfDue(r, now)
        /\ call' = [call EXCEPT ![c] = Resolve(c, "expired")]
     \/ /\ Pending(r) /\ ~Due(r, now)
        /\ TransitionPending({r}, "cancelled", now, call[c].input.requester)
        /\ call' = [call EXCEPT ![c] = Resolve(c, "cancelled")]
     \/ /\ ~Pending(r)
        /\ call' = [call EXCEPT ![c] = Resolve(c, request[r].status)]
        /\ UNCHANGED tables
  /\ UNCHANGED <<now, op, delivered, undelivered>>

SeeOutcome(c) ==
  LET r == call[c].id IN
  /\ call[c].pc = "waiting"
  /\ ~TimeIsUp(r) /\ ~call[c].aborted
  /\ ~Pending(r)
  /\ call' = [call EXCEPT ![c] = Resolve(c, request[r].status)]
  /\ UNCHANGED <<vars, delivered, undelivered>>

\* Variant with a bug: the loop forgets the deadline.
PollForAnswer(c) == AbortWait(c) \/ SeeOutcome(c)

Poll(c) == TimeOutWait(c) \/ AbortWait(c) \/ SeeOutcome(c)

\* Variant with a bug: the claim does not exclude another.
ClaimShared(c) ==
  LET r == call[c].id
      wins == call[c].status = "approved" /\ request[r].status = "approved" IN
  /\ call[c].pc = "resolved"
  /\ call' = [call EXCEPT ![c].pc = IF wins THEN "released" ELSE "refused"]
  /\ request' = [request EXCEPT ![r].claimedBy = IF wins THEN call[c].input.requester ELSE @]
  /\ UNCHANGED <<now, capability, log, op, delivered, undelivered>>

\* enforceApproval() after the hold: only an approved call may claim, and only
\* the first claim releases the tool call.
Claim(c) ==
  LET r == call[c].id
      wins == /\ call[c].status = "approved" /\ request[r].status = "approved"
              /\ request[r].claimedBy = None
              /\ request[r].requester = call[c].input.requester IN
  /\ call[c].pc = "resolved"
  /\ call' = [call EXCEPT ![c].pc = IF wins THEN "released" ELSE "refused"]
  /\ IF wins THEN ClaimExecution(r, call[c].input.requester, now) ELSE UNCHANGED vars
  /\ UNCHANGED <<delivered, undelivered>>

--------------------------------------------------------------------------
(* The rest of the world.                                                  *)

Abort(c) ==
  /\ call[c].pc \notin Finished \cup {"idle"}
  /\ ~call[c].aborted
  /\ call' = [call EXCEPT ![c].aborted = TRUE]
  /\ UNCHANGED <<vars, delivered, undelivered>>

\* Whoever got the capability from an adapter decides, from any process.
Answer(r) ==
  /\ r \in delivered
  /\ \E p \in Principals, decision \in {"approved", "denied"} : Decide(r, p, decision, now)
  /\ UNCHANGED <<call, delivered, undelivered>>

Withdraw(r) ==
  /\ \E p \in Principals : Cancel(r, p, now)
  /\ UNCHANGED <<call, delivered, undelivered>>

\* expireDue() of some other reader: get(), list() or a newly opened store.
Sweep ==
  /\ \E r \in Requests : Due(r, now)
  /\ TransitionPending({r \in Requests : Due(r, now)}, "expired", now, SystemTimeout)
  /\ UNCHANGED <<now, op, call, delivered, undelivered>>

\* A process dies, and with it a part of the calls; the tables stay.
CrashProcess(S) ==
  /\ call' = [c \in Calls |->
       IF c \in S /\ call[c].pc \notin Finished \cup {"idle"}
       THEN [call[c] EXCEPT !.pc = "crashed"] ELSE call[c]]
  /\ UNCHANGED <<vars, delivered, undelivered>>

Time == Tick /\ UNCHANGED <<call, delivered, undelivered>>

CallStep(c) ==
  \/ Request(c) \/ Publish(c) \/ Published(c) \/ DeliveryFails(c)
  \/ CancelFailedDispatch(c) \/ Poll(c) \/ Claim(c) \/ Abort(c)

GateNext ==
  \/ \E c \in Calls : CallStep(c)
  \/ \E r \in Requests : Answer(r) \/ Withdraw(r)
  \/ \E S \in SUBSET Calls : CrashProcess(S)
  \/ Sweep \/ Time

GateSpec == GateInit /\ [][GateNext]_gateVars

--------------------------------------------------------------------------
(* Properties                                                              *)

PCs == Finished \cup {"idle", "dispatching", "publishing", "cancelling", "waiting", "resolved"}

\* Store and calls hold values of their types.
GateTypeOK ==
  /\ TypeOK
  /\ call \in [Calls -> [pc: PCs, input: Inputs \cup {None}, id: Requests \cup {None},
                         next: Nat, status: Terminal \cup {None}, aborted: BOOLEAN]]
  /\ delivered \subseteq Requests
  /\ undelivered \subseteq Requests

\* "Permits only one concurrent proxy call to reach the upstream tool"
\* (README:116), also when the callers share an idempotency key, abort, or
\* come back after a crash.
OneReleasePerRequest ==
  \A c, d \in Calls :
    c # d /\ call[c].pc = "released" /\ call[d].pc = "released" => call[c].id # call[d].id

\* A released call runs under an approval of exactly what it asked for: its own
\* requester, approver, tool call and upstream bound, whoever created the row.
ReleasedAsApproved ==
  \A c \in Calls :
    call[c].pc = "released" =>
      LET row == request[call[c].id] in == call[c].input IN
        /\ row.status = "approved"
        /\ row.claimedBy = in.requester
        /\ SameFingerprint(call[c].id, in.approver, in.payload, in.upstream)

\* What holdRequest() returned stays the truth: a status read before an await
\* is never contradicted by the row afterwards.
ResultIsFinal ==
  \A c \in Calls :
    call[c].pc \in {"resolved", "released", "refused"} =>
      request[call[c].id].status = call[c].status

\* Timeouts never come early, although expire() itself does not look at the
\* clock: the polling loop does.
NoEarlyTimeout ==
  \A r \in Requests :
    request[r].decidedBy = SystemTimeout => request[r].decidedAt >= request[r].expiresAt

\* A timeout approves only if one of the calls on that request opted in.
FailOpenWasAsked ==
  \A r \in Requests :
    request[r].status = "approved" /\ request[r].decidedBy = SystemTimeout =>
      \E c \in Calls : call[c].id = r /\ call[c].input.failOpen

\* "Adapter delivery failure or a missing requested adapter cancels the request
\* and fails closed" (README:114): such a request releases no execution.
DeliveryFailureFailsClosed == \A r \in undelivered : request[r].claimedBy = None
==========================================================================
