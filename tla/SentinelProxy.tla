--------------------------- MODULE SentinelProxy ---------------------------
(***************************************************************************)
(* proxy/SentinelProxy.ts, handleToolCall() and enforceApproval(): a tool  *)
(* call passes the request pipeline, is held for approval if a policy rule *)
(* says so, reaches the upstream server and leaves a record in the audit   *)
(* log.  The approval part is ApprovalGate; a call of the proxy and its    *)
(* call of the gate share a name.                                          *)
(*                                                                         *)
(* stage[c] says between which two awaits the handler stands.  Virtual     *)
(* keys and the rate limit, which decide whether the pipeline refuses a    *)
(* call before it reaches the policy, are in VirtualKeys: here the         *)
(* pipeline may refuse any call.                                           *)
(***************************************************************************)
EXTENDS ApprovalGate, SequencesExt

CONSTANT Rules  \* PolicyRule[], in order: the payloads it matches, its action

Actions == {"allow", "deny", "transform", "require_approval"}

ASSUME ProxyAssumption == Rules \in Seq([when: SUBSET Payloads, action: Actions])

VARIABLES
  stage,    \* per call: where handleToolCall() stands
  wants,    \* per call: the request it carries, None before it arrives
  audit,    \* table audit_log, split by call
  invoked   \* calls that were sent to the upstream server

proxyVars == <<gateVars, stage, wants, audit, invoked>>

Over == {"denied", "done", "failed", "crashed"}

ProxyInit ==
  /\ GateInit
  /\ stage = [c \in Calls |-> "new"]
  /\ wants = [c \in Calls |-> None]
  /\ audit = [c \in Calls |-> <<>>]
  /\ invoked = {}

\* PolicyEngine.evaluate: the first rule that matches decides.
Evaluate(payload) ==
  LET i == SelectInSeq(Rules, LAMBDA rule : payload \in rule.when) IN
  IF i = 0 THEN "allow" ELSE Rules[i].action

Enter(c, next) == stage' = [stage EXCEPT ![c] = next]

\* auditLog.record(), its reason what the error column tells.
RecordAudit(c, decision, reason) ==
  audit' = [audit EXCEPT ![c] = Append(@, [decision |-> decision, reason |-> reason])]

\* Variant with a bug: the decision is none the log knows.
DenyAsStage(c, reason) == Enter(c, "denied") /\ RecordAudit(c, "denied", reason)

Deny(c, reason) == Enter(c, "denied") /\ RecordAudit(c, "deny", reason)

--------------------------------------------------------------------------
(* handleToolCall                                                          *)

Refuse(c, in) == Deny(c, "pipeline") /\ in \in Inputs

Apply(c, in) ==
  LET action == Evaluate(in.payload) IN
  \/ action = "deny" /\ Deny(c, "policy")
  \/ action \in {"allow", "transform"} /\ Enter(c, "cleared") /\ UNCHANGED audit
  \/ action = "require_approval" /\ Enter(c, "holding") /\ UNCHANGED audit
  \* readOptionalExpiry: the expiry header is no date
  \/ action = "require_approval" /\ Enter(c, "failed") /\ UNCHANGED audit

Arrive(c) ==
  /\ stage[c] = "new"
  /\ \E in \in Inputs :
       /\ wants' = [wants EXCEPT ![c] = in]
       /\ Refuse(c, in) \/ Apply(c, in)
  /\ UNCHANGED <<gateVars, invoked>>

\* holdRequest() runs; when it throws, so does the handler.
Hold(c) ==
  /\ stage[c] = "holding"
  /\ \/ Request(c) /\ call'[c].input = wants[c]
     \/ Publish(c) \/ Published(c) \/ DeliveryFails(c) \/ CancelFailedDispatch(c)
     \/ Poll(c)
  /\ Enter(c, IF call'[c].pc = "failed" THEN "failed" ELSE "holding")
  /\ UNCHANGED <<wants, audit, invoked>>

\* Variants with a bug: whether the claim was won, or made, does not matter.
ProceedIfApproved(c) == call[c].status = "approved"
ProceedUnlessRefused(c) == call[c].status \notin {"denied", "expired"}

MayProceed(c) == call'[c].pc = "released"

DenialReason(c) == IF call[c].status # "approved" THEN call[c].status ELSE "claimed"

\* What follows the hold runs without an await: claim, audit, throw.
Enforce(c) ==
  /\ stage[c] = "holding"
  /\ Claim(c)
  /\ IF MayProceed(c) THEN Enter(c, "cleared") /\ UNCHANGED audit
     ELSE Deny(c, DenialReason(c))
  /\ UNCHANGED <<wants, invoked>>

Invoke(c) ==
  /\ stage[c] = "cleared"
  /\ invoked' = invoked \cup {c}
  /\ Enter(c, "calling")
  /\ UNCHANGED <<gateVars, wants, audit>>

\* Variant with a bug: a failed call leaves no record.
ReturnUnrecorded(c) ==
  /\ stage[c] = "calling"
  /\ \/ Enter(c, "done") /\ RecordAudit(c, "allow", "none")
     \/ Enter(c, "failed") /\ UNCHANGED audit
  /\ UNCHANGED <<gateVars, wants, invoked>>

\* The upstream answers, or the call or the response pipeline throws.
Return(c) ==
  /\ stage[c] = "calling"
  /\ \/ Enter(c, "done") /\ RecordAudit(c, "allow", "none")
     \/ Enter(c, "failed") /\ RecordAudit(c, "allow", "error")
  /\ UNCHANGED <<gateVars, wants, invoked>>

--------------------------------------------------------------------------
\* A proxy process dies between two of its steps.
CrashProxy(S) ==
  /\ CrashProcess(S)
  /\ stage' = [c \in Calls |->
       IF c \in S /\ stage[c] \notin Over \cup {"new"} THEN "crashed" ELSE stage[c]]
  /\ UNCHANGED <<wants, audit, invoked>>

\* The approver, the requester, other processes and the clock.
World ==
  /\ \/ \E r \in Requests : Answer(r) \/ Withdraw(r)
     \/ Sweep \/ Time
  /\ UNCHANGED <<stage, wants, audit, invoked>>

ProxyStep(c) == Arrive(c) \/ Hold(c) \/ Enforce(c) \/ Invoke(c) \/ Return(c)

ProxyNext ==
  \/ \E c \in Calls : ProxyStep(c)
  \/ \E S \in SUBSET Calls : CrashProxy(S)
  \/ World

ProxySpec == ProxyInit /\ [][ProxyNext]_proxyVars

\* The event loop resumes a handler whose await is over; MCPClient bounds the
\* upstream's answer with a timeout; time passes.  An adapter may never answer.
ProxyFairness ==
  /\ \A c \in Calls : /\ WF_proxyVars(Hold(c) /\ call[c].pc = "waiting")
                      /\ WF_proxyVars(Enforce(c) \/ Invoke(c) \/ Return(c))
  /\ WF_proxyVars(Time /\ UNCHANGED <<stage, wants, audit, invoked>>)

FairProxySpec == ProxySpec /\ ProxyFairness

--------------------------------------------------------------------------
(* Properties                                                              *)

NeedsApproval(c) == Evaluate(wants[c].payload) = "require_approval"

\* The proxy's state has its types.
ProxyTypeOK ==
  /\ GateTypeOK
  /\ stage \in [Calls -> Over \cup {"new", "holding", "cleared", "calling"}]
  /\ wants \in [Calls -> Inputs \cup {None}]
  /\ audit \in [Calls -> Seq([decision: {"allow", "deny"},
       reason: Terminal \cup {"pipeline", "policy", "claimed", "none", "error"}])]
  /\ invoked \subseteq Calls

\* "An approved request can release at most one upstream tool invocation"
\* (docs/security.md:72), seen where it counts: whatever crashed or was retried
\* under the same key, no two invocations ran on one approval.
OneInvocationPerApproval ==
  \A c, d \in invoked :
    c # d /\ NeedsApproval(c) /\ NeedsApproval(d) => call[c].id # call[d].id

\* What the upstream server got was allowed: never a call some rule denies, and
\* a call that needs approval only under a claimed approval of just that call.
InvokedByRight ==
  \A c \in invoked :
    LET in == wants[c] IN
    /\ Evaluate(in.payload) # "deny"
    /\ NeedsApproval(c) =>
         /\ request[call[c].id].status = "approved"
         /\ request[call[c].id].claimedBy = in.requester
         /\ SameFingerprint(call[c].id, in.approver, in.payload, in.upstream)

\* The audit log never disagrees with the upstream server: at most one record
\* per call; "allow" only of an invoked one, "deny" never; and every call that
\* was invoked and returned has its record.  Nor with the approval tables: the
\* reason a denial was recorded with is the outcome the request keeps, or the
\* claim another call holds.
AuditTellsTheCall ==
  \A c \in Calls :
    /\ Len(audit[c]) <= 1
    /\ audit[c] # <<>> => (audit[c][1].decision = "allow") = (c \in invoked)
    /\ c \in invoked /\ stage[c] \notin {"calling", "crashed"} => audit[c] # <<>>
    /\ audit[c] # <<>> /\ NeedsApproval(c) =>
      LET reason == audit[c][1].reason IN
      /\ reason \in Terminal => request[call[c].id].status = reason
      /\ reason = "claimed" => request[call[c].id].claimedBy # None

\* A call that waits for approval is answered, unless its process dies: denied
\* or invoked and returned, at the latest when the request expires.
HeldCallReturns ==
  \A c \in Calls : call[c].pc = "waiting" ~> stage[c] \in Over

\* "If approvals or policy checks appear inconsistent, inspect the audit log
\* first" (docs/packages/sentinel.md:31): a call that joined an approval request
\* and ended with an error has left a record.
RefusalsAreAudited ==
  \A c \in Calls :
    call[c].id # None /\ stage[c] \in {"denied", "failed"} => audit[c] # <<>>
==========================================================================
