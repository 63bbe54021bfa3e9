------------------------ MODULE ApprovalLifecycle ------------------------
(***************************************************************************)
(* What Sentinel's approval store promises, without its tables: a request  *)
(* is opened once, settled once, by an authority entitled to that outcome, *)
(* and an approved request releases at most one execution.                 *)
(*                                                                         *)
(* ApprovalStore implements this specification; the mapping is in that     *)
(* module (Lifecycle) and the proof in ApprovalStoreProofs.                *)
(***************************************************************************)
CONSTANTS
  Requests,             \* identities of approval requests
  AllowFailOpenTimeout  \* may a timeout approve?  (ApprovalGate option)

VARIABLES
  phase,      \* where each request is in its life
  authority   \* who settled it: "none" while nobody has

vars == <<phase, authority>>

Outcomes == {"approved", "denied", "expired", "cancelled"}
Phases == {"absent", "pending", "released"} \cup Outcomes
Authorities == {"none", "approver", "requester", "policy"}

\* The outcomes an authority may choose.
Entitled(who, outcome) ==
  \/ who = "approver"  /\ outcome \in {"approved", "denied", "cancelled"}
  \/ who = "requester" /\ outcome = "cancelled"
  \/ who = "policy"    /\ outcome = "expired"
  \/ who = "policy"    /\ outcome = "approved" /\ AllowFailOpenTimeout

Init ==
  /\ phase = [r \in Requests |-> "absent"]
  /\ authority = [r \in Requests |-> "none"]

Open(r) ==
  /\ phase[r] = "absent"
  /\ phase' = [phase EXCEPT ![r] = "pending"]
  /\ UNCHANGED authority

\* A timeout sweep may settle several requests in one transaction.
Settle(S, who, outcome) ==
  /\ S # {}
  /\ \A r \in S : phase[r] = "pending"
  /\ Entitled(who, outcome)
  /\ phase' = [r \in Requests |-> IF r \in S THEN outcome ELSE phase[r]]
  /\ authority' = [r \in Requests |-> IF r \in S THEN who ELSE authority[r]]

Release(r) ==
  /\ phase[r] = "approved"
  /\ phase' = [phase EXCEPT ![r] = "released"]
  /\ UNCHANGED authority

Next ==
  \/ \E r \in Requests : Open(r) \/ Release(r)
  \/ \E S \in SUBSET Requests, who \in Authorities, outcome \in Outcomes :
       Settle(S, who, outcome)

Spec == Init /\ [][Next]_vars
==========================================================================
