------------------------------ MODULE SafeFetch ------------------------------
(***************************************************************************)
(* shared/src/security/safeFetch.ts and urlPolicy.ts: one safeFetchText()  *)
(* call, hop by hop: the target is resolved, its addresses are reviewed    *)
(* and pinned, the request goes out, a redirect is judged and resolved     *)
(* like the first target, a body is read up to its limit.  One timer runs  *)
(* per hop, and not while the first target is resolved.                    *)
(***************************************************************************)
EXTENDS Naturals, Sequences, FiniteSets

CONSTANTS
  Origins,           \* scheme, host and port; the caller asks for one of them
  Allowed, Trusted,  \* origins the policy accepts; those with trustedPrivateHosts
  Addresses, Public, \* addresses; those outside the block lists
  None,
  MaxRedirects,
  MaxChunks          \* maxResponseBytes, in chunks

Statuses == {301, 302, 303, 307, 308}
Outcomes == {"ok", "policy", "timeout", "failed", "redirect", "tooLarge"}

FetchAssumption ==
  /\ Trusted \subseteq Allowed /\ Allowed \subseteq Origins /\ Public \subseteq Addresses
  /\ MaxRedirects \in Nat /\ MaxChunks \in Nat
  /\ None \notin Statuses /\ None \notin Outcomes

VARIABLES
  dns,                      \* what the name of the target resolves to, now
  pc, result,
  target, pinned,           \* current hop: its origin, the addresses reviewed for it
  redirectCount, via,       \* and the status of the redirect that led here
  method, body, credentials,   \* the request, changed by redirects; PUT: any other method
  timer, aborted, chunks,
  sent                      \* every request that left: [origin, address, via, method, body, credentials]

requestVars == <<method, body, credentials>>
vars == <<dns, pc, result, target, pinned, redirectCount, via, requestVars, timer, aborted,
          chunks, sent>>

Answers == SUBSET Addresses

Init ==
  /\ dns \in Answers
  /\ pc = "resolving" /\ result = None
  /\ target \in Origins /\ pinned = {} /\ redirectCount = 0 /\ via = None
  /\ method \in {"GET", "POST", "PUT"} /\ body \in BOOLEAN /\ credentials \in BOOLEAN
  /\ (method = "GET" => ~body)
  /\ timer = FALSE /\ aborted = FALSE /\ chunks = 0
  /\ sent = <<>>

End(outcome) ==
  /\ pc' = "ended" /\ result' = outcome
  /\ timer' = FALSE

\* normalizeFetchFailure: once the timer has fired, every failure is its own.
Fails(why) == End(IF aborted THEN "timeout" ELSE why)

\* The owner of the name changes what it resolves to.
Rebind ==
  /\ pc # "ended"
  /\ dns' \in Answers
  /\ UNCHANGED <<pc, result, target, pinned, redirectCount, via, requestVars, timer, aborted,
                 chunks, sent>>

\* resolvePublicHttpUrl: the URL is acceptable and every address is.
Reviewed(o, A) == o \in Allowed /\ A # {} /\ (o \in Trusted \/ A \subseteq Public)

\* resolveFetchTarget, for the first target or, with the timer of the hop
\* before still running, for a redirect's.
Resolve ==
  /\ pc = "resolving"
  /\ IF Reviewed(target, dns)
       THEN /\ pinned' = dns
            /\ pc' = "sending" /\ timer' = FALSE /\ aborted' = FALSE
            /\ UNCHANGED result
       ELSE Fails("policy") /\ UNCHANGED <<pinned, aborted>>
  /\ UNCHANGED <<dns, target, redirectCount, via, requestVars, chunks, sent>>

\* createPinnedAgent: the connection asks the agent, not the resolver.
Lookup == pinned

Send ==
  /\ pc = "sending"
  /\ \E a \in Lookup :
       sent' = Append(sent, [origin |-> target, address |-> a, via |-> via,
                             method |-> method, body |-> body, credentials |-> credentials])
  /\ pc' = "fetching" /\ timer' = TRUE
  /\ UNCHANGED <<dns, result, target, pinned, redirectCount, via, requestVars, aborted, chunks>>

Timeout ==
  /\ timer /\ timer' = FALSE /\ aborted' = TRUE
  /\ UNCHANGED <<dns, pc, result, target, pinned, redirectCount, via, requestVars, chunks, sent>>

\* The signal ends the fetch and the read, not the lookup of a redirect.
Abort ==
  /\ aborted /\ pc \in {"fetching", "reading"}
  /\ Fails("timeout")
  /\ UNCHANGED <<dns, target, pinned, redirectCount, via, requestVars, aborted, chunks, sent>>

\* A network error, a content type that is not allowed, a redirect without a
\* location, a content-length over the limit.
ResponseFails ==
  /\ pc \in {"fetching", "reading"} /\ ~aborted
  /\ Fails("failed")
  /\ UNCHANGED <<dns, target, pinned, redirectCount, via, requestVars, aborted, chunks, sent>>

--------------------------------------------------------------------------
(* Redirects                                                               *)

PreservesMethodAndBody(status) == status \in {307, 308}

RewritesToGet(status) == status = 303 \/ (status \in {301, 302} /\ method = "POST")

\* Variant with a bug: credentials come back with the next origin.
CredentialsPerHop(next) == IF next = sent[1].origin THEN sent[1].credentials ELSE FALSE

\* withoutCrossOriginCredentials edits the request of all hops to come.
CredentialsFor(next) == credentials /\ next = target

BodyAfter(status) == body /\ ~RewritesToGet(status)

RefusesBody(status, next) == next # target /\ body /\ PreservesMethodAndBody(status)

TooMany == redirectCount >= MaxRedirects

\* followRedirect and applyRedirectRequestPolicy.
FollowRedirect ==
  /\ pc = "fetching" /\ ~aborted
  /\ \E status \in Statuses, next \in Origins :
       IF TooMany \/ RefusesBody(status, next)
         THEN /\ Fails("redirect")
              /\ UNCHANGED <<dns, target, redirectCount, via, requestVars>>
         ELSE /\ pc' = "resolving"
              /\ dns' \in Answers
              /\ target' = next /\ redirectCount' = redirectCount + 1 /\ via' = status
              /\ credentials' = CredentialsFor(next)
              /\ body' = BodyAfter(status)
              /\ method' = IF RewritesToGet(status) THEN "GET" ELSE method
              /\ UNCHANGED <<result, timer>>
  /\ UNCHANGED <<pinned, aborted, chunks, sent>>

--------------------------------------------------------------------------
(* The body of the last response                                           *)

Headers ==
  /\ pc = "fetching" /\ ~aborted
  /\ pc' = "reading"
  /\ UNCHANGED <<dns, result, target, pinned, redirectCount, via, requestVars, timer, aborted,
                 chunks, sent>>

ReadChunk ==
  /\ pc = "reading" /\ ~aborted
  /\ chunks' = chunks + 1
  /\ IF chunks' > MaxChunks THEN Fails("tooLarge") ELSE UNCHANGED <<pc, result, timer>>
  /\ UNCHANGED <<dns, target, pinned, redirectCount, via, requestVars, aborted, sent>>

Complete ==
  /\ pc = "reading" /\ ~aborted
  /\ End("ok")
  /\ UNCHANGED <<dns, target, pinned, redirectCount, via, requestVars, aborted, chunks, sent>>

Next ==
  \/ Rebind \/ Resolve \/ Send \/ Timeout \/ Abort \/ ResponseFails
  \/ FollowRedirect \/ Headers \/ ReadChunk \/ Complete

Spec == Init /\ [][Next]_vars

\* The resolver answers and timers fire; nothing is assumed of the server.
Fairness == WF_vars(Resolve) /\ WF_vars(Send) /\ WF_vars(Timeout) /\ WF_vars(Abort)

FairSpec == Spec /\ Fairness

--------------------------------------------------------------------------

\* The call and the requests it sent are well formed.
TypeOK ==
  /\ dns \in Answers /\ pinned \in Answers /\ target \in Origins
  /\ pc \in {"resolving", "sending", "fetching", "reading", "ended"}
  /\ result \in Outcomes \cup {None}
  /\ (result # None) <=> (pc = "ended")
  /\ method \in {"GET", "POST", "PUT"} /\ (method = "GET" => ~body)
  /\ {body, credentials, timer, aborted} \subseteq BOOLEAN
  /\ timer => pc # "ended"
  /\ chunks \in 0..(MaxChunks + 1)

\* However names are rebound between the review and the connection, and from
\* hop to hop, every connection goes to an address the policy accepts.
OnlyReviewedAddresses ==
  \A i \in 1..Len(sent) :
    sent[i].origin \in Allowed /\ (sent[i].origin \in Trusted \/ sent[i].address \in Public)

\* Credentials reach the origin the caller named and, once a redirect has left
\* it, nobody any more, not even that origin.
CredentialsStayHome ==
  \A i \in 1..Len(sent) : sent[i].credentials =>
    \A j \in 1..i : sent[j].origin = sent[1].origin

\* The redirects of a call are bounded, so is what it asks of others.
RedirectsBounded == Len(sent) <= MaxRedirects + 1

\* A GET has no body, and where a redirect leads to another origin a body goes
\* along only on a 301 or 302, with a method that is neither GET nor POST.
BodyForwarding ==
  \A i \in 1..Len(sent) : sent[i].body =>
    /\ sent[i].method # "GET"
    /\ \/ sent[i].via = None \/ sent[i].origin = sent[i - 1].origin
       \/ sent[i].method = "PUT" /\ sent[i].via \in {301, 302}

\* The error of applyRedirectRequestPolicy: "cross-origin redirect cannot forward
\* a request body".  What is sent goes, as far as it has a body, to one origin.
BodiesStayAtOrigin ==
  \A i \in 2..Len(sent) : sent[i].body => sent[i].origin = sent[i - 1].origin

\* A call, with all its hops, ends although the server stalls, before the headers or after.
FetchEnds == <>(pc = "ended")
==========================================================================
