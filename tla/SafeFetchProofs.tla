-------------------------- MODULE SafeFetchProofs --------------------------
(***************************************************************************)
(* Theorems about SafeFetch, for any origins, addresses and limits, and    *)
(* however names are rebound while a call follows redirects.               *)
(*                                                                         *)
(* What every request that was sent looks like follows from what the call  *)
(* carries to its next hop (HopInv): that the pinned addresses are those   *)
(* that were reviewed, that credentials are left only if no hop led away,  *)
(* and that a body moves on only to where the last request went, or by a   *)
(* 301 or 302 that keeps a PUT.                                            *)
(***************************************************************************)
EXTENDS SafeFetch, TLAPS

Requests == [origin: Origins, address: Addresses, via: Statuses \cup {None},
             method: {"GET", "POST", "PUT"}, body: BOOLEAN, credentials: BOOLEAN]

Typed ==
  /\ TypeOK
  /\ sent \in Seq(Requests)
  /\ via \in Statuses \cup {None}
  /\ redirectCount \in 0 .. MaxRedirects
  /\ pc # "ended" => chunks <= MaxChunks

\* Requests sent, by redirects followed: the one of this hop may be to come.
Counted ==
  /\ pc \in {"resolving", "sending"} => Len(sent) = redirectCount
  /\ pc \in {"fetching", "reading"} => Len(sent) = redirectCount + 1
  /\ Len(sent) <= redirectCount + 1

HopInv ==
  /\ pc = "sending" => Reviewed(target, pinned)
  /\ via # None => Len(sent) > 0
  /\ Len(sent) > 0 => sent[1].via = None
  /\ pc \in {"fetching", "reading"} => sent[Len(sent)].origin = target
  /\ pc # "ended" /\ credentials => \A i \in 1 .. Len(sent) : sent[i].origin = target
  /\ pc # "ended" /\ body /\ via # None =>
       \/ sent[Len(sent)].origin = target
       \/ method = "PUT" /\ via \in {301, 302}

Goals == OnlyReviewedAddresses /\ CredentialsStayHome /\ BodyForwarding

FetchInv == Typed /\ Counted /\ HopInv /\ Goals

--------------------------------------------------------------------------

LEMMA FetchInit == ASSUME FetchAssumption, Init PROVE FetchInv
<1>1. /\ sent = <<>> /\ sent \in Seq(Requests) /\ Len(sent) = 0 /\ 1 .. Len(sent) = {}
      /\ pc = "resolving" /\ redirectCount = 0 /\ via = None
  BY DEF Init
<1>2. Typed
  <2>1. TypeOK
    <3>1. {body, credentials, timer, aborted} \subseteq BOOLEAN /\ ~timer
      BY Zenon DEF Init
    <3>2. /\ dns \in Answers /\ pinned \in Answers /\ target \in Origins
          /\ method \in {"GET", "POST", "PUT"} /\ (method = "GET" => ~body)
          /\ chunks \in 0 .. (MaxChunks + 1) /\ result = None
      BY DEF Init, Answers, FetchAssumption
    <3>3. QED BY <1>1, <3>1, <3>2 DEF TypeOK
  <2>2. redirectCount \in 0 .. MaxRedirects /\ chunks <= MaxChunks
    BY DEF Init, FetchAssumption
  <2>3. QED BY <1>1, <2>1, <2>2 DEF Typed
<1>3. Counted /\ HopInv /\ Goals
  <2>1. Counted /\ HopInv
    BY <1>1 DEF Counted, HopInv, FetchAssumption, Statuses
  <2>2. Goals
    BY <1>1 DEF Goals, OnlyReviewedAddresses, CredentialsStayHome, BodyForwarding
  <2>3. QED BY <2>1, <2>2
<1>4. QED BY <1>2, <1>3 DEF FetchInv

\* The end of a call, with whatever outcome, changes neither its requests nor
\* the hop they stand at.
LEMMA EndStep ==
  ASSUME FetchAssumption, FetchInv, NEW outcome \in Outcomes, End(outcome),
         UNCHANGED <<dns, target, redirectCount, via, requestVars, sent>>,
         pinned' \in Answers, aborted' \in BOOLEAN, chunks' \in 0 .. (MaxChunks + 1)
  PROVE  FetchInv'
<1>1. pc' = "ended" /\ result' = outcome /\ timer' = FALSE
  BY DEF End
<1>2. Typed'
  BY <1>1 DEF FetchInv, Typed, TypeOK, requestVars, FetchAssumption, Outcomes
<1>3. Counted'
  BY <1>1 DEF FetchInv, Counted
<1>4. HopInv'
  BY <1>1 DEF FetchInv, HopInv
<1>5. Goals'
  BY DEF FetchInv, Goals, OnlyReviewedAddresses, CredentialsStayHome, BodyForwarding
<1>6. QED BY <1>2, <1>3, <1>4, <1>5 DEF FetchInv

LEMMA FailsEnds == ASSUME NEW why \in Outcomes, Fails(why) PROVE \E outcome \in Outcomes : End(outcome)
BY DEF Fails, Outcomes

\* A step that leaves the hop and its requests alone.
LEMMA HopStays ==
  ASSUME FetchInv, UNCHANGED <<target, redirectCount, via, requestVars, sent>>,
         pc' = pc \/ (pc = "fetching" /\ pc' = "reading"),
         pc = "sending" => pinned' = pinned
  PROVE  Counted' /\ HopInv' /\ Goals'
<1>1. Counted'
  BY DEF FetchInv, Counted
<1>2. HopInv'
  BY DEF FetchInv, HopInv, requestVars
<1>3. Goals'
  BY DEF FetchInv, Goals, OnlyReviewedAddresses, CredentialsStayHome, BodyForwarding
<1>4. QED BY <1>1, <1>2, <1>3

LEMMA ResolveStep == ASSUME FetchAssumption, FetchInv, Resolve PROVE FetchInv'
<1>1. CASE Reviewed(target, dns)
  <2>1. /\ pc = "resolving" /\ pinned' = dns /\ pc' = "sending"
        /\ timer' = FALSE /\ aborted' = FALSE
        /\ UNCHANGED <<result, dns, target, redirectCount, via, requestVars, chunks, sent>>
    BY <1>1 DEF Resolve
  <2>2. Typed'
    BY <2>1 DEF FetchInv, Typed, TypeOK, requestVars
  <2>3. Counted'
    BY <2>1 DEF FetchInv, Counted
  <2>4. HopInv'
    BY <1>1, <2>1 DEF FetchInv, HopInv, requestVars, Reviewed
  <2>5. Goals'
    BY <2>1 DEF FetchInv, Goals, OnlyReviewedAddresses, CredentialsStayHome, BodyForwarding
  <2>6. QED BY <2>2, <2>3, <2>4, <2>5 DEF FetchInv
<1>2. CASE ~Reviewed(target, dns)
  <2>1. Fails("policy") /\ UNCHANGED <<pinned, aborted, dns, target, redirectCount, via,
                                       requestVars, chunks, sent>>
    BY <1>2 DEF Resolve
  <2>2. QED BY <2>1, FailsEnds, EndStep DEF Outcomes, FetchInv, Typed, TypeOK
<1>3. QED BY <1>1, <1>2

LEMMA SendStep == ASSUME FetchAssumption, FetchInv, Send PROVE FetchInv'
<1>1. PICK a \in pinned :
        sent' = Append(sent, [origin |-> target, address |-> a, via |-> via,
                              method |-> method, body |-> body, credentials |-> credentials])
  BY DEF Send, Lookup
<1> DEFINE req == [origin |-> target, address |-> a, via |-> via,
                   method |-> method, body |-> body, credentials |-> credentials]
<1>2. /\ pc = "sending" /\ pc' = "fetching" /\ timer' = TRUE
      /\ UNCHANGED <<dns, result, target, pinned, redirectCount, via, requestVars, aborted, chunks>>
  BY DEF Send
<1>3. /\ Typed /\ a \in Addresses /\ sent \in Seq(Requests) /\ Len(sent) \in Nat
      /\ method = "GET" => ~body
      /\ Reviewed(target, pinned)
  BY <1>1, <1>2 DEF FetchInv, Typed, TypeOK, Answers, HopInv
<1>4. req \in Requests
  BY <1>3 DEF Requests, Typed, TypeOK
<1>5. /\ req.origin = target /\ req.address = a /\ req.via = via /\ req.method = method
      /\ req.body = body /\ req.credentials = credentials
  OBVIOUS
<1> HIDE DEF req
<1>6. /\ sent' \in Seq(Requests) /\ Len(sent') = Len(sent) + 1 /\ sent'[Len(sent) + 1] = req
      /\ \A i \in 1 .. Len(sent) : sent'[i] = sent[i]
  BY <1>1, <1>3, <1>4 DEF req
<1>7. Typed'
  BY <1>2, <1>6 DEF FetchInv, Typed, TypeOK, requestVars
<1>8. Counted'
  BY <1>2, <1>3, <1>6 DEF FetchInv, Counted
<1>9. HopInv'
  BY <1>2, <1>3, <1>5, <1>6 DEF FetchInv, HopInv, requestVars
<1>10. OnlyReviewedAddresses'
  <2>1. req.origin \in Allowed /\ (req.origin \in Trusted \/ req.address \in Public)
    BY <1>3, <1>5 DEF Reviewed
  <2>2. QED BY <1>3, <1>6, <2>1 DEF FetchInv, Goals, OnlyReviewedAddresses
<1>11. CredentialsStayHome'
  <2> SUFFICES ASSUME NEW i \in 1 .. Len(sent) + 1, sent'[i].credentials, NEW j \in 1 .. i
               PROVE  sent'[j].origin = sent'[1].origin
    BY <1>6 DEF CredentialsStayHome
  <2>1. CASE i \in 1 .. Len(sent)
    BY <1>3, <1>6, <2>1 DEF FetchInv, Goals, CredentialsStayHome
  <2>2. CASE i = Len(sent) + 1
    <3>1. credentials
      BY <1>5, <1>6, <2>2
    <3>2. \A k \in 1 .. Len(sent) : sent[k].origin = target
      BY <1>2, <3>1 DEF FetchInv, HopInv
    <3>3. \A k \in 1 .. Len(sent) + 1 : sent'[k].origin = target
      BY <1>3, <1>5, <1>6, <3>2
    <3>4. QED BY <1>3, <2>2, <3>3
  <2>3. QED BY <1>3, <2>1, <2>2
<1>12. BodyForwarding'
  <2> SUFFICES ASSUME NEW i \in 1 .. Len(sent) + 1, sent'[i].body
               PROVE  /\ sent'[i].method # "GET"
                      /\ \/ sent'[i].via = None \/ sent'[i].origin = sent'[i - 1].origin
                         \/ sent'[i].method = "PUT" /\ sent'[i].via \in {301, 302}
    BY <1>6 DEF BodyForwarding
  <2>1. CASE i \in 1 .. Len(sent)
    <3>1. /\ sent[i].method # "GET"
          /\ \/ sent[i].via = None \/ sent[i].origin = sent[i - 1].origin
             \/ sent[i].method = "PUT" /\ sent[i].via \in {301, 302}
      BY <1>6, <2>1 DEF FetchInv, Goals, BodyForwarding
    <3>2. CASE i > 1
      BY <1>3, <1>6, <2>1, <3>1, <3>2
    <3>3. CASE i = 1
      <4>1. sent'[1] = sent[1] /\ sent[1].via = None
        BY <1>3, <1>6, <2>1, <3>3 DEF FetchInv, HopInv
      <4>2. QED BY <3>1, <3>3, <4>1
    <3>4. QED BY <1>3, <2>1, <3>2, <3>3
  <2>2. CASE i = Len(sent) + 1
    <3>1. body
      BY <1>5, <1>6, <2>2
    <3>2. via # None => /\ Len(sent) > 0
                        /\ \/ sent[Len(sent)].origin = target
                           \/ method = "PUT" /\ via \in {301, 302}
      BY <1>2, <3>1 DEF FetchInv, HopInv
    <3>3. Len(sent) > 0 => sent'[i - 1] = sent[Len(sent)]
      BY <1>3, <1>6, <2>2
    <3>4. QED BY <1>3, <1>5, <1>6, <2>2, <3>1, <3>2, <3>3
  <2>3. QED BY <1>3, <2>1, <2>2
<1>13. QED BY <1>7, <1>8, <1>9, <1>10, <1>11, <1>12 DEF FetchInv, Goals

LEMMA RedirectStep == ASSUME FetchAssumption, FetchInv, FollowRedirect PROVE FetchInv'
<1>0. /\ pc = "fetching" /\ UNCHANGED <<pinned, aborted, chunks, sent>>
      /\ Typed /\ Counted /\ HopInv /\ Goals /\ sent \in Seq(Requests) /\ Len(sent) \in Nat
  BY DEF FollowRedirect, FetchInv, Typed
<1>1. CASE Fails("redirect") /\ UNCHANGED <<dns, target, redirectCount, via, requestVars>>
  BY <1>0, <1>1, FailsEnds, EndStep DEF Outcomes, Typed, TypeOK
<1>2. CASE ~(Fails("redirect") /\ UNCHANGED <<dns, target, redirectCount, via, requestVars>>)
  <2>1. PICK status \in Statuses, next \in Origins :
          /\ ~TooMany /\ ~RefusesBody(status, next)
          /\ pc' = "resolving" /\ dns' \in Answers
          /\ target' = next /\ redirectCount' = redirectCount + 1 /\ via' = status
          /\ credentials' = CredentialsFor(next)
          /\ body' = BodyAfter(status)
          /\ method' = IF RewritesToGet(status) THEN "GET" ELSE method
          /\ UNCHANGED <<result, timer>>
    BY <1>0, <1>2 DEF FollowRedirect
  <2>2. Typed'
    <3>1. redirectCount' \in 0 .. MaxRedirects
      BY <1>0, <2>1 DEF TooMany, Typed, FetchAssumption
    <3>2. {body', credentials', timer', aborted'} \subseteq BOOLEAN
      BY <1>0, <2>1, Zenon DEF CredentialsFor, BodyAfter, Typed, TypeOK
    <3>3. method' \in {"GET", "POST", "PUT"} /\ (method' = "GET" => ~body')
      BY <1>0, <2>1 DEF BodyAfter, Typed, TypeOK
    <3>4. TypeOK'
      BY <1>0, <2>1, <3>2, <3>3 DEF Typed, TypeOK
    <3>5. QED BY <1>0, <2>1, <3>1, <3>4 DEF Typed
  <2>3. Counted'
    BY <1>0, <2>1 DEF Counted, Typed
  <2>4. HopInv'
    <3>1. Len(sent) > 0 /\ sent[Len(sent)].origin = target
      BY <1>0 DEF Counted, HopInv, Typed, FetchAssumption
    <3>2. credentials' => \A i \in 1 .. Len(sent) : sent[i].origin = target'
      BY <1>0, <2>1 DEF CredentialsFor, HopInv
    <3>3. body' => \/ sent[Len(sent)].origin = target'
                   \/ method' = "PUT" /\ via' \in {301, 302}
      <4>1. CASE next = target
        BY <2>1, <3>1, <4>1
      <4>2. CASE next # target /\ body'
        <5>1. body /\ ~RewritesToGet(status) /\ ~PreservesMethodAndBody(status) /\ method' = method
          BY <2>1, <4>2 DEF BodyAfter, RefusesBody
        <5>2. status \in {301, 302} /\ method # "POST"
          BY <5>1 DEF RewritesToGet, PreservesMethodAndBody, Statuses
        <5>3. method = "PUT"
          BY <1>0, <5>1, <5>2 DEF Typed, TypeOK
        <5>4. QED BY <2>1, <5>1, <5>2, <5>3
      <4>3. QED BY <4>1, <4>2
    <3>4. QED BY <1>0, <2>1, <3>1, <3>2, <3>3 DEF HopInv
  <2>5. Goals'
    BY <1>0 DEF Goals, OnlyReviewedAddresses, CredentialsStayHome, BodyForwarding
  <2>6. QED BY <2>2, <2>3, <2>4, <2>5 DEF FetchInv
<1>3. QED BY <1>1, <1>2

LEMMA ReadStep == ASSUME FetchAssumption, FetchInv, ReadChunk PROVE FetchInv'
<1>1. /\ pc = "reading" /\ chunks' = chunks + 1 /\ chunks \in 0 .. MaxChunks /\ Typed
      /\ MaxChunks \in Nat
      /\ UNCHANGED <<dns, target, pinned, redirectCount, via, requestVars, aborted, sent>>
  BY DEF ReadChunk, FetchInv, Typed, TypeOK, FetchAssumption
<1>2. CASE chunks' > MaxChunks
  <2>1. Fails("tooLarge") /\ chunks' \in 0 .. (MaxChunks + 1)
    BY <1>1, <1>2 DEF ReadChunk
  <2>2. QED BY <1>1, <2>1, FailsEnds, EndStep DEF Outcomes, Typed, TypeOK
<1>3. CASE ~(chunks' > MaxChunks)
  <2>1. UNCHANGED <<pc, result, timer>> /\ chunks' \in 0 .. MaxChunks
    BY <1>1, <1>3 DEF ReadChunk
  <2>2. Counted' /\ HopInv' /\ Goals'
    BY <1>1, <2>1, HopStays
  <2>3. Typed'
    BY <1>1, <2>1 DEF Typed, TypeOK, requestVars
  <2>4. QED BY <2>2, <2>3 DEF FetchInv
<1>4. QED BY <1>2, <1>3

LEMMA FetchStep == ASSUME FetchAssumption, FetchInv, [Next]_vars PROVE FetchInv'
<1>0. Typed /\ TypeOK
  BY DEF FetchInv, Typed
<1>1. CASE Rebind
  <2>1. /\ dns' \in Answers
        /\ UNCHANGED <<pc, result, target, pinned, redirectCount, via, requestVars, timer,
                       aborted, chunks, sent>>
    BY <1>1 DEF Rebind
  <2>2. Typed'
    BY <1>0, <2>1 DEF Typed, TypeOK, requestVars
  <2>3. QED BY <2>1, <2>2, HopStays DEF FetchInv
<1>2. CASE Timeout
  <2>1. /\ timer' = FALSE /\ aborted' = TRUE
        /\ UNCHANGED <<dns, pc, result, target, pinned, redirectCount, via, requestVars,
                       chunks, sent>>
    BY <1>2 DEF Timeout
  <2>2. Typed'
    BY <1>0, <2>1 DEF Typed, TypeOK, requestVars
  <2>3. QED BY <2>1, <2>2, HopStays DEF FetchInv
<1>3. CASE Abort
  <2>1. /\ Fails("timeout")
        /\ UNCHANGED <<dns, target, pinned, redirectCount, via, requestVars, aborted, chunks, sent>>
    BY <1>3 DEF Abort
  <2>2. QED BY <1>0, <2>1, FailsEnds, EndStep DEF Outcomes, TypeOK
<1>4. CASE ResponseFails
  <2>1. /\ Fails("failed")
        /\ UNCHANGED <<dns, target, pinned, redirectCount, via, requestVars, aborted, chunks, sent>>
    BY <1>4 DEF ResponseFails
  <2>2. QED BY <1>0, <2>1, FailsEnds, EndStep DEF Outcomes, TypeOK
<1>5. CASE Complete
  <2>1. /\ End("ok")
        /\ UNCHANGED <<dns, target, pinned, redirectCount, via, requestVars, aborted, chunks, sent>>
    BY <1>5 DEF Complete
  <2>2. QED BY <1>0, <2>1, EndStep DEF Outcomes, TypeOK
<1>6. CASE Headers
  <2>1. /\ pc = "fetching" /\ pc' = "reading"
        /\ UNCHANGED <<dns, result, target, pinned, redirectCount, via, requestVars, timer,
                       aborted, chunks, sent>>
    BY <1>6 DEF Headers
  <2>2. Typed'
    BY <1>0, <2>1 DEF Typed, TypeOK, requestVars
  <2>3. QED BY <2>1, <2>2, HopStays DEF FetchInv
<1>7. CASE UNCHANGED vars
  <2>1. Typed'
    BY <1>0, <1>7 DEF vars, Typed, TypeOK, requestVars
  <2>2. QED BY <1>7, <2>1, HopStays DEF vars, FetchInv
<1>8. QED BY <1>1, <1>2, <1>3, <1>4, <1>5, <1>6, <1>7,
             ResolveStep, SendStep, RedirectStep, ReadStep DEF Next

LEMMA FetchCorrect == ASSUME FetchAssumption PROVE Spec => []FetchInv
<1>1. Init => FetchInv
  BY FetchInit
<1>2. FetchInv /\ [Next]_vars => FetchInv'
  BY FetchStep
<1>3. QED BY <1>1, <1>2, PTL DEF Spec

--------------------------------------------------------------------------
(* Theorems                                                                *)

\* The state of a call is well formed; its body never grows past one chunk
\* over the limit.
THEOREM FetchTypeCorrect == ASSUME FetchAssumption PROVE Spec => []TypeOK
<1>1. FetchInv => TypeOK
  BY DEF FetchInv, Typed
<1>2. QED BY <1>1, FetchCorrect, PTL

\* Every connection goes to an address the policy accepts, although the name
\* may resolve to another one by then (safeFetch.ts, createPinnedAgent).
THEOREM AddressesAreReviewed == ASSUME FetchAssumption PROVE Spec => []OnlyReviewedAddresses
<1>1. FetchInv => OnlyReviewedAddresses
  BY DEF FetchInv, Goals
<1>2. QED BY <1>1, FetchCorrect, PTL

\* Credentials are sent to nobody, not even at home, once a redirect left it.
THEOREM CredentialsAreHome == ASSUME FetchAssumption PROVE Spec => []CredentialsStayHome
<1>1. FetchInv => CredentialsStayHome
  BY DEF FetchInv, Goals
<1>2. QED BY <1>1, FetchCorrect, PTL

\* A GET carries no body, and a redirect takes one to another origin only as a
\* 301 or 302 of a request that is neither GET nor POST: a POST's never leaves,
\* nor does any on a 303, 307 or 308 (safeFetch.ts, applyRedirectRequestPolicy).
THEOREM BodiesGoByRule == ASSUME FetchAssumption PROVE Spec => []BodyForwarding
<1>1. FetchInv => BodyForwarding
  BY DEF FetchInv, Goals
<1>2. QED BY <1>1, FetchCorrect, PTL

\* A call sends at most one request more than the redirects it may follow.
THEOREM FetchesAreBounded == ASSUME FetchAssumption PROVE Spec => []RedirectsBounded
<1>1. FetchAssumption /\ FetchInv => RedirectsBounded
  BY DEF FetchAssumption, FetchInv, Typed, Counted, RedirectsBounded
<1>2. QED BY <1>1, FetchCorrect, PTL
==========================================================================
