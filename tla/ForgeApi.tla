------------------------------- MODULE ForgeApi -------------------------------
(***************************************************************************)
(* forge/src/server/ApiServer.ts as `forge serve' (cli.ts) runs it: the    *)
(* order in which a request is judged, the budget of a caller, the         *)
(* pipelines and the runs behind the routes.                               *)
(***************************************************************************)
EXTENDS Naturals, FiniteSets

CONSTANTS
  Ips, Tokens, Strange,      \* addresses; tokens of the policy, tokens it does not know
  Scopes, ExpiresAt,         \* per token
  MaxRequests, Window,       \* rateLimit
  Pipelines, RunIds, None,
  SharedStore,               \* the engine's and the server's store are one file
  MaxTime                    \* bound of the clock

ApiAssumption ==
  /\ MaxRequests \in Nat \ {0} /\ Window \in Nat /\ MaxTime \in Nat
  /\ SharedStore \in BOOLEAN /\ None \notin Tokens \cup Strange

VARIABLES
  now,
  requestLog, accepted,  \* per ip and token: its requests and when they came, pruned; not pruned
  saved,                 \* the pipelines of the server's store
  runs, listed,          \* runs the engine made; what the server's store has of them
  running, answered      \* requests that await their run; runs whose id was sent

vars == <<now, requestLog, accepted, saved, runs, listed, running, answered>>

Keys == Ips \X (Tokens \cup Strange \cup {None})

Requests ==
  [method : {"GET", "POST", "OPTIONS"}, origin : {"none", "listed", "other"},
   body : {"ok", "malformed", "large"}, key : Keys]

Init ==
  /\ now = 0
  /\ requestLog = [k \in Keys |-> {}] /\ accepted = [k \in Keys |-> {}]
  /\ saved = {} /\ runs = {} /\ listed = {} /\ running = {} /\ answered = {}

HasScope(t, scope) == Scopes[t] \cap {"*", "api:*", scope} # {}

ResolveBearer(t) == t \in Tokens /\ now < ExpiresAt[t]

Recent(log) == {q \in log : q.at + Window >= now}
Pruned == [k \in Keys |-> Recent(requestLog[k])]

\* The n-th request of a caller.
Stamp(k) == [n |-> Cardinality(accepted[k]) + 1, at |-> now]

\* The answer of the middleware, in its order; the body is read before the
\* caller is known.
Judged(q) ==
  CASE q.origin = "other" -> 403
    [] q.method = "OPTIONS" -> 204
    [] q.body = "malformed" -> 400
    [] q.body = "large" -> 413
    [] Tokens = {} -> 503
    [] ~ResolveBearer(q.key[2]) -> 401
    [] ~HasScope(q.key[2], IF q.method = "GET" THEN "api:read" ELSE "api:write") -> 403
    [] Cardinality(Recent(requestLog[q.key])) >= MaxRequests -> 429
    [] OTHER -> 200

\* What a refused request leaves in the log.
LogOfRefused(q) == IF Judged(q) = 429 THEN Pruned ELSE requestLog

\* enforceRateLimit, for a request within its budget.
Budget(q) ==
  /\ requestLog' = [Pruned EXCEPT ![q.key] = @ \cup {Stamp(q.key)}]
  /\ accepted' = [accepted EXCEPT ![q.key] = @ \cup {Stamp(q.key)}]

Refuse ==
  /\ \E q \in Requests :
       /\ Judged(q) # 200
       /\ requestLog' = LogOfRefused(q)
  /\ UNCHANGED <<now, accepted, saved, runs, listed, running, answered>>

Admit(method) == \E q \in Requests : q.method = method /\ Judged(q) = 200 /\ Budget(q)

\* The GET routes answer from the server's store.
Read ==
  /\ Admit("GET")
  /\ UNCHANGED <<now, saved, runs, listed, running, answered>>

\* POST /pipelines: an upsert by name.
SavePipeline(p) ==
  /\ Admit("POST")
  /\ saved' = saved \cup {p}
  /\ UNCHANGED <<now, runs, listed, running, answered>>

\* POST /pipelines/:id/run: the engine creates the run and is awaited.
RunPipeline(p, r) ==
  /\ Admit("POST") /\ p \in saved /\ r \notin runs
  /\ runs' = runs \cup {r} /\ running' = running \cup {r}
  /\ listed' = IF SharedStore THEN listed \cup {r} ELSE listed
  /\ UNCHANGED <<now, saved, answered>>

\* 404 and 400 of the routes, within the budget.
NoSuchPipeline ==
  /\ Admit("POST")
  /\ UNCHANGED <<now, saved, runs, listed, running, answered>>

Answer(r) ==
  /\ r \in running
  /\ running' = running \ {r} /\ answered' = answered \cup {r}
  /\ UNCHANGED <<now, requestLog, accepted, saved, runs, listed>>

Tick == now < MaxTime /\ now' = now + 1
        /\ UNCHANGED <<requestLog, accepted, saved, runs, listed, running, answered>>

Next ==
  \/ Refuse \/ Read \/ NoSuchPipeline \/ Tick
  \/ \E p \in Pipelines : SavePipeline(p) \/ \E r \in RunIds : RunPipeline(p, r)
  \/ \E r \in RunIds : Answer(r)

Spec == Init /\ [][Next]_vars

--------------------------------------------------------------------------
(* Properties                                                              *)

TypeOK ==
  /\ now \in 0..MaxTime
  /\ saved \subseteq Pipelines /\ running \cup answered \subseteq runs /\ listed \subseteq runs
  /\ \A k \in Keys : Cardinality(requestLog[k]) <= MaxRequests

\* No window, wherever it starts, holds more admitted requests of a caller
\* than its budget (enforceRateLimit, pruneRequestLog).
RequestsBounded ==
  \A k \in Keys : \A q \in accepted[k] :
    Cardinality({x \in accepted[k] : x.at \in q.at..(q.at + Window)}) <= MaxRequests

\* The log has no more keys than known callers have addresses: whatever a
\* stranger sends, it is judged before it is counted (authenticate before
\* enforceRateLimit).
StrangersAreNotLogged ==
  \A k \in Keys : requestLog[k] # {} => k[2] \in Tokens

\* docs/packages/forge.md: Forge "persists run state, exposes an HTTP API".
AnsweredRunsAreListed == answered \subseteq listed
=============================================================================
