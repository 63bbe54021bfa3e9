---------------------------- MODULE VirtualKeys ----------------------------
(***************************************************************************)
(* auth/KeyManager.ts and the two middlewares every request pipeline       *)
(* starts with (proxy/RequestPipeline.ts): who may call which tool, how    *)
(* often.                                                                  *)
(*                                                                         *)
(* The table of keys is shared by the proxies and the `sentinel keys`      *)
(* command line; the rate limiter's times are in the memory of one proxy.  *)
(* A key's id and its secret are drawn together and never change: one name *)
(* stands for both.  rotate() runs its statements in no transaction, so    *)
(* another process may step in, or its own die, between them.              *)
(***************************************************************************)
EXTENDS Integers, FiniteSets

CONSTANTS
  Ids,      \* ids create() may draw
  Tools,
  Admins,   \* command-line processes
  Proxies,  \* proxy processes
  Calls,    \* tool calls, each used once
  Limits,   \* rpm limits keys are created with, None for none
  Expiries, \* expiries keys are created with, None for none
  None,
  Window,   \* the limiter's 60 seconds
  MaxTime   \* bound: the clock stops here

Times == 0 .. MaxTime

ASSUME KeysAssumption ==
  /\ Window \in Nat /\ MaxTime \in Nat
  /\ None \notin Nat /\ None \notin Ids
  /\ Limits \subseteq Nat \cup {None}
  /\ Expiries \subseteq Nat \cup {None}

VARIABLES
  now,
  key,       \* table virtual_keys
  rotating,  \* per command-line process: the row rotate() has revoked
  recent,    \* RateLimitMiddleware.requestTimes, per proxy: which call passed when
  call,      \* per tool call: where it stands, the key it was resolved to
  heir,      \* history: the key a key was rotated from
  passed     \* history: when the limiter let a key's calls pass, per proxy

vars == <<now, key, rotating, recent, call, heir, passed>>

AbsentKey == [state |-> "absent", tools |-> {}, limit |-> None, expiresAt |-> None]
Row == [state: {"absent", "live", "revoked"}, tools: SUBSET Tools,
        limit: Limits \cup {None}, expiresAt: Expiries \cup {None}]

NewCall == [pc |-> "new", proxy |-> None, id |-> None]

Init ==
  /\ now = 0
  /\ key = [i \in Ids |-> AbsentKey]
  /\ rotating = [a \in Admins |-> None]
  /\ recent = [p \in Proxies |-> [i \in Ids |-> {}]]
  /\ call = [c \in Calls |-> NewCall]
  /\ heir = [i \in Ids |-> None]
  /\ passed = recent

--------------------------------------------------------------------------
(* KeyManager                                                              *)

\* Variant with a bug: a row in the way is replaced.
InsertOrReplace(i, tools, limit, expiresAt) ==
  key' = [key EXCEPT ![i] = [state |-> "live", tools |-> tools,
                             limit |-> limit, expiresAt |-> expiresAt]]

Insert(i, tools, limit, expiresAt) ==
  /\ key[i].state = "absent"
  /\ key' = [key EXCEPT ![i] = [state |-> "live", tools |-> tools,
                                limit |-> limit, expiresAt |-> expiresAt]]

Create(i) ==
  /\ \E tools \in SUBSET Tools, limit \in Limits, expiresAt \in Expiries :
       Insert(i, tools, limit, expiresAt)
  /\ UNCHANGED <<now, rotating, recent, call, heir, passed>>

\* Variant with a bug: a state nobody knows.
SetDisabled(i) == key' = [key EXCEPT ![i].state = "disabled"]

\* UPDATE ... SET is_revoked = 1; of no row when there is none.
SetRevoked(i) == key' = [key EXCEPT ![i].state = IF @ = "absent" THEN @ ELSE "revoked"]

Revoke(i) ==
  /\ SetRevoked(i)
  /\ UNCHANGED <<now, rotating, recent, call, heir, passed>>

\* Variant with a bug: the old key is not revoked.
RotateKeep(a, i) ==
  /\ rotating[a] = None
  /\ key[i].state # "absent"
  /\ rotating' = [rotating EXCEPT ![a] = i]
  /\ UNCHANGED <<now, key, recent, call, heir, passed>>

\* rotate(), first half.  The row may be revoked already.
RotateRevoke(a, i) ==
  /\ rotating[a] = None
  /\ key[i].state # "absent"
  /\ SetRevoked(i)
  /\ rotating' = [rotating EXCEPT ![a] = i]
  /\ UNCHANGED <<now, recent, call, heir, passed>>

\* Variant with a bug: the new key does not expire.
RotateForever(a, i) ==
  LET old == key[rotating[a]] IN
  /\ rotating[a] # None
  /\ Insert(i, old.tools, old.limit, None)
  /\ heir' = [heir EXCEPT ![i] = rotating[a]]
  /\ rotating' = [rotating EXCEPT ![a] = None]
  /\ UNCHANGED <<now, recent, call, passed>>

\* rotate(), second half: the new row carries the old one's terms.
RotateCreate(a, i) ==
  LET old == key[rotating[a]] IN
  /\ rotating[a] # None
  /\ Insert(i, old.tools, old.limit, old.expiresAt)
  /\ heir' = [heir EXCEPT ![i] = rotating[a]]
  /\ rotating' = [rotating EXCEPT ![a] = None]
  /\ UNCHANGED <<now, recent, call, passed>>

CrashAdmin(a) ==
  /\ rotating[a] # None
  /\ rotating' = [rotating EXCEPT ![a] = None]
  /\ UNCHANGED <<now, key, recent, call, heir, passed>>

\* validate(): the expiry itself is still in time.
Valid(i) ==
  /\ key[i].state = "live"
  /\ key[i].expiresAt # None => key[i].expiresAt >= now

--------------------------------------------------------------------------
(* The pipeline.  Whoever presents no valid key is "anonymous", whose list *)
(* of allowed tools is empty.                                              *)

Admissible(i, tool) == Valid(i) /\ tool \in key[i].tools

\* resolveVirtualKey and the allow list run in one turn of the event loop.
Arrive(c, p, i, tool) ==
  /\ call[c].pc = "new"
  /\ call' = [call EXCEPT ![c] =
       IF Admissible(i, tool) THEN [pc |-> "limiter", proxy |-> p, id |-> i]
       ELSE [pc |-> "denied", proxy |-> p, id |-> None]]
  /\ UNCHANGED <<now, key, rotating, recent, heir, passed>>

\* A limit of 0 is falsy, and so no limit.
Limited(i) == key[i].limit \notin {None, 0}

\* Variant with a bug: the window is open at its start.
InOpenWindow(times, t) == {s \in times : s.at > t - Window}

InWindow(times, t) == {s \in times : s.at >= t - Window}

Stamp(c) == [call |-> c, at |-> now]

Pass(c, times) ==
  LET p == call[c].proxy  i == call[c].id IN
  /\ recent' = [recent EXCEPT ![p][i] = times]
  /\ passed' = [passed EXCEPT ![p][i] = @ \cup {Stamp(c)}]
  /\ call' = [call EXCEPT ![c].pc = "passed"]

Limit(c) ==
  LET p == call[c].proxy
      i == call[c].id
      times == InWindow(recent[p][i], now) IN
  /\ call[c].pc = "limiter"
  /\ \/ ~Limited(i) /\ Pass(c, recent[p][i])
     \/ Limited(i) /\ Cardinality(times) < key[i].limit /\ Pass(c, times \cup {Stamp(c)})
     \/ /\ Limited(i) /\ Cardinality(times) >= key[i].limit
        /\ recent' = [recent EXCEPT ![p][i] = times]
        /\ call' = [call EXCEPT ![c].pc = "denied"]
        /\ UNCHANGED passed
  /\ UNCHANGED <<now, key, rotating, heir>>

--------------------------------------------------------------------------
\* A proxy restarts: its calls and the limiter's memory are gone.
Restart(p) ==
  /\ recent' = [recent EXCEPT ![p] = [i \in Ids |-> {}]]
  /\ passed' = [passed EXCEPT ![p] = [i \in Ids |-> {}]]
  /\ call' = [c \in Calls |->
       IF call[c].pc = "limiter" /\ call[c].proxy = p
       THEN [call[c] EXCEPT !.pc = "denied"] ELSE call[c]]
  /\ UNCHANGED <<now, key, rotating, heir>>

Tick ==
  /\ now < MaxTime
  /\ now' = now + 1
  /\ UNCHANGED <<key, rotating, recent, call, heir, passed>>

Next ==
  \/ \E i \in Ids : Create(i) \/ Revoke(i)
  \/ \E a \in Admins, i \in Ids : RotateRevoke(a, i) \/ RotateCreate(a, i)
  \/ \E a \in Admins : CrashAdmin(a)
  \/ \E c \in Calls, p \in Proxies, i \in Ids, tool \in Tools : Arrive(c, p, i, tool)
  \/ \E c \in Calls : Limit(c)
  \/ \E p \in Proxies : Restart(p)
  \/ Tick

Spec == Init /\ [][Next]_vars

--------------------------------------------------------------------------
(* Properties                                                              *)

\* Keys, calls and times have their types.
TypeOK ==
  /\ now \in Times
  /\ key \in [Ids -> Row]
  /\ rotating \in [Admins -> Ids \cup {None}]
  /\ recent \in [Proxies -> [Ids -> SUBSET [call: Calls, at: Times]]]
  /\ passed \in [Proxies -> [Ids -> SUBSET [call: Calls, at: Times]]]
  /\ heir \in [Ids -> Ids \cup {None}]
  /\ call \in [Calls -> [pc: {"new", "limiter", "passed", "denied"},
                         proxy: Proxies \cup {None}, id: Ids \cup {None}]]

\* In no minute, wherever it starts, does one proxy let more calls of a key pass
\* than the key's limit - although refused calls rewrite the limiter's list too,
\* and several calls stand before the limiter at once.
RateBounded ==
  \A p \in Proxies, i \in Ids :
    Limited(i) =>
      \A start \in Times :
        Cardinality({s \in passed[p][i] : s.at \in start .. start + Window}) <= key[i].limit

\* A rotation never leaves two keys that work: whoever else created, revoked or
\* rotated meanwhile, a key with an heir is revoked and stays so.
RotatedKeyIsDead ==
  \A i \in Ids : heir[i] # None => key[heir[i]].state = "revoked"

\* Rotating a key grants nothing its predecessor did not grant: the same tools,
\* rate and expiry, along any chain of rotations.
HeirKeepsTerms ==
  \A i \in Ids :
    heir[i] # None =>
      [key[i] EXCEPT !.state = "revoked"] = key[heir[i]]

\* A key that was revoked admits no call that arrives afterwards, and no later
\* operation brings it back to life.
RevokedForGood ==
  [][\A i \in Ids :
       key[i].state = "revoked" =>
         /\ key'[i] = key[i]
         /\ \A c \in Calls : call[c].pc = "new" => call'[c].id # i]_vars
==========================================================================
