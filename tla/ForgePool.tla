------------------------------- MODULE ForgePool -------------------------------
(***************************************************************************)
(* forge/src/connections/ServerPool.ts, for one server: callers acquire a  *)
(* connection, wait for one, release it; the idle sweep replaces the array *)
(* of entries, which acquirers in flight still hold.                       *)
(***************************************************************************)
EXTENDS Naturals, FiniteSets

CONSTANTS Callers, Clients, MaxSize, None, MaxSweeps

PoolAssumption == MaxSize \in Nat \ {0} /\ MaxSweeps \in Nat /\ None \notin Clients

VARIABLES
  arrays,   \* the arrays the pool had: sets of clients, the last one is current
  entry,    \* per client: [inUse, idle, connected]; idle once the timeout has passed
  caller,   \* per caller: [pc, array, client]
  down      \* shutdown() has run

vars == <<arrays, entry, caller, down>>

NoEntry == [inUse |-> FALSE, idle |-> FALSE, connected |-> FALSE]
Idle == [pc |-> "idle", array |-> 0, client |-> None]

Init ==
  /\ arrays = [i \in {1} |-> {}]
  /\ entry = [x \in Clients |-> NoEntry]
  /\ caller = [c \in Callers |-> Idle]
  /\ down = FALSE

Current == Cardinality(DOMAIN arrays)
Free(i) == {x \in arrays[i] : ~entry[x].inUse}
Used(x) == [entry EXCEPT ![x].inUse = TRUE, ![x].idle = FALSE]
Fresh == {x \in Clients : entry[x] = NoEntry /\ \A i \in DOMAIN arrays : x \notin arrays[i]}

--------------------------------------------------------------------------

Acquire(c) ==
  /\ caller[c] = Idle
  /\ IF Free(Current) # {}
       THEN \E x \in Free(Current) :
              /\ entry' = Used(x)
              /\ caller' = [caller EXCEPT ![c] = [pc |-> "holding", array |-> 0, client |-> x]]
       ELSE /\ caller' = [caller EXCEPT ![c] =
                 [pc |-> IF Cardinality(arrays[Current]) < MaxSize THEN "creating" ELSE "waiting",
                  array |-> Current, client |-> None]]
            /\ UNCHANGED entry
  /\ UNCHANGED <<arrays, down>>

\* createFn() ends: the entry goes into the array acquire() began with.
Created(c) ==
  /\ caller[c].pc = "creating"
  /\ \/ \E x \in Fresh :
          /\ entry' = [entry EXCEPT ![x] = [inUse |-> TRUE, idle |-> FALSE, connected |-> TRUE]]
          /\ arrays' = [arrays EXCEPT ![caller[c].array] = @ \cup {x}]
          /\ caller' = [caller EXCEPT ![c] = [pc |-> "holding", array |-> 0, client |-> x]]
     \/ caller' = [caller EXCEPT ![c] = Idle] /\ UNCHANGED <<entry, arrays>>
  /\ UNCHANGED down

\* The interval of a waiter, over the array it began with.
Poll(c) ==
  /\ caller[c].pc = "waiting"
  /\ \E x \in Free(caller[c].array) :
       /\ entry' = Used(x)
       /\ caller' = [caller EXCEPT ![c] = [pc |-> "holding", array |-> 0, client |-> x]]
  /\ UNCHANGED <<arrays, down>>

\* release() looks the client up in the current array.
Release(c) ==
  /\ caller[c].pc = "holding"
  /\ entry' = IF caller[c].client \in arrays[Current]
                THEN [entry EXCEPT ![caller[c].client].inUse = FALSE] ELSE entry
  /\ caller' = [caller EXCEPT ![c] = Idle]
  /\ UNCHANGED <<arrays, down>>

\* idleTimeoutMs pass: longer than the interval of any waiter.
IdleTimePasses ==
  /\ \A c \in Callers : caller[c].pc = "waiting" => Free(caller[c].array) = {}
  /\ entry' = [x \in Clients |-> IF entry[x].connected /\ ~entry[x].inUse
                                   THEN [entry[x] EXCEPT !.idle = TRUE] ELSE entry[x]]
  /\ UNCHANGED <<arrays, caller, down>>

\* Variant with a bug: what is disconnected stays in the pool.
CleanupKeeps ==
  /\ Current <= MaxSweeps
  /\ entry' = [x \in Clients |-> IF x \in arrays[Current] /\ entry[x].idle
                                   THEN [entry[x] EXCEPT !.connected = FALSE] ELSE entry[x]]
  /\ arrays' = [i \in 1..(Current + 1) |-> arrays[IF i <= Current THEN i ELSE Current]]
  /\ UNCHANGED <<caller, down>>

\* The sweep disconnects what is idle and puts a new array in place.
Cleanup ==
  /\ Current <= MaxSweeps
  /\ LET out == {x \in arrays[Current] : entry[x].idle}
     IN  /\ entry' = [x \in Clients |-> IF x \in out THEN [entry[x] EXCEPT !.connected = FALSE]
                                        ELSE entry[x]]
         /\ arrays' = [i \in 1..(Current + 1) |-> IF i <= Current THEN arrays[i]
                                                  ELSE arrays[Current] \ out]
  /\ UNCHANGED <<caller, down>>

\* Every connection of the current array goes, those in use included, and the
\* array is forgotten: who acquires now begins with a new one.
Shutdown ==
  /\ ~down /\ down' = TRUE
  /\ entry' = [x \in Clients |-> IF x \in arrays[Current] THEN [entry[x] EXCEPT !.connected = FALSE]
                                 ELSE entry[x]]
  /\ arrays' = [i \in 1..(Current + 1) |-> IF i <= Current THEN arrays[i] ELSE {}]
  /\ UNCHANGED caller

Next ==
  \/ \E c \in Callers : Acquire(c) \/ Created(c) \/ Poll(c) \/ Release(c)
  \/ IdleTimePasses \/ Cleanup \/ Shutdown

Spec == Init /\ [][Next]_vars

--------------------------------------------------------------------------
(* Properties                                                              *)

Holders(x) == {c \in Callers : caller[c].client = x}

TypeOK ==
  /\ down \in BOOLEAN
  /\ Current \in 1..(MaxSweeps + 2)
  /\ \A c \in Callers : /\ caller[c].pc \in {"idle", "creating", "waiting", "holding"}
                        /\ caller[c].pc = "holding" <=> caller[c].client \in Clients
                        /\ caller[c].client \in Clients => entry[caller[c].client].inUse

\* Two callers never hold one connection, whichever arrays they found it in
\* and however often the sweep came in between (acquire, release).
ExclusiveUse == \A x \in Clients : Cardinality(Holders(x)) <= 1

\* Until the pool is shut down, a connection that is held is connected: the
\* sweep does not take it from a caller, nor does a waiter on an array the
\* sweep replaced get one it has disconnected (cleanupIdleConnections).
HeldIsConnected == ~down => \A x \in Clients : Holders(x) # {} => entry[x].connected

\* ServerPool.ts, acquire: "Create new if below max".
SizeBounded == Cardinality({x \in Clients : entry[x].connected}) <= MaxSize
=============================================================================
