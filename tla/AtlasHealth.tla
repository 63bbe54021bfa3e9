----------------------------- MODULE AtlasHealth -----------------------------
(***************************************************************************)
(* The health records of atlas/src/registry: ServerStore's two tables and  *)
(* the rounds HealthMonitor runs over them.  Rounds overlap: the interval  *)
(* does not wait for the round before, and `atlas health` opens the same   *)
(* database from a process of its own.                                     *)
(*                                                                         *)
(* A probe is HealthProbe seen from outside: it ends, some time, with one  *)
(* of three statuses.  Its snapshot is dated by its start, made when it    *)
(* ends, and written after that: a round in another process may write in   *)
(* between.  n numbers the rows in the order they were inserted.           *)
(***************************************************************************)
EXTENDS Naturals, Sequences, FiniteSets, SequencesExt

CONSTANTS
  Servers, Seeds,    \* ids; the ids of the built-in catalogue
  Rounds,            \* checkAll() runs
  MaxClock,          \* bound: readings of the clock
  MaxRows            \* bound: health rows ever inserted

HealthAssumption ==
  IsFiniteSet(Servers) /\ Seeds \subseteq Servers /\ MaxClock \in Nat /\ MaxRows \in Nat

VARIABLES
  present, verified,       \* registry_servers
  health, inserted,        \* health_checks, and how many rows it ever had
  clock,
  pc, todo, listed, at,    \* per round: where it is, what is left, its list, checkedAt
  found,                   \* and what its check found and has not recorded yet
  buried                   \* per server: clock and row count at its last delete

roundVars == <<pc, todo, listed, at, found>>
vars == <<present, verified, health, inserted, clock, roundVars, buried>>

Statuses == {"online", "degraded", "offline"}
Over == {"done", "lost"}
Nothing == [status |-> "none", lastOk |-> 0, seen |-> 0]

Init ==
  /\ present = Seeds /\ verified \in SUBSET Seeds
  /\ health = {} /\ inserted = 0 /\ clock = 1
  /\ pc = [m \in Rounds |-> "idle"]
  /\ todo = [m \in Rounds |-> <<>>] /\ listed = [m \in Rounds |-> {}]
  /\ at = [m \in Rounds |-> 0] /\ found = [m \in Rounds |-> Nothing]
  /\ buried = [s \in Servers |-> [clock |-> 0, n |-> 0]]

Tick ==
  /\ clock < MaxClock
  /\ clock' = clock + 1
  /\ UNCHANGED <<present, verified, health, inserted, roundVars, buried>>

--------------------------------------------------------------------------
(* ServerStore                                                             *)

Checks(s) == {r \in health : r.server = s}

\* ORDER BY checked_at DESC, id DESC: ids are random, so any newest one.
LatestHealth(s) == {r \in Checks(s) : \A q \in Checks(s) : q.at <= r.at}

Successes(s) == {r \in Checks(s) : r.status = "online"}

\* The success that was dated last; 0 for none.
LastSuccessfulAt(s) ==
  IF Successes(s) = {} THEN 0
  ELSE (CHOOSE r \in Successes(s) : \A q \in Successes(s) : q.at <= r.at).lastOk

\* computeQualityScore's part for health.
HealthWeight(r) == CASE r.status = "online" -> 20 [] r.status = "degraded" -> 5
                     [] r.status = "offline" -> 0

\* A new record is never verified; an update may verify it.
Add(s) ==
  /\ s \notin present \cup Seeds
  /\ present' = present \cup {s} /\ verified' = verified \ {s}
  /\ UNCHANGED <<health, inserted, clock, roundVars, buried>>

Update(s) ==
  /\ s \in present
  /\ \E v \in BOOLEAN : verified' = IF v THEN verified \cup {s} ELSE verified \ {s}
  /\ UNCHANGED <<present, health, inserted, clock, roundVars, buried>>

Delete(s) ==
  /\ s \in present
  /\ present' = present \ {s} /\ verified' = verified \ {s}
  /\ health' = health \ Checks(s)
  /\ buried' = [buried EXCEPT ![s] = [clock |-> clock, n |-> inserted]]
  /\ UNCHANGED <<inserted, clock, roundVars>>

\* A process that opens the registry inserts the built-in records it misses,
\* those that were deleted among them.
Seed ==
  /\ ~ Seeds \subseteq present
  /\ present' = present \cup Seeds
  /\ \E V \in SUBSET (Seeds \ present) : verified' = verified \cup V
  /\ UNCHANGED <<health, inserted, clock, roundVars, buried>>

--------------------------------------------------------------------------
(* HealthMonitor                                                           *)

CheckAll(m) ==
  /\ pc[m] = "idle"
  /\ pc' = [pc EXCEPT ![m] = "next"]
  /\ \E order \in SetToSeqs(verified) : todo' = [todo EXCEPT ![m] = order]
  /\ listed' = [listed EXCEPT ![m] = verified]
  /\ UNCHANGED <<present, verified, health, inserted, clock, at, found, buried>>

\* The next server's record is read, and the clock.
CheckServer(m) ==
  /\ pc[m] = "next" /\ todo[m] # <<>> /\ Head(todo[m]) \in present
  /\ pc' = [pc EXCEPT ![m] = "probing"]
  /\ at' = [at EXCEPT ![m] = clock]
  /\ UNCHANGED <<present, verified, health, inserted, clock, todo, listed, found, buried>>

\* The rest of a round is lost, the rows it wrote are not.
Lose(m) ==
  /\ pc' = [pc EXCEPT ![m] = "lost"]
  /\ todo' = [todo EXCEPT ![m] = <<>>] /\ listed' = [listed EXCEPT ![m] = {}]
  /\ at' = [at EXCEPT ![m] = 0] /\ found' = [found EXCEPT ![m] = Nothing]
  /\ UNCHANGED <<present, verified, health, inserted, clock, buried>>

\* The record is gone: checkServer throws and the rest of the round is lost.
ServerNotFound(m) ==
  /\ pc[m] = "next" /\ todo[m] # <<>> /\ Head(todo[m]) \notin present
  /\ Lose(m)

\* Variant with a bug: the last success was read before the probe was awaited.
SnapshotOfStart(m, status) ==
  LET s == Head(todo[m])
      before == {r \in Successes(s) : r.at < at[m]}
  IN [status |-> status, seen |-> inserted,
      lastOk |-> IF status = "online" THEN at[m]
                 ELSE IF before = {} THEN 0
                 ELSE (CHOOSE r \in before : \A q \in before : q.at <= r.at).lastOk]

\* seen: how many rows there had been by then.
Snapshot(m, status) ==
  [status |-> status, seen |-> inserted,
   lastOk |-> IF status = "online" THEN at[m] ELSE LastSuccessfulAt(Head(todo[m]))]

\* The probe is over; a failure looks up the last success.
EndProbe(m) ==
  /\ pc[m] = "probing"
  /\ \E status \in Statuses : found' = [found EXCEPT ![m] = Snapshot(m, status)]
  /\ pc' = [pc EXCEPT ![m] = "recording"]
  /\ UNCHANGED <<present, verified, health, inserted, clock, todo, listed, at, buried>>

\* recordHealthCheck: the row is inserted, whether or not the server is still
\* there, and whatever was recorded since.
RecordHealthCheck(m) ==
  /\ pc[m] = "recording" /\ inserted < MaxRows
  /\ health' = health \cup {[server |-> Head(todo[m]), at |-> at[m], by |-> m, n |-> inserted + 1,
                             status |-> found[m].status, lastOk |-> found[m].lastOk,
                             seen |-> found[m].seen]}
  /\ inserted' = inserted + 1
  /\ pc' = [pc EXCEPT ![m] = "next"]
  /\ todo' = [todo EXCEPT ![m] = Tail(@)] /\ at' = [at EXCEPT ![m] = 0]
  /\ found' = [found EXCEPT ![m] = Nothing]
  /\ UNCHANGED <<present, verified, clock, listed, buried>>

EndRound(m) ==
  /\ pc[m] = "next" /\ todo[m] = <<>>
  /\ pc' = [pc EXCEPT ![m] = "done"]
  /\ UNCHANGED <<present, verified, health, inserted, clock, todo, listed, at, found, buried>>

\* The process of the round ends; its rows are kept.
Kill(m) ==
  /\ pc[m] \in {"next", "probing", "recording"}
  /\ Lose(m)

RoundStep(m) ==
  CheckServer(m) \/ ServerNotFound(m) \/ EndProbe(m) \/ RecordHealthCheck(m) \/ EndRound(m)

Next ==
  \/ Tick \/ Seed
  \/ \E s \in Servers : Add(s) \/ Update(s) \/ Delete(s)
  \/ \E m \in Rounds : CheckAll(m) \/ RoundStep(m) \/ Kill(m)

Spec == Init /\ [][Next]_vars

\* A probe ends (HealthProbe!ProbeEnds) and the round goes on.
Fairness == \A m \in Rounds : WF_vars(RoundStep(m))

FairSpec == Spec /\ Fairness

--------------------------------------------------------------------------

\* The tables and the rounds are well formed.
TypeOK ==
  /\ verified \subseteq present /\ present \subseteq Servers
  /\ \A r \in health : /\ r.server \in Servers /\ r.by \in Rounds /\ r.status \in Statuses
                       /\ r.at \in 1..clock /\ r.lastOk \in 0..clock /\ r.n \in 1..inserted
                       /\ r.seen \in 0..(r.n - 1)
  /\ pc \in [Rounds -> {"idle", "next", "probing", "recording"} \cup Over]
  /\ \A m \in Rounds : Range(todo[m]) \subseteq listed[m] /\ at[m] \in 0..clock

\* A failed check names a success at least as late as any that was on record
\* when its probe had failed, even one recorded while it ran.  One that another
\* process records between that look and the insert it does not know.
FailureKnowsSuccess ==
  \A r, q \in health :
    r.server = q.server /\ r.status # "online" /\ q.status = "online" /\ q.n <= r.seen
      => q.at <= r.lastOk

\* A slow probe that ends late does not replace the health of one begun after it.
LateRowHidesNothing ==
  \A r \in health' \ health : \A s \in {r.server} :
    (\E q \in health : q.server = s /\ q.at > r.at) => LatestHealth(s)' = LatestHealth(s)
SlowProbeHidesNothing == [][LateRowHidesNothing]_vars

\* A round that comes to its end has written a row for each server of its list
\* that was not deleted meanwhile, however many of the probes failed.
RoundCovers ==
  \A m \in Rounds : pc[m] = "done" =>
    \A s \in listed[m] : buried[s].clock > 0 \/ \E r \in health : r.server = s /\ r.by = m

\* Health on record for a server that was deleted can only come from a probe
\* that was running when it was.
OrphansWereInFlight ==
  \A r \in health : r.server \notin present =>
    r.n > buried[r.server].n /\ r.at <= buried[r.server].clock

\* docs/security.md: registry quality scores reward only MCP readiness.
OnlyReadinessIsRewarded ==
  \A s \in present : \A r \in LatestHealth(s) : HealthWeight(r) > 0 => r.status = "online"

\* Every round comes to an end, whatever is deleted under it.
NoRoundRuns == \A m \in Rounds : pc[m] \notin {"next", "probing", "recording"}
RoundsEnd == []<>NoRoundRuns
==========================================================================
