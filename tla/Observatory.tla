----------------------------- MODULE Observatory -----------------------------
(***************************************************************************)
(* Observatory's metrics, alerts and error budget.                         *)
(*                                                                         *)
(* A program records its calls (MCPClientInstrument) in the SQLite file.   *)
(* In the same process an AnomalyDetector compares, once a period of each  *)
(* of its timers, the 99th percentile of the last minutes with the         *)
(* baseline of the last days and triggers the AlertManager.  The dashboard *)
(* is another process on the same file (`observatory serve`): between two  *)
(* of its queries the program may write.                                   *)
(*                                                                         *)
(* Time is counted in halves of the timers' period: a timer fires once in  *)
(* each period, in either half, which stands for its jitter.  A latency is *)
(* Fast or Slow.  What a channel's send() answers changes no state (the    *)
(* detector logs a rejection), so only the attempt is modelled.            *)
(***************************************************************************)
EXTENDS Integers, Sequences, FiniteSets

CONSTANTS
    Channels,    \* the alert channels of addChannel
    Recent,      \* the window of getP99Latency in check(), in halves of a period
    Days,        \* the window of computeBaseline, in the same unit
    CoolDown,    \* the AlertManager's 5 minutes, in the same unit
    Hour,        \* the window of the dashboard's error rate, in the same unit
    Burst,       \* good calls recorded at once
    MaxTime,     \* bound: halves of a period
    MaxStarts,   \* bound: calls of start()
    MaxBursts,   \* bound: bursts of good calls
    MaxSlow,     \* bound: slow calls
    MaxErrors,   \* bound: failed calls
    MaxReads     \* bound: requests for /api/dashboard

ObservatoryAssumption ==
    /\ {Recent, Days, CoolDown, Hour, Burst} \subseteq Nat \ {0}
    /\ CoolDown % 2 = 0
    /\ {MaxTime, MaxStarts, MaxBursts, MaxSlow, MaxErrors, MaxReads} \subseteq Nat

Fast == 1
Slow == 20
Times == 0..MaxTime
Timers == 1..MaxStarts
NoTimer == 0

VARIABLES
    now,       \* the clock
    metrics,   \* the metrics table: time -> how many rows of each name are not older
    writing,   \* recordCall between its "calls" and its "errors" row
    timers,    \* the intervals that still fire
    due,       \* those that have not fired yet in this period
    started,   \* how many intervals start() made
    last,      \* recentAlerts: when the alert was last sent
    sent,      \* channel -> the times of its alerts (history)
    hot,       \* the periods in which a check found an anomaly (history)
    reader     \* the dashboard's request

detectorVars == <<timers, due, started, last, sent, hot>>
vars == <<now, metrics, writing, timers, due, started, last, sent, hot, reader>>

Names == {"calls", "errors", "fast", "slow"}
Period == now \div 2

\* How many rows of a name the table has that are not older than from.
RowsIn(table, name, from) == table[IF from < 0 THEN 0 ELSE from][name]
Count(name, from) == RowsIn(metrics, name, from)

Idle == [counts |-> <<>>, from |-> 0, over |-> FALSE, told |-> "none", reads |-> 0, busy |-> FALSE]

Init ==
    /\ now = 0
    /\ metrics = [t \in Times |-> [n \in Names |-> 0]]
    /\ writing = FALSE
    /\ timers = {} /\ due = {} /\ started = NoTimer
    /\ last = -CoolDown
    /\ sent = [c \in Channels |-> <<>>]
    /\ hot = {}
    /\ reader = Idle

-----------------------------------------------------------------------------
(* The recording program.                                                  *)

Total(name) == Count(name, 0)
InsertMetric(rows) ==
    metrics' = [t \in Times |-> [n \in Names |->
        metrics[t][n] + IF t <= now /\ n \in DOMAIN rows THEN rows[n] ELSE 0]]

\* The budget is spent over the window that begins at from: the rate of
\* errors is one in a thousand or more (target: 99.9).
Spent(table, from) ==
    LET calls == RowsIn(table, "calls", from)
    IN  calls > 0 /\ RowsIn(table, "errors", from) * 1000 >= calls

\* History: whether the budget was spent at every moment of the read so far.
Watched(r) == [r EXCEPT !.over = @ /\ Spent(metrics', r.from)]
Recorded == reader' = IF reader.busy THEN Watched(reader) ELSE reader

\* recordCall of a call that answered: good calls in a row, or one slow one.
RecordGood ==
    /\ ~writing
    /\ \/ /\ Total("fast") < MaxBursts * Burst
          /\ InsertMetric([calls |-> Burst, fast |-> Burst])
       \/ /\ Total("slow") < MaxSlow
          /\ InsertMetric([calls |-> 1, slow |-> 1])
    /\ Recorded
    /\ UNCHANGED <<now, writing, detectorVars>>

\* recordCall of a call that failed: the row of the call, then the error's.
RecordCall ==
    /\ ~writing
    /\ Total("errors") < MaxErrors
    /\ InsertMetric([calls |-> 1, fast |-> 1])
    /\ writing' = TRUE
    /\ Recorded
    /\ UNCHANGED <<now, detectorVars>>

\* The timestamp was taken before: here the clock has not moved since.
RecordError ==
    /\ writing
    /\ InsertMetric([errors |-> 1])
    /\ writing' = FALSE
    /\ Recorded
    /\ UNCHANGED <<now, detectorVars>>

-----------------------------------------------------------------------------
(* The detector and the alert manager.                                     *)

\* getP99Latency("*", 5): the row at index ceil(0.99 n) - 1, 0 without rows.
P99 ==
    LET fast == Count("fast", now - Recent)
        n    == fast + Count("slow", now - Recent)
    IN  IF n = 0 THEN 0 ELSE IF (99 * n + 99) \div 100 <= fast THEN Fast ELSE Slow

\* detectAnomaly: current > mean + 3 stddev, both sides times n and squared.
\* Without rows the mean and the deviation are 0.
Anomaly(current) ==
    LET fast == Count("fast", now - Days)
        slow == Count("slow", now - Days)
        n    == fast + slow
        sum  == fast * Fast + slow * Slow
        sqs  == fast * Fast * Fast + slow * Slow * Slow
        over == n * current - sum
    IN  IF n = 0 THEN current > 0
        ELSE over > 0 /\ over * over > 9 * (n * sqs - sum * sum)

\* Variant with a bug: a suppressed alert starts the cool-down again.
TriggerRenews ==
    /\ last' = now
    /\ sent' = IF now - last < CoolDown THEN sent ELSE [c \in Channels |-> Append(sent[c], now)]

\* trigger: nothing within the cool-down, else the mark, then every channel.
Trigger ==
    IF now - last < CoolDown
    THEN UNCHANGED <<last, sent>>
    ELSE /\ last' = now
         /\ sent' = [c \in Channels |-> Append(sent[c], now)]

\* start() again leaves the interval before it running.
Start ==
    /\ started < MaxStarts
    /\ started' = started + 1
    /\ timers' = timers \union {started'}
    /\ UNCHANGED <<now, metrics, writing, due, last, sent, hot, reader>>

\* stop() clears the interval of the latest start().
Stop ==
    /\ started \in timers
    /\ timers' = timers \ {started}
    /\ due' = due \ {started}
    /\ UNCHANGED <<now, metrics, writing, started, last, sent, hot, reader>>

\* The interval's callback, check(): it runs to the first send in one step.
Check ==
    \E i \in due :
        /\ due' = due \ {i}
        /\ IF Anomaly(P99)
           THEN Trigger /\ hot' = hot \union {Period}
           ELSE UNCHANGED <<last, sent, hot>>
        /\ UNCHANGED <<now, metrics, writing, timers, started, reader>>

\* A period ends when every timer has fired in it.
Tick ==
    /\ now < MaxTime
    /\ ~writing
    /\ now % 2 = 1 => due = {}
    /\ now' = now + 1
    /\ due' = IF now' % 2 = 0 THEN timers ELSE due
    /\ UNCHANGED <<metrics, writing, timers, started, last, sent, hot, reader>>

-----------------------------------------------------------------------------
(* GET /api/dashboard, one query at a time.                                *)

\* ErrorBudget.calculate, in hundredths of a percent: toFixed(2) rounds the
\* share of errors to the nearest, the budget of 99.9 is 10 of them.
Remaining(errors, total) ==
    LET consumed == IF total = 0 THEN 0 ELSE (2 * errors * 10000 + total) \div (2 * total)
    IN  IF consumed >= 10 THEN 0 ELSE 10 - consumed
Status(errors, total) ==
    LET left == Remaining(errors, total)
    IN  IF left = 0 THEN "breached" ELSE IF 4 * left <= 10 THEN "warning" ELSE "healthy"

Request ==
    /\ ~reader.busy
    /\ reader.reads < MaxReads
    /\ LET from == IF now < Hour THEN 0 ELSE now - Hour
       IN  reader' = [Idle EXCEPT !.busy = TRUE, !.from = from, !.reads = reader.reads + 1,
                                  !.over = Spent(metrics, from)]
    /\ UNCHANGED <<now, metrics, writing, detectorVars>>

\* The two queries of getErrorRate.
Queries == <<"calls", "errors">>

CountRows ==
    /\ reader.busy
    /\ LET counts == Append(reader.counts, Count(Queries[Len(reader.counts) + 1], reader.from))
           CountOf(name) == counts[CHOOSE i \in 1..2 : Queries[i] = name]
       IN  reader' = IF Len(counts) < 2 THEN [reader EXCEPT !.counts = counts]
                     ELSE [reader EXCEPT !.counts = <<>>, !.busy = FALSE,
                                         !.told = Status(CountOf("errors"), CountOf("calls"))]
    /\ UNCHANGED <<now, metrics, writing, detectorVars>>

-----------------------------------------------------------------------------
Next ==
    \/ RecordGood \/ RecordCall \/ RecordError
    \/ Start \/ Stop \/ Check \/ Tick
    \/ Request \/ CountRows

Spec == Init /\ [][Next]_vars

-----------------------------------------------------------------------------
(* Properties.                                                             *)

\* Type invariant: the timers that are due are running, and only intervals
\* that start() made run.
TypeOK ==
    /\ now \in Times
    /\ metrics \in [Times -> [Names -> Nat]]
    /\ writing \in BOOLEAN
    /\ timers \subseteq 1..started /\ due \subseteq timers /\ started \in 0..MaxStarts
    /\ last \in (-CoolDown)..now
    /\ hot \subseteq 0..Period
    /\ \A c \in Channels : \A i \in DOMAIN sent[c] : sent[c][i] \in 0..now
    /\ reader.busy \in BOOLEAN /\ Len(reader.counts) < 2
    /\ reader.told \in {"none", "healthy", "warning", "breached"}

\* No channel gets the alert twice within the cool-down, however many
\* intervals run and in whatever order they fire (AlertManager.trigger).
QuietInCoolDown ==
    \A c \in Channels : \A i, j \in DOMAIN sent[c] :
        i < j => sent[c][j] - sent[c][i] >= CoolDown

\* While the anomaly lasts every channel is tried again: of CoolDown + one
\* period in a row whose checks found it, one alerted each channel, so that a
\* send that failed, which is never retried by itself, is made good.
LastingAnomalyIsAlerted ==
    LET first == Period - CoolDown \div 2 IN
    (first >= 0 /\ (first..Period) \subseteq hot) =>
        \A c \in Channels : \E i \in DOMAIN sent[c] : sent[c][i] >= 2 * first

\* When the budget was spent at every moment of the dashboard's read, over
\* the window it reads, the answer says so, whatever the program recorded
\* between the two queries (getErrorRate counts the calls first).
SpentBudgetIsTold ==
    (~reader.busy /\ reader.over) => reader.told = "breached"

=============================================================================
