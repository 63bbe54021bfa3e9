----------------------------- MODULE AppsProofs -----------------------------
(***************************************************************************)
(* The properties of Apps, for every value of its constants: one inductive *)
(* invariant for each of the four machines.  A machine whose part it is    *)
(* not stands still.  The lab and Observatory are proved for any case,     *)
(* which their lemmas take as a parameter.                                 *)
(***************************************************************************)
EXTENDS Apps, FiniteSets, FiniteSetTheorems, SequenceTheorems,
        WellFoundedInduction, TLAPS

--------------------------------------------------------------------------
(* NpmRelease: the invariant                                               *)

\* p is in the order, before its i-th place.
Before(i, p) == \E j \in 1..(i - 1) : order[j] = p
InOrder(p) == \E j \in 1..Len(order) : order[j] = p

Frame == [pkg : Packages \cup {None}, left : SUBSET Packages]

\* What the i-th loop on the stack goes over: everything, or dependencies.
LoopOf(i) == IF i = 1 THEN Packages ELSE deps[stack[i].pkg]

ReleaseTypes ==
  /\ Release!TypeOK
  /\ deps \in [Packages -> SUBSET Packages]
  /\ stack \in Seq(Frame)

\* What was published, and what is read of it.
RegistryInv ==
  /\ Release!DependenciesFirst /\ Release!OnlyGoodTarballs
  /\ \A p \in Packages : seen[p] \in {None, registry[p]}

\* A loop is through with what is in the order; the one it waits for is the
\* next on the stack.
StackInv ==
  releasePc = "sorting" =>
    /\ Len(stack) >= 1
    /\ \A i \in 2..Len(stack) : stack[i].pkg \in Packages
    /\ \A i \in 1..Len(stack) : \A d \in LoopOf(i) :
         d \in stack[i].left \/ InOrder(d) \/ (i < Len(stack) /\ stack[i + 1].pkg = d)

\* The dependencies of what is in the order are before it or published.
OrderInv ==
  ~Release!NothingRuns =>
    \A i \in 1..Len(order) : \A d \in deps[order[i]] : Before(i, d) \/ registry[d] # None

\* What left the order, or never was in it, is on the registry as verified.
RunInv ==
  /\ releasePc = "verifying" => \A p \in Packages : InOrder(p)
  /\ releasePc \in {"sorting", "verifying"} => \A p \in Packages : plan[p] = None
  /\ releasePc \in {"planning", "publishing", "waiting"} =>
       \A p \in Packages : /\ artifact[p] \in Release!Tarballs
                           /\ artifact[p].pkg = p /\ artifact[p].fault = "none"
                           /\ InOrder(p) \/ registry[p] = artifact[p]
                           /\ plan[p] = "skip" => registry[p] = artifact[p]
  /\ releasePc = "waiting" => order # <<>>
  /\ Release!DoneIsThisBuild

ReleaseInv ==
  /\ ReleaseTypes /\ RegistryInv /\ StackInv /\ OrderInv /\ RunInv
  /\ Release!PublishedIsTrue

--------------------------------------------------------------------------
(* LabSession: the invariant                                               *)

Busy(o) == taskPc[o] \in {"clearing", "connecting", "recovering", "disconnecting"}
Closes(o) == taskPc[o] \in {"clearing", "recovering", "disconnecting"}
Asks(t) == taskPc[t] \in {"listing", "calling"}

TaskPcs == {"new", "clearing", "connecting", "recovering", "disconnecting", "listing", "calling",
            "done", "failed", "threw", "refused", "recorded"}
Clients == {"none", "opening", "open", "closing", "closed"}
Processes == {"none", "running", "killed", "exited"}

LabTypes(case) ==
  /\ Lab(case)!TypeOK
  /\ taskPc \in [Lab(case)!Tasks -> TaskPcs]
  /\ kind \in [case.ops -> {None, "stdio", "http", "disconnect", "hydrate"}]
  /\ target \in [Lab(case)!Tasks -> case.ops \cup {None}]
  /\ ready \in [Lab(case)!Tasks -> {None, "ok", "threw"}]
  /\ closer \in [case.ops -> case.ops \cup {None}]
  /\ record \in [case.calls -> case.ops \cup {None, "active"}]
  /\ \A o \in case.ops : taskPc[o] # "calling"
  /\ \A c \in case.calls : taskPc[c] \in {"new", "calling", "refused", "recorded"}

\* A client is closing while who closes it waits.
ClosingInv(case) ==
  /\ \A x \in case.ops : client[x] = "closing" =>
       closer[x] \in case.ops /\ Closes(closer[x]) /\ ready[closer[x]] = None
  /\ \A x, y \in case.ops :
       client[x] = "closing" /\ client[y] = "closing" /\ closer[x] = closer[y] => x = y

\* What is closed is what was active; after that it is closed.
ClientInv(case) ==
  /\ activeClient # None => client[activeClient] # "none"
  /\ \A o \in case.ops : taskPc[o] \in {"new", "clearing"} => client[o] = "none"
  /\ \A o \in case.ops : client[o] = "opening" => taskPc[o] = "connecting"
  /\ \A x \in case.ops : client[x] = "closing" => x = activeClient
  /\ \A o \in case.ops : Closes(o) /\ ready[o] = "ok" =>
       activeClient = None \/ client[activeClient] = "closed"

MainInv(case) ==
  /\ activeSession # None =>
       activeClient = activeSession /\ client[activeSession] \in {"open", "closing", "closed"}
  /\ \A o \in case.ops : taskPc[o] = "connecting" => activeClient = o /\ activeSession = None

ViewInv(case) ==
  /\ \A o \in case.ops : /\ taskPc[o] \in {"clearing", "connecting", "recovering"} => status = "connecting"
                         /\ taskPc[o] = "disconnecting" => status = "connected"
  /\ status = "connected" => info # None /\ activeSession = info
  /\ status \in {"idle", "error"} => activeSession = None

\* What a listing or a call asked is the active client, or closed.
AskInv(case) ==
  /\ \A t \in Lab(case)!Tasks : Asks(t) =>
       /\ target[t] \in case.ops /\ client[target[t]] \in {"open", "closing", "closed"}
       /\ target[t] = activeClient \/ client[target[t]] = "closed"
  /\ \A c \in case.calls : taskPc[c] = "calling" =>
       /\ ready[c] = None => client[target[c]] # "closed"
       /\ activeSession # None => target[c] = activeSession

\* Who is answered is alone in going on.
AnswerInv(case) ==
  \A o \in case.ops : ready[o] = "ok" /\ taskPc[o] \in {"listing", "connecting"} =>
    /\ \A t \in Lab(case)!Tasks : t # o => ready[t] = None
    /\ taskPc[o] = "connecting" => client[o] = "open"
    /\ taskPc[o] = "listing" => client[target[o]] \in {"open", "closing"}

\* What needs that clicks take turns.
TurnInv(case) ==
  /\ \A o, p \in case.ops : Busy(o) /\ Busy(p) => o = p
  /\ ClientInv(case) /\ MainInv(case) /\ ViewInv(case) /\ AskInv(case) /\ AnswerInv(case)
  /\ Lab(case)!CatalogIsOfServer /\ Lab(case)!HistoryTellsServer

LabInv(case) ==
  /\ LabTypes(case) /\ ClosingInv(case) /\ Lab(case)!OneServer
  /\ case.serial => TurnInv(case)

--------------------------------------------------------------------------
(* Composer: the invariant                                                 *)

\* Of a name.  The provers do not know of a literal that it is a string.
Part == STRING \cup {Hub!Underscore}
Connection == [backend : Hub!Backends, process : {"none", "running", "killed", "exited"},
               client : {"opening", "open", "closing", "closed"}]
Entry == [name : Hub!Backends, conn : Nat]
Callers == 0..MaxChanges
Call == [pc : {"idle", "closing", "removing", "connecting", "failed"},
         config : Hub!Configs \cup {None}, conn : Nat, todo : Seq(Hub!Configs)]
ToolShown == [name : Seq(Part), backend : Seq(Part), tool : Seq(Part)]
RequestState == [state : {"new", "next", "listing", "calling", "answered", "error"},
                 name : Seq(Part), on : Nat, tool : Seq(Part), left : Seq(Hub!Backends),
                 shown : SUBSET ToolShown]

HubTypes ==
  /\ phase \in {"connecting", "serving", "stopped", "failed"}
  /\ conns \in Seq(Connection) /\ clients \in Seq(Entry)
  /\ add \in [Callers -> Call] /\ changes \in Nat
  /\ req \in [Requests -> RequestState]

\* An entry of the map is a connection to its name that was made and not killed.
EntryOK(e, made) ==
  /\ e.conn \in DOMAIN made /\ made[e.conn].backend = e.name
  /\ made[e.conn].process # "killed" /\ made[e.conn].client # "opening"
IsMap(map, made) ==
  /\ \A i, j \in DOMAIN map : map[i].name = map[j].name => i = j
  /\ \A i \in DOMAIN map : EntryOK(map[i], made)

\* A caller awaits a connection to the backend it adds, a new one or the old.
Awaiting(call) == call.pc \in {"closing", "removing", "connecting"}
CallOK(call, made) ==
  Awaiting(call) => /\ call.config \in Hub!Configs /\ call.conn \in DOMAIN made
                    /\ made[call.conn].backend = call.config.name
                    /\ call.pc # "connecting" => made[call.conn].client # "opening"
ConnsOK(made) == \A c \in DOMAIN made : made[c].client = "opening" => made[c].process \in {"none", "running"}

\* An entry that is neither open nor ended waits for a caller that deletes it.
Holds(call, e) ==
  call.pc \in {"closing", "removing"} /\ call.conn = e.conn /\ call.config.name = e.name
EntryStands(e, made, calls, K) ==
  \/ made[e.conn].client = "open" \/ made[e.conn].process = "exited"
  \/ \E k \in K : Holds(calls[k], e)
Stand(map, made, calls, K) == \A i \in DOMAIN map : EntryStands(map[i], made, calls, K)

MapInv ==
  /\ IsMap(clients, conns) /\ ConnsOK(conns)
  /\ \A k \in Callers : CallOK(add[k], conns)
  /\ Stand(clients, conns, add, Callers)

\* Unless a call fails every backend is in the map, or about to be.  The loop of
\* serve is over when it serves, and a call that has not come has no part.
Maps(map, b) == \E i \in DOMAIN map : map[i].name = b
Pends(call, b) ==
  \/ \E i \in DOMAIN call.todo : call.todo[i].name = b
  \/ Awaiting(call) /\ call.config.name = b
StayInv ==
  /\ (\A k \in Callers : add[k].pc # "failed") =>
       \A b \in Hub!Backends : Maps(clients, b) \/ \E k \in Callers : Pends(add[k], b)
  /\ \A k \in Callers : k > changes => add[k] = Hub!Idle
  /\ phase \in {"serving", "stopped"} => add[0].pc = "idle" /\ add[0].todo = <<>>

\* What a request shows and where it went agree with the names.
NameOK(q) ==
  /\ \A s \in q.shown : s.name = Hub!NamespacedName(s.backend, s.tool)
  /\ q.on # 0 =>
       /\ q.on \in DOMAIN conns
       /\ q.name # <<>> =>
            Hub!Route(q.name) = [backend |-> conns[q.on].backend, tool |-> q.tool]
  /\ q.state = "calling" => q.name # <<>> /\ q.on # 0

\* A listing has shown the tools of the backends it has left behind.
IsListing(q) == q.state \in {"next", "listing", "answered"} /\ q.name = <<>>
HasShown(q, b) == \A t \in Tools[b] : \E s \in q.shown : s.backend = b /\ s.tool = t
ListOK(q) ==
  /\ q.state \in {"next", "listing"} => q.name = <<>>
  /\ q.state = "listing" => /\ q.on # 0 /\ q.left # <<>>
                            /\ Head(q.left) = conns[q.on].backend
  /\ IsListing(q) => /\ phase \in {"serving", "stopped"}
                     /\ changes = 0 => \A b \in Hub!Backends :
                          HasShown(q, b) \/ \E i \in DOMAIN q.left : q.left[i] = b
  /\ IsListing(q) /\ q.state = "answered" => q.left = <<>>

RequestInv == \A r \in Requests : NameOK(req[r]) /\ ListOK(req[r])

HubInv == HubTypes /\ MapInv /\ StayInv /\ RequestInv

--------------------------------------------------------------------------
(* Observatory: the invariant                                              *)

Told == {"none", "healthy", "warning", "breached"}
Reader == [counts : Seq(Nat), from : Nat, over : BOOLEAN, told : Told, reads : Nat, busy : BOOLEAN]

\* What was sent lies within the cool-down of the last mark, the mark itself
\* was sent, and every anomaly that was found had an alert not long before.
AlertInv(case) ==
  /\ sent \in [case.channels -> Seq(Int)]
  /\ Watch(case)!QuietInCoolDown
  /\ last = -case.coolDown \/ last >= 0
  /\ \A c \in case.channels :
       /\ \A i \in DOMAIN sent[c] : sent[c][i] <= last
       /\ last >= 0 => \E i \in DOMAIN sent[c] : sent[c][i] = last
       /\ \A h \in hot : \E i \in DOMAIN sent[c] : sent[c][i] > 2 * h - case.coolDown

\* While a read is under way its window is over budget, if it was all along,
\* and the calls it has counted are some of those that are there.
ReadInv(case) ==
  /\ reader \in Reader /\ reader.from \in Watch(case)!Times
  /\ reader.busy /\ reader.over =>
       /\ Watch(case)!Spent(metrics, reader.from)
       /\ Len(reader.counts) = 1 => /\ reader.counts[1] > 0
                                    /\ reader.counts[1] <= Watch(case)!RowsIn(metrics, "calls", reader.from)
  /\ ~reader.busy => reader.counts = <<>>
  /\ Watch(case)!SpentBudgetIsTold

WatchInv(case) == Watch(case)!TypeOK /\ AlertInv(case) /\ ReadInv(case)

--------------------------------------------------------------------------
AppsInv ==
  /\ ReleaseInv /\ HubInv
  /\ \A c \in LabParts : part = c => LabInv(LabCases[c])
  /\ \A c \in WatchParts : part = c => WatchInv(WatchCases[c])


--------------------------------------------------------------------------
(* Sequences                                                               *)

LEMMA Appended ==
  ASSUME NEW T, NEW s \in Seq(T), NEW e \in T
  PROVE  /\ Append(s, e) \in Seq(T) /\ Len(Append(s, e)) = Len(s) + 1 /\ Len(s) \in Nat
         /\ Append(s, e)[Len(s) + 1] = e
         /\ \A i \in 1..Len(s) : Append(s, e)[i] = s[i] /\ s[i] \in T
OBVIOUS

LEMMA FewNumbers ==
  ASSUME NEW n \in Nat PROVE n < 2 => n = 0 \/ n = 1
OBVIOUS

\* The second of two counts.
LEMMA SecondCount ==
  ASSUME NEW T, NEW s \in Seq(T), Len(s) = 1, NEW e \in T
  PROVE  Len(Append(s, e)) = 2 /\ Append(s, e)[1] = s[1] /\ Append(s, e)[2] = e /\ s[1] \in T
<1>1. 1 \in 1..1 /\ 1 + 1 = 2
  OBVIOUS
<1>2. /\ Len(Append(s, e)) = Len(s) + 1 /\ Append(s, e)[Len(s) + 1] = e
      /\ \A i \in 1..Len(s) : Append(s, e)[i] = s[i] /\ s[i] \in T
  BY Appended, Zenon
<1>3. Len(s) + 1 = 2 /\ 1 \in 1..Len(s)
  BY <1>1, Zenon
<1>4. QED BY <1>2, <1>3, Zenon

LEMMA FewCounts ==
  ASSUME NEW T, NEW s \in Seq(T), Len(s) < 2
  PROVE  Len(s) = 0 \/ Len(s) = 1
<1>1. Len(s) \in Nat
  BY LenProperties
<1>4. QED BY <1>1, FewNumbers, Zenon

--------------------------------------------------------------------------
(* Observatory: proofs                                                     *)

LEMMA WatchInitial ==
  ASSUME NEW case, Watch(case)!ObservatoryAssumption, Watch(case)!Init
  PROVE  WatchInv(case)
<1> USE DEF Watch!ObservatoryAssumption, Watch!Init
<1>1. case.coolDown \in Nat \ {0} /\ case.time \in Nat /\ case.starts \in Nat
  OBVIOUS
<1>2. Watch(case)!TypeOK
  <2>1. metrics \in [Watch(case)!Times -> [Watch(case)!Names -> Nat]]
    OBVIOUS
  <2>2. now \in Watch(case)!Times /\ last \in (-case.coolDown)..now /\ started \in 0..case.starts
    BY <1>1 DEF Watch!Times, Watch!NoTimer
  <2>3. /\ reader.busy \in BOOLEAN /\ Len(reader.counts) < 2
        /\ reader.told \in {"none", "healthy", "warning", "breached"}
    BY DEF Watch!Idle
  <2>4. /\ timers \subseteq 1..started /\ due \subseteq timers /\ hot \subseteq 0..Watch(case)!Period
        /\ writing \in BOOLEAN
    OBVIOUS
  <2>5. \A c \in case.channels : \A i \in DOMAIN sent[c] : sent[c][i] \in 0..now
    OBVIOUS
  <2>6. QED BY <2>1, <2>2, <2>3, <2>4, <2>5 DEF Watch!TypeOK
<1>3. AlertInv(case)
  BY <1>1 DEF AlertInv, Watch!QuietInCoolDown
<1>4. ReadInv(case)
  BY <1>1 DEF ReadInv, Reader, Told, Watch!Idle, Watch!Times, Watch!SpentBudgetIsTold
<1>5. QED BY <1>2, <1>3, <1>4 DEF WatchInv

\* A table is only added to.
LEMMA TableGrows ==
  ASSUME NEW case, Watch(case)!ObservatoryAssumption, WatchInv(case), NEW rows,
         \A n \in DOMAIN rows : rows[n] \in Nat, Watch(case)!InsertMetric(rows)
  PROVE  /\ metrics' \in [Watch(case)!Times -> [Watch(case)!Names -> Nat]]
         /\ \A t \in Watch(case)!Times, n \in Watch(case)!Names : metrics[t][n] <= metrics'[t][n]
<1>1. metrics \in [Watch(case)!Times -> [Watch(case)!Names -> Nat]]
  BY DEF WatchInv, Watch!TypeOK
<1>2. \A t \in Watch(case)!Times, n \in Watch(case)!Names : metrics[t][n] \in Nat
  BY <1>1
<1>3. \A t \in Watch(case)!Times, n \in Watch(case)!Names :
        metrics'[t][n] = metrics[t][n] + IF t <= now /\ n \in DOMAIN rows THEN rows[n] ELSE 0
  BY DEF Watch!InsertMetric
<1>4. \A t \in Watch(case)!Times, n \in Watch(case)!Names :
        metrics'[t][n] \in Nat /\ metrics[t][n] <= metrics'[t][n]
  BY <1>2, <1>3
<1>5. metrics' \in [Watch(case)!Times -> [Watch(case)!Names -> Nat]]
  BY <1>4 DEF Watch!InsertMetric
<1>6. QED BY <1>4, <1>5

\* A read that goes on while something is recorded.
LEMMA RecordedKeeps ==
  ASSUME NEW case, Watch(case)!ObservatoryAssumption, WatchInv(case), NEW rows,
         \A n \in DOMAIN rows : rows[n] \in Nat, Watch(case)!InsertMetric(rows),
         Watch(case)!Recorded
  PROVE  ReadInv(case)'
<1> DEFINE f == reader.from
           C == Watch(case)!RowsIn(metrics, "calls", f)
           D == Watch(case)!RowsIn(metrics', "calls", f)
<1>1. reader \in Reader /\ f \in Watch(case)!Times /\ case.time \in Nat
  BY DEF WatchInv, ReadInv, Watch!ObservatoryAssumption
<1>2. f \in Nat /\ ~(f < 0)
  BY <1>1 DEF Watch!Times
<1>3. C \in Nat /\ D \in Nat /\ C <= D
  <2>1. metrics[f]["calls"] <= metrics'[f]["calls"] /\ metrics'[f]["calls"] \in Nat
    BY <1>1, TableGrows DEF Watch!Names
  <2>2. metrics[f]["calls"] \in Nat
    BY <1>1 DEF WatchInv, Watch!TypeOK, Watch!Names
  <2>3. QED BY <1>2, <2>1, <2>2 DEF Watch!RowsIn
<1>4. CASE ~reader.busy
  <2>1. reader' = reader
    BY <1>4 DEF Watch!Recorded
  <2>2. QED BY <1>4, <2>1 DEF WatchInv, ReadInv, Watch!SpentBudgetIsTold, Watch!Times
<1>5. CASE reader.busy
  <2>1. reader' = [reader EXCEPT !.over = @ /\ Watch(case)!Spent(metrics', f)]
    BY <1>5 DEF Watch!Recorded, Watch!Watched
  <2>2. Watch(case)!Spent(metrics', f) \in BOOLEAN
    BY <1>3 DEF Watch!Spent
  <2>3. /\ reader' \in Reader /\ reader'.from = f /\ reader'.busy
        /\ reader'.counts = reader.counts /\ reader'.over = (reader.over /\ Watch(case)!Spent(metrics', f))
    BY <1>1, <1>5, <2>1, <2>2 DEF Reader
  <2>4. reader'.over /\ Len(reader'.counts) = 1 => reader'.counts[1] > 0 /\ reader'.counts[1] <= D
    <3> SUFFICES ASSUME reader'.over, Len(reader'.counts) = 1
                 PROVE  reader'.counts[1] > 0 /\ reader'.counts[1] <= D
      OBVIOUS
    <3>1. reader.counts[1] > 0 /\ reader.counts[1] <= C
      BY <1>5, <2>3 DEF WatchInv, ReadInv
    <3>2. reader.counts[1] \in Nat
      BY <1>1, <2>3 DEF Reader
    <3>3. QED BY <1>3, <2>3, <3>1, <3>2
  <2>5. QED BY <1>1, <2>3, <2>4 DEF ReadInv, Watch!SpentBudgetIsTold, Watch!Times
<1>6. QED BY <1>4, <1>5


\* An alert is added to those a channel had.
LEMMA SentAgain ==
  ASSUME NEW s \in Seq(Int), NEW mark \in Int, NEW n \in Nat, NEW C \in Nat, n - mark >= C,
         \A i \in DOMAIN s : s[i] <= mark,
         \A i, j \in DOMAIN s : i < j => s[j] - s[i] >= C
  PROVE  /\ Append(s, n) \in Seq(Int)
         /\ \A i \in DOMAIN s : i \in DOMAIN Append(s, n) /\ Append(s, n)[i] = s[i]
         /\ \A i \in DOMAIN Append(s, n) : Append(s, n)[i] <= n
         /\ \A i \in DOMAIN Append(s, n) : Append(s, n)[i] = n \/ \E j \in DOMAIN s : Append(s, n)[i] = s[j]
         /\ \E i \in DOMAIN Append(s, n) : Append(s, n)[i] = n
         /\ \A i, j \in DOMAIN Append(s, n) : i < j => Append(s, n)[j] - Append(s, n)[i] >= C
<1> DEFINE u == Append(s, n)
           m == Len(s)
<1>1. /\ u \in Seq(Int) /\ Len(u) = m + 1 /\ m \in Nat /\ u[m + 1] = n
      /\ \A i \in 1..m : u[i] = s[i]
      /\ DOMAIN u = 1..(m + 1) /\ DOMAIN s = 1..m
  OBVIOUS
<1>2. \A i \in 1..m : s[i] \in Int /\ s[i] <= mark
  OBVIOUS
<1> HIDE DEF u, m
<1>3. \A i \in 1..m : u[i] <= n
  BY <1>1, <1>2
<1>4. \A i \in 1..(m + 1) : i \in 1..m \/ i = m + 1
  BY <1>1
<1>5. \A i, j \in 1..(m + 1) : i < j => u[j] - u[i] >= C
  <2> SUFFICES ASSUME NEW i \in 1..(m + 1), NEW j \in 1..(m + 1), i < j
               PROVE  u[j] - u[i] >= C
    OBVIOUS
  <2>1. i \in 1..m
    BY <1>1
  <2>2. CASE j \in 1..m
    BY <1>1, <2>1, <2>2
  <2>3. CASE j = m + 1
    BY <1>1, <1>2, <2>1, <2>3
  <2>4. QED BY <1>4, <2>2, <2>3
<1>6. /\ \A i \in 1..(m + 1) : u[i] <= n /\ (u[i] = n \/ \E j \in 1..m : u[i] = s[j])
      /\ m + 1 \in 1..(m + 1)
  BY <1>1, <1>3, <1>4
<1>7. \A i \in 1..m : i \in 1..(m + 1)
  BY <1>1
<1>8. QED BY <1>1, <1>5, <1>6, <1>7 DEF u

\* A check marks the alert and sends it, or the mark is not that old.
LEMMA CheckKeeps ==
  ASSUME NEW case, Watch(case)!ObservatoryAssumption, WatchInv(case), Watch(case)!Check
  PROVE  WatchInv(case)'
<1> DEFINE C == case.coolDown
<1>1. /\ C \in Nat \ {0} /\ C % 2 = 0 /\ case.time \in Nat /\ case.starts \in Nat
      /\ now \in Nat /\ last \in Int /\ last <= now /\ (last = -C \/ last >= 0)
      /\ sent \in [case.channels -> Seq(Int)]
  BY DEF WatchInv, Watch!TypeOK, AlertInv, Watch!ObservatoryAssumption, Watch!Times
<1>2. PICK i \in due :
        /\ due' = due \ {i}
        /\ \/ Watch(case)!Trigger /\ hot' = hot \cup {now \div 2}
           \/ UNCHANGED <<last, sent, hot>>
        /\ UNCHANGED <<now, metrics, writing, timers, started, reader>>
  BY DEF Watch!Check, Watch!Period
<1>3. ReadInv(case)'
  BY <1>2 DEF WatchInv, ReadInv, Watch!SpentBudgetIsTold, Watch!Times, Watch!Spent, Watch!RowsIn
<1>4. CASE UNCHANGED <<last, sent, hot>>
  <2>1. AlertInv(case)'
    BY <1>2, <1>4 DEF WatchInv, AlertInv, Watch!QuietInCoolDown
  <2>2. Watch(case)!TypeOK'
    BY <1>2, <1>4 DEF WatchInv, Watch!TypeOK, Watch!Times, Watch!Names, Watch!Period
  <2>3. QED BY <1>3, <2>1, <2>2 DEF WatchInv
<1>5. CASE Watch(case)!Trigger /\ hot' = hot \cup {now \div 2}
  <2>1. 2 * (now \div 2) <= now /\ now \div 2 \in Nat
    BY <1>1
  <2>2. CASE now - last < C
    <3>1. UNCHANGED <<last, sent>>
      BY <1>5, <2>2 DEF Watch!Trigger
    <3>2. last >= 0 /\ last > 2 * (now \div 2) - C
      BY <1>1, <2>1, <2>2
    <3>3. AlertInv(case)'
      BY <1>1, <1>2, <1>5, <3>1, <3>2 DEF WatchInv, AlertInv, Watch!QuietInCoolDown
    <3>4. Watch(case)!TypeOK'
      BY <1>1, <1>2, <1>5, <2>1, <3>1
         DEF WatchInv, Watch!TypeOK, Watch!Times, Watch!Names, Watch!Period
    <3>5. QED BY <1>3, <3>3, <3>4 DEF WatchInv
  <2>3. CASE ~(now - last < C)
    <3>1. last' = now /\ sent' = [c \in case.channels |-> Append(sent[c], now)]
      BY <1>5, <2>3 DEF Watch!Trigger
    <3>2. \A c \in case.channels :
            /\ sent'[c] \in Seq(Int)
            /\ \A j \in DOMAIN sent[c] : j \in DOMAIN sent'[c] /\ sent'[c][j] = sent[c][j]
            /\ \A j \in DOMAIN sent'[c] :
                 /\ sent'[c][j] <= now
                 /\ sent'[c][j] = now \/ \E k \in DOMAIN sent[c] : sent'[c][j] = sent[c][k]
            /\ \E j \in DOMAIN sent'[c] : sent'[c][j] = now
            /\ \A j, k \in DOMAIN sent'[c] : j < k => sent'[c][k] - sent'[c][j] >= C
      <4> TAKE c \in case.channels
      <4>1. sent'[c] = Append(sent[c], now) /\ sent[c] \in Seq(Int) /\ now - last >= C
        BY <1>1, <2>3, <3>1
      <4>2. /\ \A j \in DOMAIN sent[c] : sent[c][j] <= last
            /\ \A j, k \in DOMAIN sent[c] : j < k => sent[c][k] - sent[c][j] >= C
        BY DEF WatchInv, AlertInv, Watch!QuietInCoolDown
      <4>3. C \in Nat
        BY <1>1
      <4>4. /\ Append(sent[c], now) \in Seq(Int)
            /\ \A j \in DOMAIN sent[c] : /\ j \in DOMAIN Append(sent[c], now)
                                         /\ Append(sent[c], now)[j] = sent[c][j]
            /\ \A j \in DOMAIN Append(sent[c], now) : Append(sent[c], now)[j] <= now
            /\ \A j \in DOMAIN Append(sent[c], now) :
                 \/ Append(sent[c], now)[j] = now
                 \/ \E k \in DOMAIN sent[c] : Append(sent[c], now)[j] = sent[c][k]
            /\ \E j \in DOMAIN Append(sent[c], now) : Append(sent[c], now)[j] = now
            /\ \A j, k \in DOMAIN Append(sent[c], now) :
                 j < k => Append(sent[c], now)[k] - Append(sent[c], now)[j] >= C
        <5> HIDE DEF C
        <5>1. QED BY <1>1, <4>1, <4>2, <4>3, SentAgain
      <4>5. QED BY <4>1, <4>4, Zenon
    <3>3. sent' \in [case.channels -> Seq(Int)] /\ Watch(case)!QuietInCoolDown'
      BY <3>1, <3>2 DEF Watch!QuietInCoolDown
    <3>6. \A c \in case.channels : \A h \in hot' :
            \E j \in DOMAIN sent'[c] : sent'[c][j] > 2 * h - C
      <4> SUFFICES ASSUME NEW c \in case.channels, NEW h \in hot'
                   PROVE  \E j \in DOMAIN sent'[c] : sent'[c][j] > 2 * h - C
        OBVIOUS
      <4>1. CASE h \in hot
        <5>1. PICK j \in DOMAIN sent[c] : sent[c][j] > 2 * h - C
          BY <4>1 DEF WatchInv, AlertInv
        <5>2. j \in DOMAIN sent'[c] /\ sent'[c][j] = sent[c][j]
          BY <3>2
        <5>3. QED BY <5>1, <5>2
      <4>2. CASE h = now \div 2
        <5>1. now > 2 * h - C
          BY <1>1, <2>1, <4>2
        <5>2. PICK j \in DOMAIN sent'[c] : sent'[c][j] = now
          BY <3>2
        <5>3. QED BY <5>1, <5>2
      <4>3. QED BY <1>5, <4>1, <4>2
    <3>7. AlertInv(case)'
      <4>1. last' = -C \/ last' >= 0
        BY <1>1, <3>1
      <4>2. \A c \in case.channels : \A j \in DOMAIN sent'[c] : sent'[c][j] <= last'
        BY <3>1, <3>2
      <4>3. \A c \in case.channels : \E j \in DOMAIN sent'[c] : sent'[c][j] = last'
        BY <3>1, <3>2
      <4>4. QED BY <3>3, <3>6, <4>1, <4>2, <4>3 DEF AlertInv
    <3>8. Watch(case)!TypeOK'
      <4>1. \A c \in case.channels : \A j \in DOMAIN sent'[c] : sent'[c][j] \in 0..now
        <5> TAKE c \in case.channels
        <5>1. \A k \in DOMAIN sent[c] : sent[c][k] \in 0..now
          BY DEF WatchInv, Watch!TypeOK
        <5>2. now \in 0..now
          BY <1>1
        <5>3. QED BY <3>2, <5>1, <5>2, Zenon
      <4>2. hot' \subseteq 0..(now \div 2)
        <5>1. hot \subseteq 0..(now \div 2) /\ now \div 2 \in 0..(now \div 2)
          BY <2>1 DEF WatchInv, Watch!TypeOK, Watch!Period
        <5>2. QED BY <1>5, <5>1
      <4>3. due' \subseteq timers' /\ last' \in (-C)..now'
        BY <1>1, <1>2, <3>1 DEF WatchInv, Watch!TypeOK
      <4>4. QED
        BY <1>2, <4>1, <4>2, <4>3 DEF WatchInv, Watch!TypeOK, Watch!Times, Watch!Names, Watch!Period
    <3>9. QED BY <1>3, <3>7, <3>8 DEF WatchInv
  <2>4. QED BY <2>2, <2>3
<1>6. QED BY <1>2, <1>4, <1>5


\* What records touches nothing of the alerts.
LEMMA RecordKeeps ==
  ASSUME NEW case, Watch(case)!ObservatoryAssumption, WatchInv(case),
         Watch(case)!RecordGood \/ Watch(case)!RecordCall \/ Watch(case)!RecordError
  PROVE  WatchInv(case)'
<1>1. PICK rows :
        /\ \A n \in DOMAIN rows : rows[n] \in Nat
        /\ Watch(case)!InsertMetric(rows) /\ Watch(case)!Recorded
  <2>1. case.burst \in Nat
    BY DEF Watch!ObservatoryAssumption
  <2>2. CASE Watch(case)!RecordGood
    <3>1. \A n \in DOMAIN [calls |-> case.burst, fast |-> case.burst] :
            [calls |-> case.burst, fast |-> case.burst][n] \in Nat
      BY <2>1
    <3>2. \A n \in DOMAIN [calls |-> 1, slow |-> 1] : [calls |-> 1, slow |-> 1][n] \in Nat
      OBVIOUS
    <3>3. QED BY <2>2, <3>1, <3>2, Zenon DEF Watch!RecordGood
  <2>3. CASE Watch(case)!RecordCall
    <3>1. \A n \in DOMAIN [calls |-> 1, fast |-> 1] : [calls |-> 1, fast |-> 1][n] \in Nat
      OBVIOUS
    <3>2. QED BY <2>3, <3>1, Zenon DEF Watch!RecordCall
  <2>4. CASE Watch(case)!RecordError
    <3>1. \A n \in DOMAIN [errors |-> 1] : [errors |-> 1][n] \in Nat
      OBVIOUS
    <3>2. QED BY <2>4, <3>1, Zenon DEF Watch!RecordError
  <2>5. QED BY <2>2, <2>3, <2>4
<1>2. UNCHANGED <<now, timers, due, started, last, sent, hot>> /\ writing' \in BOOLEAN
  BY DEF WatchInv, Watch!TypeOK, Watch!RecordGood, Watch!RecordCall, Watch!RecordError,
         Watch!detectorVars
<1>3. metrics' \in [Watch(case)!Times -> [Watch(case)!Names -> Nat]]
  BY <1>1, TableGrows
<1>4. ReadInv(case)'
  BY <1>1, RecordedKeeps
<1>5. AlertInv(case)'
  BY <1>2 DEF WatchInv, AlertInv, Watch!QuietInCoolDown
<1>6. /\ reader'.busy \in BOOLEAN /\ Len(reader'.counts) < 2
      /\ reader'.told \in {"none", "healthy", "warning", "breached"}
  <2>1. /\ reader.busy \in BOOLEAN /\ Len(reader.counts) < 2 /\ reader \in Reader
        /\ reader.told \in {"none", "healthy", "warning", "breached"}
    BY DEF WatchInv, Watch!TypeOK, ReadInv
  <2>2. /\ reader'.busy = reader.busy /\ reader'.counts = reader.counts
        /\ reader'.told = reader.told
    BY <1>1, <2>1 DEF Watch!Recorded, Watch!Watched, Reader
  <2>3. QED BY <2>1, <2>2
<1>7. Watch(case)!TypeOK'
  BY <1>2, <1>3, <1>6 DEF WatchInv, Watch!TypeOK, Watch!Times, Watch!Names, Watch!Period
<1>8. QED BY <1>4, <1>5, <1>7 DEF WatchInv

\* A share of nineteen in twenty of what is left is rounded up to all of it.
LEMMA OverBudgetRounds ==
  ASSUME NEW e \in Nat, NEW t \in Nat, t > 0, 1000 * e >= t
  PROVE  (2 * e * 10000 + t) \div (2 * t) >= 10
<1> DEFINE n == 20000 * e + t
           d == 2 * t
           q == n \div d
<1>1. n \in Nat /\ d \in Nat \ {0} /\ n >= 10 * d
  OBVIOUS
<1>2. q \in Int /\ n < d * (q + 1)
  <2> HIDE DEF n, d
  <2>1. \A a \in Int, b \in Nat \ {0} : a \div b \in Int /\ a < b * ((a \div b) + 1)
    OBVIOUS
  <2>2. QED BY <1>1, <2>1
<1>3. q >= 10
  <2> HIDE DEF n, d, q
  <2> SUFFICES ASSUME q <= 9 PROVE FALSE
    BY <1>2
  <2>1. q + 1 <= 10 /\ d > 0
    BY <1>1, <1>2
  <2>2. \A a \in Int, b \in Nat : a <= 10 => b * a <= b * 10
    OBVIOUS
  <2>3. d * (q + 1) <= d * 10
    BY <1>1, <1>2, <2>1, <2>2
  <2>4. QED BY <1>1, <1>2, <2>3
<1>4. 2 * e * 10000 + t = n
  OBVIOUS
<1>5. QED BY <1>3, <1>4

LEMMA ReadKeeps ==
  ASSUME NEW case, Watch(case)!ObservatoryAssumption, WatchInv(case),
         Watch(case)!Request \/ Watch(case)!CountRows
  PROVE  WatchInv(case)'
<1>1. /\ reader \in Reader /\ reader.from \in Watch(case)!Times /\ now \in Watch(case)!Times
      /\ case.time \in Nat /\ case.hour \in Nat
      /\ metrics \in [Watch(case)!Times -> [Watch(case)!Names -> Nat]]
      /\ Len(reader.counts) < 2
  BY DEF WatchInv, ReadInv, Watch!TypeOK, Watch!ObservatoryAssumption
<1>2. UNCHANGED <<now, metrics, writing, timers, due, started, last, sent, hot>>
  BY DEF Watch!Request, Watch!CountRows, Watch!detectorVars
<1>3. AlertInv(case)'
  BY <1>2 DEF WatchInv, AlertInv, Watch!QuietInCoolDown
<1>4. \A f \in Watch(case)!Times, n \in Watch(case)!Names : Watch(case)!RowsIn(metrics, n, f) \in Nat
  <2> TAKE f \in Watch(case)!Times, n \in Watch(case)!Names
  <2>1. f \in Nat /\ ~(f < 0)
    BY <1>1 DEF Watch!Times
  <2>2. QED BY <1>1, <2>1 DEF Watch!RowsIn
<1>5. CASE Watch(case)!Request
  <2>1. PICK f \in Watch(case)!Times :
          reader' = [counts |-> <<>>, from |-> f, over |-> Watch(case)!Spent(metrics, f), told |-> "none",
                     reads |-> reader.reads + 1, busy |-> TRUE]
    <3> DEFINE f == IF now < case.hour THEN 0 ELSE now - case.hour
    <3>1. f \in Watch(case)!Times
      BY <1>1 DEF Watch!Times
    <3>2. reader' = [Watch(case)!Idle EXCEPT !.busy = TRUE, !.from = f, !.reads = reader.reads + 1,
                                             !.over = Watch(case)!Spent(metrics, f)]
      BY <1>5 DEF Watch!Request
    <3>3. QED BY <3>1, <3>2 DEF Watch!Idle
  <2>2. Watch(case)!Spent(metrics, f) \in BOOLEAN
    BY DEF Watch!Spent
  <2>3. f \in Nat
    BY <1>1 DEF Watch!Times
  <2>4. reader' \in Reader /\ Len(reader'.counts) = 0
    BY <1>1, <2>1, <2>2, <2>3 DEF Reader, Told
  <2>5. ReadInv(case)'
    <3>1. /\ reader'.from = f /\ reader'.over = Watch(case)!Spent(metrics, f) /\ reader'.busy
          /\ Len(reader'.counts) # 1
      BY <2>1, <2>4
    <3>2. Watch(case)!Spent(metrics, f) = Watch(case)!Spent(metrics', f)
      BY <1>2
    <3>3. f \in Watch(case)!Times'
      BY DEF Watch!Times
    <3>4. QED BY <2>4, <3>1, <3>2, <3>3 DEF ReadInv, Watch!SpentBudgetIsTold
  <2>6. Watch(case)!TypeOK'
    BY <1>2, <2>1, <2>4 DEF WatchInv, Watch!TypeOK, Watch!Times, Watch!Names, Watch!Period
  <2>7. QED BY <1>3, <2>5, <2>6 DEF WatchInv
<1>6. CASE Watch(case)!CountRows
  <2> DEFINE f == reader.from
             C == Watch(case)!RowsIn(metrics, "calls", f)
             E == Watch(case)!RowsIn(metrics, "errors", f)
  <2>1. C \in Nat /\ E \in Nat
    BY <1>1, <1>4 DEF Watch!Names
  <2>2. reader.busy /\ (reader.over => C > 0 /\ E * 1000 >= C)
    <3>1. reader.busy
      BY <1>6 DEF Watch!CountRows
    <3>2. QED BY <3>1 DEF WatchInv, ReadInv, Watch!Spent
  <2> DEFINE counts == Append(reader.counts, Watch(case)!Count(Watch(case)!Queries[Len(reader.counts) + 1], f))
             CountOf(name) == counts[CHOOSE i \in 1..2 : Watch(case)!Queries[i] = name]
  <2>0. reader' = IF Len(counts) < 2 THEN [reader EXCEPT !.counts = counts]
                  ELSE [reader EXCEPT !.counts = <<>>, !.busy = FALSE,
                                      !.told = Watch(case)!Status(CountOf("errors"), CountOf("calls"))]
    BY <1>6 DEF Watch!CountRows
  <2>3. CASE Len(reader.counts) = 0
    <3>1. reader.counts = <<>>
      BY <1>1, <2>3 DEF Reader
    <3>2. reader' = [reader EXCEPT !.counts = <<C>>]
      <4>1. Append(reader.counts, C) = <<C>> /\ Len(<<C>>) = 1
        BY <3>1
      <4>2. Watch(case)!Count(Watch(case)!Queries[Len(reader.counts) + 1], reader.from) = C
        BY <2>3 DEF Watch!Count, Watch!Queries
      <4>3. counts = <<C>> /\ Len(counts) < 2
        BY <4>1, <4>2
      <4> HIDE DEF counts, C
      <4>4. QED BY <2>0, <4>3
    <3>3. <<C>> \in Seq(Nat) /\ Len(<<C>>) = 1 /\ <<C>>[1] = C
      BY <2>1
    <3>4. /\ reader' \in Reader /\ reader'.counts = <<C>>
          /\ reader'.busy = reader.busy /\ reader'.over = reader.over /\ reader'.from = f
          /\ reader'.told = reader.told
      <4> HIDE DEF C
      <4>1. QED BY <1>1, <3>2, <3>3 DEF Reader
    <3>5. Watch(case)!RowsIn(metrics', "calls", f) = C
      BY <1>2
    <3>6. ReadInv(case)'
      <4>1. reader'.over => Watch(case)!Spent(metrics', f)
        BY <1>2, <2>2, <3>4 DEF Watch!Spent
      <4> HIDE DEF C
      <4>2. reader'.over => reader'.counts[1] > 0 /\ reader'.counts[1] <= C
        BY <2>1, <2>2, <3>3, <3>4
      <4>3. reader'.busy
        BY <2>2, <3>4
      <4>4. reader'.from = f /\ f \in Watch(case)!Times'
        BY <1>1, <3>4 DEF Watch!Times
      <4>5. QED BY <3>4, <3>5, <4>1, <4>2, <4>3, <4>4 DEF ReadInv, Watch!SpentBudgetIsTold
    <3>7. Watch(case)!TypeOK'
      <4> HIDE DEF C
      <4>1. QED BY <1>2, <3>3, <3>4 DEF WatchInv, Watch!TypeOK, Watch!Times, Watch!Names, Watch!Period, Reader
    <3>8. QED BY <1>3, <3>6, <3>7 DEF WatchInv
  <2>4. CASE Len(reader.counts) = 1
    <3> DEFINE c == reader.counts[1]
    <3>1. /\ Len(Append(reader.counts, E)) = 2
          /\ Append(reader.counts, E)[1] = c /\ Append(reader.counts, E)[2] = E /\ c \in Nat
      <4>1. reader.counts \in Seq(Nat)
        BY <1>1 DEF Reader
      <4> HIDE DEF E
      <4>2. QED BY <2>1, <2>4, <4>1, SecondCount
    <3>2. reader.over => c > 0 /\ c <= C
      BY <2>2, <2>4 DEF WatchInv, ReadInv
    <3>3. reader' = [reader EXCEPT !.counts = <<>>, !.busy = FALSE, !.told = Watch(case)!Status(E, c)]
      <4>2. Watch(case)!Count(Watch(case)!Queries[Len(reader.counts) + 1], reader.from) = E
        BY <2>4 DEF Watch!Count, Watch!Queries
      <4>3. /\ (CHOOSE i \in 1..2 : Watch(case)!Queries[i] = "calls") = 1
            /\ (CHOOSE i \in 1..2 : Watch(case)!Queries[i] = "errors") = 2
        <5>1. \A i \in 1..2 : /\ (Watch(case)!Queries[i] = "calls") <=> i = 1
                              /\ (Watch(case)!Queries[i] = "errors") <=> i = 2
          BY DEF Watch!Queries
        <5>2. QED BY <5>1
      <4>5. counts = Append(reader.counts, E)
        BY <4>2
      <4>6. CountOf("errors") = E /\ CountOf("calls") = c
        <5> HIDE DEF c, E, counts
        <5>1. QED BY <3>1, <4>3, <4>5
      <4>7. ~(Len(counts) < 2)
        <5> HIDE DEF c, E, counts
        <5>1. QED BY <3>1, <4>5
      <4> HIDE DEF c, E, counts, CountOf
      <4>8. QED BY <2>0, <4>6, <4>7
    <3>4. Watch(case)!Status(E, c) \in {"healthy", "warning", "breached"}
      BY DEF Watch!Status
    <3>5. reader.over => Watch(case)!Status(E, c) = "breached"
      <4> SUFFICES ASSUME reader.over PROVE Watch(case)!Status(E, c) = "breached"
        OBVIOUS
      <4> HIDE DEF c, E, C
      <4>1. c > 0 /\ 1000 * E >= c /\ c # 0
        BY <2>1, <2>2, <3>1, <3>2
      <4>2. (2 * E * 10000 + c) \div (2 * c) >= 10
        BY <2>1, <3>1, <4>1, OverBudgetRounds
      <4>3. Watch(case)!Remaining(E, c) = 0
        BY <4>1, <4>2 DEF Watch!Remaining
      <4>4. QED BY <4>3 DEF Watch!Status
    <3>6. /\ reader' \in Reader /\ reader'.counts = <<>> /\ Len(reader'.counts) = 0 /\ ~reader'.busy
          /\ reader'.over = reader.over /\ reader'.from = f
          /\ reader'.told = Watch(case)!Status(E, c)
      <4>1. Watch(case)!Status(E, c) \in {"none", "healthy", "warning", "breached"}
        BY <3>4
      <4> DEFINE told == Watch(case)!Status(E, c)
      <4>2. told \in Told
        BY <4>1 DEF Told
      <4>3. reader' = [reader EXCEPT !.counts = <<>>, !.busy = FALSE, !.told = told]
        BY <3>3
      <4> HIDE DEF told
      <4>4. /\ reader' \in Reader /\ reader'.counts = <<>> /\ Len(reader'.counts) = 0 /\ ~reader'.busy
            /\ reader'.over = reader.over /\ reader'.from = reader.from /\ reader'.told = told
        <5>1. PICK r, a : r = reader /\ a = reader'
          OBVIOUS
        <5>2. r \in Reader /\ a = [r EXCEPT !.counts = <<>>, !.busy = FALSE, !.told = told]
          BY <1>1, <4>3, <5>1
        <5>3. /\ a \in Reader /\ a.counts = <<>> /\ Len(a.counts) = 0 /\ a.busy = FALSE
              /\ a.over = r.over /\ a.from = r.from /\ a.told = told
          <6>1. <<>> \in Seq(Nat) /\ Len(<<>>) = 0
            OBVIOUS
          <6>2. QED BY <4>2, <5>2, <6>1 DEF Reader
        <5>4. QED BY <5>1, <5>3
      <4>5. QED BY <4>4 DEF told
    <3>7. ReadInv(case)'
      BY <1>1, <3>5, <3>6 DEF ReadInv, Watch!SpentBudgetIsTold, Watch!Times
    <3>8. Watch(case)!TypeOK'
      <4> HIDE DEF c, E
      <4>1. QED BY <1>2, <3>4, <3>6 DEF WatchInv, Watch!TypeOK, Watch!Times, Watch!Names, Watch!Period, Reader
    <3>9. QED BY <1>3, <3>7, <3>8 DEF WatchInv
  <2>5. Len(reader.counts) = 0 \/ Len(reader.counts) = 1
    <3>1. reader.counts \in Seq(Nat)
      BY <1>1 DEF Reader
    <3>2. QED BY <1>1, <3>1, FewCounts, Zenon
  <2>6. QED BY <2>3, <2>4, <2>5
<1>7. QED BY <1>5, <1>6


LEMMA TimersKeep ==
  ASSUME NEW case, Watch(case)!ObservatoryAssumption, WatchInv(case),
         Watch(case)!Start \/ Watch(case)!Stop
  PROVE  WatchInv(case)'
<1>1. /\ UNCHANGED <<now, metrics, writing, last, sent, hot, reader>>
      /\ started' \in 0..case.starts /\ timers' \subseteq 1..started' /\ due' \subseteq timers'
  <2>1. case.starts \in Nat /\ started \in 0..case.starts /\ timers \subseteq 1..started /\ due \subseteq timers
    BY DEF WatchInv, Watch!TypeOK, Watch!ObservatoryAssumption
  <2>2. CASE Watch(case)!Start
    <3>1. started' = started + 1 /\ started < case.starts /\ timers' = timers \union {started'} /\ due' = due
      BY <2>2 DEF Watch!Start
    <3>2. QED BY <2>1, <2>2, <3>1 DEF Watch!Start
  <2>3. CASE Watch(case)!Stop
    BY <2>1, <2>3 DEF Watch!Stop
  <2>4. QED BY <2>2, <2>3
<1>2. Watch(case)!TypeOK'
  BY <1>1 DEF WatchInv, Watch!TypeOK, Watch!Times, Watch!Names, Watch!Period
<1>3. AlertInv(case)'
  BY <1>1 DEF WatchInv, AlertInv, Watch!QuietInCoolDown
<1>4. ReadInv(case)'
  BY <1>1 DEF WatchInv, ReadInv, Watch!SpentBudgetIsTold, Watch!Times
<1>5. QED BY <1>2, <1>3, <1>4 DEF WatchInv

LEMMA TickKeeps ==
  ASSUME NEW case, Watch(case)!ObservatoryAssumption, WatchInv(case), Watch(case)!Tick
  PROVE  WatchInv(case)'
<1>1. /\ UNCHANGED <<metrics, writing, timers, started, last, sent, hot, reader>>
      /\ now' = now + 1 /\ now' \in Watch(case)!Times /\ now \in Nat /\ due' \subseteq timers
      /\ case.coolDown \in Nat
  BY DEF Watch!Tick, WatchInv, Watch!TypeOK, Watch!Times, Watch!ObservatoryAssumption
<1>2. Watch(case)!TypeOK'
  <2>1. now' \div 2 >= now \div 2 /\ now \div 2 \in Nat /\ now' \div 2 \in Nat
    <3>1. \A n \in Nat : (n + 1) \div 2 >= n \div 2 /\ n \div 2 \in Nat /\ (n + 1) \div 2 \in Nat
      OBVIOUS
    <3>2. QED BY <1>1, <3>1
  <2>2. hot' \subseteq 0..(now' \div 2)
    <3>1. hot \subseteq 0..(now \div 2)
      BY DEF WatchInv, Watch!TypeOK, Watch!Period
    <3>2. QED BY <1>1, <2>1, <3>1
  <2>3. last' \in (-case.coolDown)..now'
    BY <1>1 DEF WatchInv, Watch!TypeOK
  <2>4. \A c \in case.channels : \A i \in DOMAIN sent'[c] : sent'[c][i] \in 0..now'
    BY <1>1 DEF WatchInv, Watch!TypeOK
  <2>5. QED BY <1>1, <2>2, <2>3, <2>4 DEF WatchInv, Watch!TypeOK, Watch!Times, Watch!Names, Watch!Period
<1>3. AlertInv(case)'
  BY <1>1 DEF WatchInv, AlertInv, Watch!QuietInCoolDown
<1>4. ReadInv(case)'
  BY <1>1 DEF WatchInv, ReadInv, Watch!SpentBudgetIsTold, Watch!Times
<1>5. QED BY <1>2, <1>3, <1>4 DEF WatchInv

LEMMA WatchStands ==
  ASSUME NEW case, WatchInv(case), UNCHANGED watchVars
  PROVE  WatchInv(case)'
<1> USE DEF watchVars
<1>1. Watch(case)!TypeOK'
  BY DEF WatchInv, Watch!TypeOK, Watch!Times, Watch!Names, Watch!Period
<1>2. AlertInv(case)'
  BY DEF WatchInv, AlertInv, Watch!QuietInCoolDown
<1>3. ReadInv(case)'
  BY DEF WatchInv, ReadInv, Watch!SpentBudgetIsTold, Watch!Times
<1>4. QED BY <1>1, <1>2, <1>3 DEF WatchInv

LEMMA WatchStepKeeps ==
  ASSUME NEW case, Watch(case)!ObservatoryAssumption, WatchInv(case), Watch(case)!Next
  PROVE  WatchInv(case)'
BY RecordKeeps, ReadKeeps, CheckKeeps, TimersKeep, TickKeeps DEF Watch!Next

\* What the invariant says of alerts: a window of periods with anomalies holds
\* the one whose alert came last.
LEMMA WatchShows ==
  ASSUME NEW case, Watch(case)!ObservatoryAssumption, WatchInv(case)
  PROVE  /\ Watch(case)!TypeOK /\ Watch(case)!QuietInCoolDown
         /\ Watch(case)!LastingAnomalyIsAlerted /\ Watch(case)!SpentBudgetIsTold
<1> DEFINE first == Watch(case)!Period - case.coolDown \div 2
<1>1. now \in Nat /\ case.coolDown \in Nat \ {0} /\ case.coolDown % 2 = 0
  BY DEF WatchInv, Watch!TypeOK, Watch!Times, Watch!ObservatoryAssumption
<1>2. Watch(case)!LastingAnomalyIsAlerted
  <2> SUFFICES ASSUME first >= 0, (first..Watch(case)!Period) \subseteq hot, NEW c \in case.channels
               PROVE  \E i \in DOMAIN sent[c] : sent[c][i] >= 2 * first
    BY DEF Watch!LastingAnomalyIsAlerted
  <2>1. /\ Watch(case)!Period \in Nat
        /\ case.coolDown = 2 * (case.coolDown \div 2) /\ case.coolDown \div 2 \in Nat
    BY <1>1 DEF Watch!Period
  <2>2. Watch(case)!Period \in hot
    BY <2>1
  <2>3. PICK i \in DOMAIN sent[c] : sent[c][i] > 2 * Watch(case)!Period - case.coolDown
    BY <2>2 DEF WatchInv, AlertInv
  <2>4. sent[c][i] \in Int
    BY <2>3 DEF WatchInv, Watch!TypeOK
  <2>5. QED BY <2>1, <2>3, <2>4
<1>3. QED BY <1>2 DEF WatchInv, AlertInv, ReadInv


--------------------------------------------------------------------------
(* NpmRelease: proofs                                                      *)

\* The first of a sequence goes.
LEMMA Rest ==
  ASSUME NEW T, NEW s \in Seq(T), s # <<>>
  PROVE  /\ Tail(s) \in Seq(T) /\ Len(Tail(s)) \in Nat /\ Len(s) = Len(Tail(s)) + 1
         /\ Head(s) = s[1] /\ Head(s) \in T
         /\ \A i \in 1..Len(Tail(s)) : Tail(s)[i] = s[i + 1]
         /\ \A i \in 1..Len(s) : s[i] \in T
OBVIOUS

LEMMA TailKeeps ==
  ASSUME NEW T, NEW s \in Seq(T), s # <<>>
  PROVE  /\ Tail(s) \in Seq(T)
         /\ \A x : (\E i \in DOMAIN s : s[i] = x) =>
              x = Head(s) \/ \E i \in DOMAIN Tail(s) : Tail(s)[i] = x
<1>1. PICK t, n : t = Tail(s) /\ n = Len(t)
  OBVIOUS
<1>2. /\ t \in Seq(T) /\ n \in Nat /\ Len(s) = n + 1 /\ Head(s) = s[1]
      /\ \A i \in 1..n : t[i] = s[i + 1]
  BY <1>1, Rest
<1>3. DOMAIN s = 1..(n + 1) /\ DOMAIN t = 1..n
  BY <1>1, <1>2, LenProperties
<1>4. ASSUME NEW i \in DOMAIN s PROVE s[i] = Head(s) \/ \E j \in DOMAIN t : t[j] = s[i]
  <2>1. CASE i = 1
    BY <1>2, <2>1
  <2>2. CASE i # 1
    <3>1. PICK j : j = i - 1
      OBVIOUS
    <3>2. j \in 1..n /\ j + 1 = i
      BY <1>2, <1>3, <2>2, <3>1
    <3>3. QED BY <1>2, <1>3, <3>2
  <2>3. QED BY <2>1, <2>2
<1>5. QED BY <1>1, <1>2, <1>4

\* The last of a sequence goes.
LEMMA Shortened ==
  ASSUME NEW T, NEW s \in Seq(T), Len(s) > 1
  PROVE  /\ SubSeq(s, 1, Len(s) - 1) \in Seq(T)
         /\ Len(SubSeq(s, 1, Len(s) - 1)) = Len(s) - 1 /\ Len(s) \in Nat
         /\ \A i \in 1..(Len(s) - 1) : SubSeq(s, 1, Len(s) - 1)[i] = s[i]
OBVIOUS

LEMMA ReleaseInitial ==
  ASSUME Release!ReleaseAssumption, Release!Init
  PROVE  ReleaseInv
<1> USE DEF Release!ReleaseAssumption, Release!Init
<1>1. ReleaseTypes
  <2>1. <<>> \in Seq(Packages) /\ <<>> \in Seq(Frame)
    OBVIOUS
  <2>2. deps \in [Packages -> SUBSET Packages]
    OBVIOUS
  <2>3. 0 \in 0..Attempts
    OBVIOUS
  <2>4. Release!TypeOK
    BY <2>1, <2>3 DEF Release!TypeOK
  <2>5. QED BY <2>1, <2>2, <2>4 DEF ReleaseTypes
<1>2. RegistryInv
  BY DEF RegistryInv, Release!DependenciesFirst, Release!OnlyGoodTarballs
<1>3. StackInv /\ OrderInv /\ RunInv
  BY DEF StackInv, OrderInv, RunInv, Release!NothingRuns, Release!DoneIsThisBuild
<1>4. Release!PublishedIsTrue
  BY DEF Release!PublishedIsTrue
<1>5. QED BY <1>1, <1>2, <1>3, <1>4 DEF ReleaseInv

\* What a step that leaves the registry and the reports alone keeps of them.
LEMMA RegistryStands ==
  ASSUME ReleaseInv, UNCHANGED <<deps, registry, seen, report>>
  PROVE  RegistryInv' /\ Release!PublishedIsTrue' /\ deps' \in [Packages -> SUBSET Packages]
         /\ registry' \in [Packages -> Release!Tarballs \cup {None}]
         /\ seen' \in [Packages -> Release!Tarballs \cup {None}]
<1>1. RegistryInv'
  BY DEF ReleaseInv, RegistryInv, Release!DependenciesFirst, Release!OnlyGoodTarballs
<1>2. Release!PublishedIsTrue'
  BY DEF ReleaseInv, Release!PublishedIsTrue
<1>3. QED BY <1>1, <1>2 DEF ReleaseInv, ReleaseTypes, Release!TypeOK

\* A run that has ended, badly, leaves nothing to say of it.
LEMMA FailedKeeps ==
  ASSUME ReleaseInv, releasePc' = "failed", UNCHANGED <<deps, registry, seen, report, stack, order>>,
         artifact' \in [Packages -> Release!Tarballs \cup {None}],
         plan' \in [Packages -> {None, "publish", "skip"}], attempt' \in 0..Attempts
  PROVE  ReleaseInv'
<1>1. ReleaseTypes'
  BY RegistryStands DEF ReleaseInv, ReleaseTypes, Release!TypeOK
<1>2. StackInv' /\ OrderInv' /\ RunInv'
  BY DEF StackInv, OrderInv, RunInv, Release!NothingRuns, Release!DoneIsThisBuild
<1>3. QED BY <1>1, <1>2, RegistryStands DEF ReleaseInv

LEMMA StartRunKeeps ==
  ASSUME Release!ReleaseAssumption, ReleaseInv, Release!StartRun
  PROVE  ReleaseInv'
<1> USE DEF Release!StartRun, Release!registryVars
<1>1. UNCHANGED <<deps, registry, seen, report>> /\ releasePc' = "sorting" /\ order' = <<>>
      /\ stack' = <<[pkg |-> None, left |-> Packages]>>
  OBVIOUS
<1>2. ReleaseTypes'
  <2>1. <<>> \in Seq(Packages) /\ [pkg |-> None, left |-> Packages] \in Frame
    BY DEF Frame
  <2>2. stack' \in Seq(Frame)
    BY <1>1, <2>1
  <2>3. Release!TypeOK'
    BY <2>1, RegistryStands DEF Release!TypeOK, Release!ReleaseAssumption
  <2>4. QED BY <2>2, <2>3, RegistryStands DEF ReleaseTypes
<1>3. StackInv'
  <2>1. Len(stack') = 1 /\ stack'[1].left = Packages
    BY <1>1
  <2>2. \A i \in 2..Len(stack') : FALSE
    BY <2>1
  <2>3. \A i \in 1..Len(stack') : i = 1
    BY <2>1
  <2>4. \A i \in 1..Len(stack') : \A d \in LoopOf(i)' : d \in stack'[i].left
    BY <2>1, <2>3 DEF LoopOf
  <2>5. QED BY <2>1, <2>2, <2>4 DEF StackInv
<1>4. OrderInv' /\ RunInv'
  BY <1>1 DEF OrderInv, RunInv, Release!DoneIsThisBuild
<1>5. QED BY <1>1, <1>2, <1>3, <1>4, RegistryStands DEF ReleaseInv

\* What holds while packages are sorted, but for the stack.
LEMMA SortStands ==
  ASSUME ReleaseInv, releasePc = "sorting", releasePc' = "sorting",
         UNCHANGED <<deps, registry, seen, report, order, artifact, plan, attempt>>
  PROVE  Release!TypeOK' /\ OrderInv' /\ RunInv'
<1>1. Release!TypeOK'
  BY RegistryStands DEF ReleaseInv, ReleaseTypes, Release!TypeOK
<1>2. OrderInv'
  BY DEF ReleaseInv, OrderInv, Release!NothingRuns, Before
<1>3. RunInv'
  BY DEF ReleaseInv, RunInv, Release!DoneIsThisBuild
<1>4. QED BY <1>1, <1>2, <1>3

LEMMA VisitKeeps ==
  ASSUME Release!ReleaseAssumption, ReleaseInv, Release!Visit
  PROVE  ReleaseInv'
<1> DEFINE n == Len(stack)
<1>1. /\ UNCHANGED <<deps, registry, seen, report, order, artifact, plan, attempt>>
      /\ releasePc = "sorting"
  BY DEF Release!Visit, Release!registryVars
<1>2. /\ n \in Nat \ {0} /\ stack \in Seq(Frame) /\ stack \in [1..n -> Frame]
      /\ \A i \in 1..n : stack[i] \in Frame
      /\ \A i \in 2..n : stack[i].pkg \in Packages
      /\ deps \in [Packages -> SUBSET Packages]
  BY <1>1 DEF ReleaseInv, ReleaseTypes, StackInv
<1>3. PICK pkg \in stack[n].left :
        LET rest == [stack EXCEPT ![n].left = @ \ {pkg}]
        IN  IF InOrder(pkg)
              THEN stack' = rest /\ UNCHANGED releasePc
            ELSE \/ releasePc' = "failed" /\ UNCHANGED stack
                 \/ stack' = Append(rest, [pkg |-> pkg, left |-> deps[pkg]]) /\ UNCHANGED releasePc
  <2>1. \A q : (\E i \in DOMAIN order : order[i] = q) <=> InOrder(q)
    <3>1. DOMAIN order = 1..Len(order)
      BY DEF ReleaseInv, ReleaseTypes, Release!TypeOK
    <3>2. QED BY <3>1 DEF InOrder
  <2>2. QED BY <2>1 DEF Release!Visit, Release!Top, Release!Fail
<1> DEFINE rest == [stack EXCEPT ![n].left = @ \ {pkg}]
<1>4. pkg \in Packages
  <2>1. stack[n] \in Frame
    BY <1>2
  <2>2. QED BY <1>3, <2>1 DEF Frame
<1>5. /\ rest \in Seq(Frame) /\ Len(rest) = n
      /\ \A i \in 1..n : /\ rest[i].pkg = stack[i].pkg
                         /\ rest[i].left = IF i = n THEN stack[n].left \ {pkg} ELSE stack[i].left
  <2>1. n \in 1..n /\ stack[n] \in Frame
    BY <1>2
  <2>2. /\ [stack[n] EXCEPT !.left = @ \ {pkg}] \in Frame
        /\ [stack[n] EXCEPT !.left = @ \ {pkg}].pkg = stack[n].pkg
        /\ [stack[n] EXCEPT !.left = @ \ {pkg}].left = stack[n].left \ {pkg}
    BY <2>1 DEF Frame
  <2>3. PICK top : top = [stack[n] EXCEPT !.left = @ \ {pkg}]
    OBVIOUS
  <2>4. rest = [stack EXCEPT ![n] = top]
    BY <2>3
  <2>5. top \in Frame /\ top.pkg = stack[n].pkg /\ top.left = stack[n].left \ {pkg}
    BY <2>2, <2>3
  <2> HIDE DEF rest, n
  <2>6. rest \in [1..n -> Frame] /\ rest[n] = top /\ \A i \in 1..n : i # n => rest[i] = stack[i]
    BY <1>2, <2>1, <2>4, <2>5
  <2>7. rest \in Seq(Frame) /\ Len(rest) = n
    BY <1>2, <2>6
  <2>8. QED BY <2>1, <2>5, <2>6, <2>7
<1>6. \A i \in 1..n : \A d \in LoopOf(i) :
        \/ d \in rest[i].left \/ InOrder(d) \/ (i < n /\ rest[i + 1].pkg = d)
        \/ (i = n /\ d = pkg)
  <2> SUFFICES ASSUME NEW i \in 1..n, NEW d \in LoopOf(i)
               PROVE  \/ d \in rest[i].left \/ InOrder(d) \/ (i < n /\ rest[i + 1].pkg = d)
                      \/ (i = n /\ d = pkg)
    OBVIOUS
  <2>1. d \in stack[i].left \/ InOrder(d) \/ (i < n /\ stack[i + 1].pkg = d)
    BY <1>1 DEF ReleaseInv, StackInv
  <2>2. i < n => i + 1 \in 1..n
    BY <1>2
  <2> HIDE DEF rest, n
  <2>3. QED BY <1>5, <2>1, <2>2
<1>7. /\ \A i \in 1..n : LoopOf(i) = IF i = 1 THEN Packages ELSE deps[rest[i].pkg]
      /\ \A i \in 2..n : rest[i].pkg \in Packages
  <2>1. \A i \in 2..n : i \in 1..n
    BY <1>2
  <2> HIDE DEF rest, n
  <2>2. QED BY <1>2, <1>5, <2>1 DEF LoopOf
<1>8. CASE InOrder(pkg) /\ stack' = rest /\ UNCHANGED releasePc
  <2> HIDE DEF rest
  <2>1. StackInv'
    <3>1. Len(stack') = n
      BY <1>5, <1>8
    <3>2. \A i \in 1..n : LoopOf(i)' = LoopOf(i)
      BY <1>1, <1>7, <1>8 DEF LoopOf
    <3>3. \A d : InOrder(d)' <=> InOrder(d)
      BY <1>1 DEF InOrder
    <3> HIDE DEF n
    <3>4. QED BY <1>2, <1>6, <1>7, <1>8, <3>1, <3>2, <3>3 DEF StackInv
  <2>2. ReleaseTypes'
    BY <1>1, <1>5, <1>8, SortStands, RegistryStands DEF ReleaseTypes
  <2>3. QED BY <1>1, <1>8, <2>1, <2>2, SortStands, RegistryStands DEF ReleaseInv
<1>9. CASE releasePc' = "failed" /\ UNCHANGED stack
  BY <1>1, <1>9, FailedKeeps DEF ReleaseInv, ReleaseTypes, Release!TypeOK
<1>10. CASE stack' = Append(rest, [pkg |-> pkg, left |-> deps[pkg]]) /\ UNCHANGED releasePc
  <2> HIDE DEF rest
  <2>1. PICK new : new = [pkg |-> pkg, left |-> deps[pkg]]
    OBVIOUS
  <2>2. new \in Frame /\ new.pkg = pkg /\ new.left = deps[pkg]
    BY <1>2, <1>4, <2>1 DEF Frame
  <2>3. /\ stack' \in Seq(Frame) /\ Len(stack') = n + 1 /\ stack'[n + 1] = new
        /\ \A i \in 1..n : stack'[i] = rest[i]
    <3> HIDE DEF n
    <3>1. stack' = Append(rest, new)
      BY <1>10, <2>1
    <3>2. QED BY <1>5, <2>2, <3>1, Appended
  <2>4. StackInv'
    <3> HIDE DEF n
    <3>1. \A i \in 1..n : LoopOf(i)' = LoopOf(i)
      BY <1>1, <1>7, <2>3 DEF LoopOf
    <3>2. \A i : i = n + 1 => LoopOf(i)' = new.left
      BY <1>1, <1>2, <2>2, <2>3 DEF LoopOf
    <3>3. \A d : InOrder(d)' <=> InOrder(d)
      BY <1>1 DEF InOrder
    <3>4. \A i \in 1..(n + 1) : i \in 1..n \/ i = n + 1
      BY <1>2
    <3>5. \A i \in 1..n : i < n + 1 /\ (i < n => i + 1 \in 1..n)
      BY <1>2
    <3>6. \A i \in 1..(n + 1) : \A d \in LoopOf(i)' :
            d \in stack'[i].left \/ InOrder(d)' \/ (i < n + 1 /\ stack'[i + 1].pkg = d)
      <4> TAKE i \in 1..(n + 1)
      <4>1. CASE i \in 1..n
        BY <1>6, <2>2, <2>3, <3>1, <3>3, <3>5, <4>1
      <4>2. CASE i = n + 1
        <5>1. LoopOf(i)' = new.left /\ stack'[i].left = new.left
          BY <2>3, <3>2, <4>2
        <5>2. QED BY <5>1
      <4>3. QED BY <3>4, <4>1, <4>2
    <3>7. \A i \in 2..(n + 1) : stack'[i].pkg \in Packages
      <4>1. \A i \in 2..(n + 1) : i \in 2..n \/ i = n + 1
        BY <1>2
      <4>2. \A i \in 2..n : i \in 1..n
        BY <1>2
      <4>3. QED BY <1>4, <1>7, <2>2, <2>3, <4>1, <4>2
    <3>8. n + 1 >= 1
      BY <1>2
    <3>9. QED BY <2>3, <3>6, <3>7, <3>8 DEF StackInv
  <2>5. ReleaseTypes'
    BY <1>1, <1>10, <2>3, SortStands, RegistryStands DEF ReleaseTypes
  <2>6. QED BY <1>1, <1>10, <2>4, <2>5, SortStands, RegistryStands DEF ReleaseInv
<1>11. QED BY <1>3, <1>8, <1>9, <1>10


LEMMA LeaveKeeps ==
  ASSUME Release!ReleaseAssumption, ReleaseInv, Release!Leave
  PROVE  ReleaseInv'
<1>1. PICK n : n = Len(stack)
  OBVIOUS
<1>2. PICK top : top = stack[n].pkg
  OBVIOUS
<1>3. PICK m : m = Len(order)
  OBVIOUS
<1>4. /\ UNCHANGED <<deps, registry, seen, report, artifact, plan, attempt, releasePc>>
      /\ releasePc = "sorting" /\ n > 1 /\ stack[n].left = {}
      /\ stack' = SubSeq(stack, 1, n - 1) /\ order' = Append(order, top)
  BY <1>1, <1>2 DEF Release!Leave, Release!registryVars, Release!Top
<1>5. /\ n \in Nat /\ stack \in Seq(Frame) /\ order \in Seq(Packages)
      /\ \A i \in 2..n : stack[i].pkg \in Packages
      /\ deps \in [Packages -> SUBSET Packages]
      /\ \A i \in 1..n : \A d \in LoopOf(i) :
           d \in stack[i].left \/ InOrder(d) \/ (i < n /\ stack[i + 1].pkg = d)
  <2>1. n \in Nat
    BY <1>1, LenProperties DEF ReleaseInv, ReleaseTypes
  <2>2. QED BY <1>1, <1>4, <2>1 DEF ReleaseInv, ReleaseTypes, StackInv, Release!TypeOK
<1>6. top \in Packages
  <2>1. n \in 2..n
    BY <1>4, <1>5
  <2>2. QED BY <1>2, <1>5, <2>1
<1>7. /\ stack' \in Seq(Frame) /\ Len(stack') = n - 1
      /\ \A i \in 1..(n - 1) : stack'[i] = stack[i]
  BY <1>1, <1>4, <1>5, Shortened
<1>8. /\ order' \in Seq(Packages) /\ Len(order') = m + 1 /\ m \in Nat /\ order'[m + 1] = top
      /\ \A i \in 1..m : order'[i] = order[i] /\ order[i] \in Packages
  BY <1>3, <1>4, <1>5, <1>6, Appended
<1>9. InOrder(top)' /\ \A d : InOrder(d) => InOrder(d)'
  <2>1. m + 1 \in 1..(m + 1) /\ \A i \in 1..m : i \in 1..(m + 1)
    BY <1>8
  <2>2. QED BY <1>3, <1>8, <2>1 DEF InOrder
<1>10. StackInv'
  <2>1. \A i \in 1..(n - 1) : LoopOf(i)' = LoopOf(i)
    BY <1>4, <1>7 DEF LoopOf
  <2>2. \A i \in 1..(n - 1) : i \in 1..n /\ i < n /\ (i < n - 1 => i + 1 \in 1..(n - 1)) /\ (i = n - 1 \/ i < n - 1)
    BY <1>5
  <2>3. n - 1 >= 1 /\ (n - 1) + 1 = n /\ \A i \in 2..(n - 1) : i \in 2..n /\ i \in 1..(n - 1)
    BY <1>4, <1>5
  <2>4. \A i \in 1..(n - 1) : \A d \in LoopOf(i)' :
          d \in stack'[i].left \/ InOrder(d)' \/ (i < n - 1 /\ stack'[i + 1].pkg = d)
    <3> SUFFICES ASSUME NEW i \in 1..(n - 1), NEW d \in LoopOf(i)
                 PROVE  d \in stack'[i].left \/ InOrder(d)' \/ (i < n - 1 /\ stack'[i + 1].pkg = d)
      BY <2>1
    <3>1. d \in stack[i].left \/ InOrder(d) \/ stack[i + 1].pkg = d
      BY <1>5, <2>2
    <3>2. CASE i = n - 1
      <4>1. stack[i + 1].pkg = top
        BY <1>2, <2>3, <3>2
      <4>2. QED BY <1>7, <1>9, <3>1, <4>1
    <3>3. CASE i < n - 1
      <4>1. stack'[i + 1] = stack[i + 1] /\ stack'[i] = stack[i]
        BY <1>7, <2>2, <3>3
      <4>2. QED BY <1>9, <3>1, <3>3, <4>1
    <3>4. QED BY <2>2, <3>2, <3>3
  <2>5. \A i \in 2..(n - 1) : stack'[i].pkg \in Packages
    BY <1>5, <1>7, <2>3
  <2>6. QED BY <1>7, <2>3, <2>4, <2>5 DEF StackInv
<1>11. OrderInv'
  <2>1. \A i \in 1..(m + 1) : i \in 1..m \/ i = m + 1
    BY <1>8
  <2>2. \A i \in 1..m : \A d \in deps[order[i]] : Before(i, d) \/ registry[d] # None
    BY <1>3, <1>4 DEF ReleaseInv, OrderInv, Release!NothingRuns
  <2>3. \A d \in deps[top] : InOrder(d)
    <3>1. n \in 1..n /\ ~(n < n) /\ n # 1
      BY <1>4, <1>5
    <3>2. LoopOf(n) = deps[top]
      BY <1>2, <3>1 DEF LoopOf
    <3>3. QED BY <1>4, <1>5, <3>1, <3>2
  <2>4. \A i \in 1..m : \A d : Before(i, d) => Before(i, d)'
    <3>1. \A i \in 1..m : \A j \in 1..(i - 1) : j \in 1..m
      BY <1>8
    <3>2. QED BY <1>8, <3>1 DEF Before
  <2>5. \A i, d : i = m + 1 /\ InOrder(d) => Before(i, d)'
    <3>1. \A i : i = m + 1 => i - 1 = m
      BY <1>8
    <3>2. QED BY <1>3, <1>8, <3>1 DEF Before, InOrder
  <2>6. \A i \in 1..(m + 1) : \A d \in deps'[order'[i]] : Before(i, d)' \/ registry'[d] # None
    <3> TAKE i \in 1..(m + 1)
    <3>1. CASE i \in 1..m
      BY <1>4, <1>8, <2>2, <2>4, <3>1
    <3>2. CASE i = m + 1
      BY <1>4, <1>8, <2>3, <2>5, <3>2
    <3>3. QED BY <2>1, <3>1, <3>2
  <2>7. QED BY <1>8, <2>6 DEF OrderInv
<1>12. ReleaseTypes'
  <2>1. Release!TypeOK'
    BY <1>4, <1>8, RegistryStands DEF ReleaseInv, ReleaseTypes, Release!TypeOK
  <2>2. QED BY <1>4, <1>7, <2>1, RegistryStands DEF ReleaseTypes
<1>13. RunInv'
  BY <1>4 DEF ReleaseInv, RunInv, Release!DoneIsThisBuild
<1>14. QED BY <1>4, <1>10, <1>11, <1>12, <1>13, RegistryStands DEF ReleaseInv

LEMMA SortedKeeps ==
  ASSUME Release!ReleaseAssumption, ReleaseInv, Release!Sorted
  PROVE  ReleaseInv'
<1>1. /\ UNCHANGED <<deps, registry, seen, report, order, artifact, plan, attempt>>
      /\ releasePc = "sorting" /\ releasePc' = "verifying" /\ stack' = <<>>
      /\ Len(stack) = 1 /\ stack[Len(stack)].left = {}
  BY DEF Release!Sorted, Release!registryVars, Release!Top
<1>2. \A p \in Packages : InOrder(p)
  <2>1. 1 \in 1..1 /\ ~(1 < 1)
    OBVIOUS
  <2>2. QED BY <1>1, <2>1 DEF ReleaseInv, StackInv, LoopOf
<1>3. ReleaseTypes'
  <2>1. <<>> \in Seq(Frame)
    OBVIOUS
  <2>2. Release!TypeOK'
    BY <1>1, RegistryStands DEF ReleaseInv, ReleaseTypes, Release!TypeOK
  <2>3. QED BY <1>1, <2>1, <2>2, RegistryStands DEF ReleaseTypes
<1>4. StackInv' /\ OrderInv'
  BY <1>1 DEF ReleaseInv, StackInv, OrderInv, Before, Release!NothingRuns
<1>5. RunInv'
  BY <1>1, <1>2 DEF ReleaseInv, RunInv, InOrder, Release!DoneIsThisBuild
<1>6. QED BY <1>1, <1>3, <1>4, <1>5, RegistryStands DEF ReleaseInv

LEMMA VerifyKeeps ==
  ASSUME Release!ReleaseAssumption, ReleaseInv, NEW directory \in Directories,
         Release!Verify(directory)
  PROVE  ReleaseInv'
<1>1. /\ UNCHANGED <<deps, registry, seen, report, stack, order, plan, attempt>>
      /\ releasePc = "verifying"
  BY DEF Release!Verify, Release!registryVars, Release!sortVars
<1>2. CASE releasePc' = "failed" /\ UNCHANGED artifact
  BY <1>1, <1>2, FailedKeeps DEF ReleaseInv, ReleaseTypes, Release!TypeOK
<1>3. CASE /\ Release!VerifyNpmArtifacts(directory) /\ releasePc' = "planning"
           /\ artifact' = [p \in Packages |-> CHOOSE t \in directory : t.pkg = p]
  <2>1. \A p \in Packages : artifact'[p] \in Release!Tarballs /\ artifact'[p].pkg = p
                            /\ artifact'[p].fault = "none"
    <3> TAKE p \in Packages
    <3>1. \E t \in directory : t.pkg = p
      BY <1>3 DEF Release!VerifyNpmArtifacts
    <3>2. artifact'[p] \in directory /\ artifact'[p].pkg = p
      BY <1>3, <3>1
    <3>3. artifact'[p] \in Release!Tarballs
      BY <3>2 DEF Release!Tarballs
    <3>4. artifact'[p].fault = "none"
      BY <1>3, <3>2, <3>3
      DEF Release!VerifyNpmArtifacts, Release!InspectTarball, Release!Listed,
          Release!ValidateArtifact, Release!ReleaseAssumption, Release!Faults, Release!Tarballs
    <3>5. QED BY <3>2, <3>3, <3>4
  <2>2. ReleaseTypes'
    <3>1. artifact' \in [Packages -> Release!Tarballs \cup {None}]
      BY <1>3, <2>1
    <3>2. Release!TypeOK'
      BY <1>1, <1>3, <3>1, RegistryStands DEF ReleaseInv, ReleaseTypes, Release!TypeOK
    <3>3. QED BY <1>1, <3>2, RegistryStands DEF ReleaseInv, ReleaseTypes
  <2>3. StackInv' /\ OrderInv'
    BY <1>1, <1>3 DEF ReleaseInv, StackInv, OrderInv, Before, Release!NothingRuns
  <2>4. \A p \in Packages : InOrder(p)' /\ plan'[p] # "skip"
    BY <1>1 DEF ReleaseInv, RunInv, InOrder, Release!ReleaseAssumption
  <2>5. RunInv'
    BY <1>3, <2>1, <2>4 DEF RunInv, Release!DoneIsThisBuild
  <2>6. QED BY <1>1, <2>2, <2>3, <2>5, RegistryStands DEF ReleaseInv
<1>4. QED BY <1>2, <1>3 DEF Release!Verify, Release!Fail

\* Planning, and what else a run does while it leaves the order alone.
LEMMA OrderStands ==
  ASSUME ReleaseInv, ~Release!NothingRuns,
         UNCHANGED <<deps, registry, seen, report, stack, order, artifact>>,
         releasePc' \in {"planning", "publishing", "waiting"}, plan' \in [Packages -> {None, "publish", "skip"}],
         attempt' \in 0..Attempts
  PROVE  ReleaseTypes' /\ StackInv' /\ OrderInv'
<1>1. Release!TypeOK'
  BY RegistryStands DEF ReleaseInv, ReleaseTypes, Release!TypeOK
<1>2. ReleaseTypes'
  BY <1>1, RegistryStands DEF ReleaseInv, ReleaseTypes
<1>3. StackInv' /\ OrderInv'
  BY DEF ReleaseInv, StackInv, OrderInv, Before
<1>4. QED BY <1>2, <1>3

LEMMA PlanKeeps ==
  ASSUME Release!ReleaseAssumption, ReleaseInv, NEW p \in Packages, Release!Plan(p)
  PROVE  ReleaseInv'
<1>1. /\ UNCHANGED <<deps, registry, seen, report, stack, order, artifact, attempt>>
      /\ releasePc = "planning"
  BY DEF Release!Plan, Release!registryVars, Release!sortVars
<1>2. CASE releasePc' = "failed" /\ UNCHANGED plan
  BY <1>1, <1>2, FailedKeeps DEF ReleaseInv, ReleaseTypes, Release!TypeOK
<1>3. CASE /\ UNCHANGED releasePc
           /\ \/ plan' = [plan EXCEPT ![p] = "publish"]
              \/ seen[p] = artifact[p] /\ plan' = [plan EXCEPT ![p] = "skip"]
  <2>1. plan \in [Packages -> {None, "publish", "skip"}] /\ attempt \in 0..Attempts
    BY DEF ReleaseInv, ReleaseTypes, Release!TypeOK
  <2>2. plan' \in [Packages -> {None, "publish", "skip"}]
    BY <1>3, <2>1
  <2>3. ReleaseTypes' /\ StackInv' /\ OrderInv'
    BY <1>1, <1>3, <2>1, <2>2, OrderStands DEF Release!NothingRuns
  <2>4. \A q \in Packages : plan'[q] = "skip" => registry[q] = artifact[q]
    <3> SUFFICES ASSUME NEW q \in Packages, plan'[q] = "skip" PROVE registry[q] = artifact[q]
      OBVIOUS
    <3>1. CASE plan[q] = "skip"
      BY <1>1, <3>1 DEF ReleaseInv, RunInv
    <3>2. CASE q = p /\ seen[p] = artifact[p]
      <4>1. artifact[p] # None
        BY <1>1 DEF ReleaseInv, RunInv, Release!ReleaseAssumption, Release!Tarballs
      <4>2. QED BY <3>2, <4>1 DEF ReleaseInv, RegistryInv
    <3>3. QED BY <1>3, <2>1, <3>1, <3>2
  <2>5. RunInv'
    BY <1>1, <1>3, <2>4 DEF ReleaseInv, RunInv, InOrder, Release!DoneIsThisBuild
  <2>6. QED BY <1>1, <2>3, <2>5, RegistryStands DEF ReleaseInv
<1>4. QED BY <1>2, <1>3 DEF Release!Plan, Release!Fail, Release!MatchesPublishedIntegrity

LEMMA PlannedKeeps ==
  ASSUME Release!ReleaseAssumption, ReleaseInv, Release!Planned
  PROVE  ReleaseInv'
<1>1. /\ UNCHANGED <<deps, registry, seen, report, stack, order, artifact, plan, attempt>>
      /\ releasePc = "planning" /\ releasePc' = "publishing"
  BY DEF Release!Planned, Release!registryVars, Release!sortVars
<1>2. ReleaseTypes' /\ StackInv' /\ OrderInv'
  <2>1. plan' \in [Packages -> {None, "publish", "skip"}] /\ attempt' \in 0..Attempts
    BY <1>1 DEF ReleaseInv, ReleaseTypes, Release!TypeOK
  <2>2. QED BY <1>1, <2>1, OrderStands DEF Release!NothingRuns
<1>3. RunInv'
  BY <1>1 DEF ReleaseInv, RunInv, InOrder, Release!DoneIsThisBuild
<1>4. QED BY <1>1, <1>2, <1>3, RegistryStands DEF ReleaseInv


\* The first of the order is on the registry, and the next one's turn comes.
LEMMA NextKeeps ==
  ASSUME Release!ReleaseAssumption, ReleaseInv, releasePc \in {"publishing", "waiting"}, order # <<>>,
         registry[Head(order)] = artifact[Head(order)], order' = Tail(order), releasePc' = "publishing",
         UNCHANGED <<deps, registry, seen, report, stack, artifact, plan, attempt>>
  PROVE  ReleaseInv'
<1>1. PICK m : m = Len(Tail(order))
  OBVIOUS
<1>2. PICK h : h = Head(order)
  OBVIOUS
<1>3. /\ order' \in Seq(Packages) /\ Len(order') = m /\ m \in Nat /\ Len(order) = m + 1
      /\ order[1] = h /\ h \in Packages
      /\ \A i \in 1..m : order'[i] = order[i + 1]
      /\ \A i \in 1..(m + 1) : order[i] \in Packages
  <2>1. order \in Seq(Packages)
    BY DEF ReleaseInv, ReleaseTypes, Release!TypeOK
  <2>2. QED BY <1>1, <1>2, <2>1, Rest
<1>4. registry[h] = artifact[h] /\ registry[h] # None
  BY <1>2, <1>3 DEF ReleaseInv, RunInv, Release!ReleaseAssumption, Release!Tarballs
<1>5. \A q : InOrder(q) => InOrder(q)' \/ q = h
  <2> SUFFICES ASSUME NEW q, InOrder(q), q # h PROVE InOrder(q)'
    OBVIOUS
  <2>1. PICK j \in 1..(m + 1) : order[j] = q
    BY <1>3 DEF InOrder
  <2>2. j - 1 \in 1..m /\ (j - 1) + 1 = j
    BY <1>3, <2>1
  <2>3. order'[j - 1] = q
    BY <1>3, <2>1, <2>2
  <2>4. QED BY <1>3, <2>2, <2>3 DEF InOrder
<1>6. OrderInv'
  <2> SUFFICES ASSUME NEW i \in 1..m, NEW d \in deps[order[i + 1]], registry[d] = None
               PROVE  Before(i, d)'
    BY <1>3 DEF OrderInv
  <2>1. i + 1 \in 1..(m + 1)
    BY <1>3
  <2>2. Before(i + 1, d)
    BY <1>3, <2>1 DEF ReleaseInv, OrderInv, Release!NothingRuns
  <2>3. PICK j \in 1..((i + 1) - 1) : order[j] = d
    BY <2>2 DEF Before
  <2>4. j # 1
    BY <1>3, <1>4, <2>3
  <2>5. j - 1 \in 1..(i - 1) /\ j - 1 \in 1..m /\ (j - 1) + 1 = j
    BY <1>3, <2>3, <2>4
  <2>6. order'[j - 1] = d
    BY <1>3, <2>3, <2>5
  <2>7. QED BY <2>5, <2>6 DEF Before
<1>7. RunInv'
  <2>1. \A p \in Packages : InOrder(p)' \/ registry[p] = artifact[p]
    BY <1>4, <1>5 DEF ReleaseInv, RunInv
  <2>2. QED BY <2>1 DEF ReleaseInv, RunInv, Release!DoneIsThisBuild
<1>8. ReleaseTypes' /\ StackInv'
  BY <1>3, RegistryStands DEF ReleaseInv, ReleaseTypes, StackInv, Release!TypeOK
<1>9. QED BY <1>6, <1>7, <1>8, RegistryStands DEF ReleaseInv

LEMMA SkipKeeps ==
  ASSUME Release!ReleaseAssumption, ReleaseInv, Release!Skip
  PROVE  ReleaseInv'
<1>1. Head(order) \in Packages
  <2>1. order \in Seq(Packages) /\ order # <<>>
    BY DEF ReleaseInv, ReleaseTypes, Release!TypeOK, Release!Skip
  <2>2. QED BY <2>1, Rest
<1>2. registry[Head(order)] = artifact[Head(order)]
  BY <1>1 DEF Release!Skip, ReleaseInv, RunInv
<1>3. QED BY <1>2, NextKeeps DEF Release!Skip, Release!registryVars

LEMMA PollKeeps ==
  ASSUME Release!ReleaseAssumption, ReleaseInv, Release!Poll
  PROVE  ReleaseInv'
<1>1. /\ UNCHANGED <<deps, registry, seen, report, stack, artifact, plan>>
      /\ releasePc = "waiting" /\ order # <<>> /\ order \in Seq(Packages)
      /\ attempt \in 0..Attempts /\ Attempts \in Nat
  BY DEF Release!Poll, Release!registryVars, ReleaseInv, RunInv, ReleaseTypes, Release!TypeOK,
         Release!ReleaseAssumption
<1>2. Head(order) \in Packages
  BY <1>1, Rest
<1>3. CASE /\ seen[Head(order)] = artifact[Head(order)]
           /\ releasePc' = "publishing" /\ order' = Tail(order) /\ UNCHANGED attempt
  <2>1. artifact[Head(order)] # None
    BY <1>1, <1>2 DEF ReleaseInv, RunInv, Release!ReleaseAssumption, Release!Tarballs
  <2>2. registry[Head(order)] = artifact[Head(order)]
    BY <1>2, <1>3, <2>1 DEF ReleaseInv, RegistryInv
  <2>3. QED BY <1>1, <1>3, <2>2, NextKeeps
<1>4. CASE attempt < Attempts /\ attempt' = attempt + 1 /\ UNCHANGED <<releasePc, order>>
  <2>1. attempt' \in 0..Attempts /\ plan' \in [Packages -> {None, "publish", "skip"}]
    BY <1>1, <1>4 DEF ReleaseInv, ReleaseTypes, Release!TypeOK
  <2>2. ReleaseTypes' /\ StackInv' /\ OrderInv'
    BY <1>1, <1>4, <2>1, OrderStands DEF Release!NothingRuns
  <2>3. RunInv'
    BY <1>1, <1>4 DEF ReleaseInv, RunInv, InOrder, Release!DoneIsThisBuild
  <2>4. QED BY <1>1, <2>2, <2>3, RegistryStands DEF ReleaseInv
<1>5. CASE releasePc' = "failed" /\ UNCHANGED <<order, attempt>>
  BY <1>1, <1>5, FailedKeeps DEF ReleaseInv, ReleaseTypes, Release!TypeOK
<1>6. QED BY <1>3, <1>4, <1>5 DEF Release!Poll, Release!Fail, Release!MatchesPublishedIntegrity

\* The registry takes the first of the order: its dependencies are there.
LEMMA TakenKeeps ==
  ASSUME Release!ReleaseAssumption, ReleaseInv, releasePc = "publishing", order # <<>>,
         registry[Head(order)] = None,
         registry' = [registry EXCEPT ![Head(order)] = artifact[Head(order)]],
         \/ releasePc' = "waiting" /\ attempt' = 1
         \/ releasePc' = "failed" /\ UNCHANGED attempt,
         UNCHANGED <<deps, seen, report, stack, order, artifact, plan>>
  PROVE  ReleaseInv'
<1>1. PICK h : h = Head(order)
  OBVIOUS
<1>2. PICK m : m = Len(order)
  OBVIOUS
<1>3. /\ h \in Packages /\ order[1] = h /\ m \in Nat \ {0} /\ \A i \in 1..m : order[i] \in Packages
      /\ order \in Seq(Packages)
  <2>1. order \in Seq(Packages)
    BY DEF ReleaseInv, ReleaseTypes, Release!TypeOK
  <2>2. QED BY <1>1, <1>2, <2>1, Rest
<1>4. /\ registry \in [Packages -> Release!Tarballs \cup {None}] /\ seen \in [Packages -> Release!Tarballs \cup {None}]
      /\ artifact[h] \in Release!Tarballs /\ artifact[h].pkg = h /\ artifact[h].fault = "none"
      /\ artifact[h] # None /\ deps \in [Packages -> SUBSET Packages]
  BY <1>3 DEF ReleaseInv, ReleaseTypes, RunInv, Release!TypeOK, Release!ReleaseAssumption, Release!Tarballs
<1>5. /\ registry' \in [Packages -> Release!Tarballs \cup {None}] /\ registry'[h] = artifact[h]
      /\ \A p \in Packages : p # h => registry'[p] = registry[p]
  BY <1>1, <1>3, <1>4
<1>6. \A p \in Packages : registry[p] # None => registry'[p] = registry[p]
  BY <1>1, <1>5
<1>7. \A p \in Packages : registry'[p] # None => p = h \/ registry[p] # None
  BY <1>5
<1>8. RegistryInv'
  <2>1. \A d \in deps[h] : registry[d] # None
    <3>1. 1 \in 1..m /\ \A j \in 1..(1 - 1) : FALSE
      BY <1>3
    <3>2. QED BY <1>2, <1>3, <3>1 DEF ReleaseInv, OrderInv, Before, Release!NothingRuns
  <2>2. Release!DependenciesFirst'
    <3> SUFFICES ASSUME NEW p \in Packages, registry'[p] # None, NEW d \in deps[p]
                 PROVE  registry'[d] # None
      BY DEF Release!DependenciesFirst
    <3>1. registry[d] # None /\ d \in Packages
      BY <1>4, <1>7, <2>1 DEF ReleaseInv, RegistryInv, Release!DependenciesFirst
    <3>2. QED BY <1>6, <3>1
  <2>3. Release!OnlyGoodTarballs'
    BY <1>4, <1>5, <1>7 DEF ReleaseInv, RegistryInv, Release!OnlyGoodTarballs
  <2>4. \A p \in Packages : seen'[p] \in {None, registry'[p]}
    BY <1>1, <1>5 DEF ReleaseInv, RegistryInv
  <2>5. QED BY <2>2, <2>3, <2>4 DEF RegistryInv
<1>9. Release!PublishedIsTrue'
  BY <1>6 DEF ReleaseInv, Release!PublishedIsTrue
<1>10. ReleaseTypes'
  <2>1. attempt' \in 0..Attempts
    BY DEF ReleaseInv, ReleaseTypes, Release!TypeOK, Release!ReleaseAssumption
  <2>2. QED BY <1>5, <2>1 DEF ReleaseInv, ReleaseTypes, Release!TypeOK
<1>11. StackInv' /\ OrderInv'
  <2>1. \A i \in 1..m : \A d \in deps[order[i]] : Before(i, d) \/ registry'[d] # None
    <3> TAKE i \in 1..m
    <3> TAKE d \in deps[order[i]]
    <3>1. d \in Packages
      BY <1>3, <1>4
    <3>2. Before(i, d) \/ registry[d] # None
      BY <1>2 DEF ReleaseInv, OrderInv, Release!NothingRuns
    <3>3. QED BY <1>6, <3>1, <3>2
  <2>2. QED BY <1>2, <2>1 DEF StackInv, OrderInv, Before
<1>12. RunInv'
  <2>1. \A p \in Packages : registry[p] = artifact[p] => registry'[p] = artifact[p]
    BY <1>5
  <2>2. QED BY <2>1 DEF ReleaseInv, RunInv, InOrder, Release!DoneIsThisBuild
<1>13. QED BY <1>8, <1>9, <1>10, <1>11, <1>12 DEF ReleaseInv

LEMMA PublishKeeps ==
  ASSUME Release!ReleaseAssumption, ReleaseInv, Release!Publish
  PROVE  ReleaseInv'
<1>1. /\ UNCHANGED <<deps, seen, report, stack, order, artifact, plan>>
      /\ releasePc = "publishing" /\ order # <<>>
  BY DEF Release!Publish, Release!sortVars
<1>2. CASE releasePc' = "failed" /\ UNCHANGED <<registry, attempt>>
  BY <1>1, <1>2, FailedKeeps DEF ReleaseInv, ReleaseTypes, Release!TypeOK
<1>3. CASE /\ registry[Head(order)] = None
           /\ registry' = [registry EXCEPT ![Head(order)] = artifact[Head(order)]]
           /\ \/ releasePc' = "waiting" /\ attempt' = 1
              \/ releasePc' = "failed" /\ UNCHANGED attempt
  BY <1>1, <1>3, TakenKeeps
<1>4. QED BY <1>2, <1>3 DEF Release!Publish, Release!Fail

LEMMA CompleteKeeps ==
  ASSUME Release!ReleaseAssumption, ReleaseInv, Release!Complete
  PROVE  ReleaseInv'
<1>1. /\ UNCHANGED <<deps, registry, seen, report, stack, order, artifact, plan, attempt>>
      /\ releasePc = "publishing" /\ releasePc' = "done" /\ order = <<>>
  BY DEF Release!Complete, Release!registryVars, Release!sortVars
<1>2. \A p \in Packages : ~InOrder(p)
  <2>1. \A i \in 1..Len(order) : FALSE
    BY <1>1
  <2>2. QED BY <2>1 DEF InOrder
<1>3. registry = artifact
  <2>1. \A p \in Packages : registry[p] = artifact[p]
    BY <1>1, <1>2 DEF ReleaseInv, RunInv
  <2>2. QED BY <2>1 DEF ReleaseInv, ReleaseTypes, Release!TypeOK
<1>4. ReleaseTypes'
  BY <1>1, RegistryStands DEF ReleaseInv, ReleaseTypes, Release!TypeOK
<1>5. StackInv' /\ OrderInv' /\ RunInv'
  BY <1>1, <1>3 DEF StackInv, OrderInv, RunInv, Release!NothingRuns, Release!DoneIsThisBuild
<1>6. QED BY <1>1, <1>4, <1>5, RegistryStands DEF ReleaseInv

\* The finite sets of the instance are those of the library.
LEMMA SameSets ==
  /\ \A S : Release!IsFiniteSet(S) => IsFiniteSet(S)
  /\ \A S : Release!Cardinality(S) = Cardinality(S)
<1>1. \A S : Release!IsFiniteSet(S) => IsFiniteSet(S)
  BY Zenon DEF Release!IsFiniteSet, IsFiniteSet
<1>2. \A S : Release!Cardinality(S) = Cardinality(S)
  BY Zenon DEF Release!Cardinality, Cardinality
<1>3. QED BY <1>1, <1>2

\* What happens besides a run.
LEMMA ReleaseWorldKeeps ==
  ASSUME Release!ReleaseAssumption, ReleaseInv,
         Release!Inspect \/ \E p \in Packages : Release!Replicate(p)
  PROVE  ReleaseInv'
<1>1. UNCHANGED <<deps, registry, releasePc, stack, order, artifact, plan, attempt>>
  BY DEF Release!Inspect, Release!Replicate, Release!registryVars, Release!sortVars
<1>2. StackInv' /\ OrderInv' /\ RunInv'
  <2>1. StackInv'
    BY <1>1 DEF ReleaseInv, StackInv, LoopOf, InOrder
  <2>2. OrderInv'
    BY <1>1 DEF ReleaseInv, OrderInv, Before, Release!NothingRuns
  <2>3. RunInv'
    BY <1>1 DEF ReleaseInv, RunInv, InOrder, Release!DoneIsThisBuild
  <2>4. QED BY <2>1, <2>2, <2>3
<1>3. \A p \in Packages : seen'[p] \in {None, registry[p]}
  BY DEF ReleaseInv, RegistryInv, ReleaseTypes, Release!TypeOK, Release!Inspect, Release!Replicate,
         Release!registryVars
<1>4. RegistryInv'
  BY <1>1, <1>3 DEF ReleaseInv, RegistryInv, Release!DependenciesFirst, Release!OnlyGoodTarballs
<1>5. seen' \in [Packages -> Release!Tarballs \cup {None}]
  BY DEF ReleaseInv, ReleaseTypes, Release!TypeOK, Release!Inspect, Release!Replicate,
         Release!registryVars
<1>6. ReleaseTypes'
  BY <1>1, <1>5 DEF ReleaseInv, ReleaseTypes, Release!TypeOK
<1>7. Release!PublishedIsTrue'
  <2>1. CASE \E p \in Packages : Release!Replicate(p)
    BY <1>1, <2>1 DEF ReleaseInv, Release!PublishedIsTrue, Release!Replicate
  <2>2. CASE Release!Inspect
    <3> DEFINE shown == {p \in Packages : seen[p] # None}
    <3>1. SUFFICES ASSUME report'.state = "published" PROVE \A p \in Packages : registry[p] # None
      BY <1>1 DEF Release!PublishedIsTrue
    <3>2. Cardinality(shown) = Cardinality(Packages)
      <4>1. Release!Cardinality(shown) = Release!Cardinality(Packages)
        BY <2>2, <3>1 DEF Release!Inspect, Release!ResolveState
      <4>2. QED BY <4>1, SameSets
    <3>3. IsFiniteSet(Packages) /\ shown \subseteq Packages
      BY SameSets DEF Release!ReleaseAssumption
    <3>4. shown = Packages
      <4> HIDE DEF shown
      <4>1. QED BY <3>2, <3>3, FS_Subset
    <3>5. QED BY <3>4 DEF ReleaseInv, RegistryInv
  <2>3. QED BY <2>1, <2>2
<1>8. QED BY <1>2, <1>4, <1>6, <1>7 DEF ReleaseInv

LEMMA RunDiesKeeps ==
  ASSUME ReleaseInv, Release!RunDies
  PROVE  ReleaseInv'
BY FailedKeeps DEF ReleaseInv, ReleaseTypes, Release!TypeOK, Release!RunDies, Release!Fail,
   Release!registryVars, Release!sortVars

LEMMA ReleaseStands ==
  ASSUME ReleaseInv, UNCHANGED releaseVars
  PROVE  ReleaseInv'
<1> USE DEF releaseVars
<1>1. ReleaseTypes'
  BY RegistryStands DEF ReleaseInv, ReleaseTypes, Release!TypeOK
<1>2. StackInv'
  BY DEF ReleaseInv, StackInv, LoopOf, InOrder
<1>3. OrderInv'
  BY DEF ReleaseInv, OrderInv, Before, Release!NothingRuns
<1>4. RunInv'
  BY DEF ReleaseInv, RunInv, InOrder, Release!DoneIsThisBuild
<1>5. QED BY <1>1, <1>2, <1>3, <1>4, RegistryStands DEF ReleaseInv

LEMMA ReleaseStepKeeps ==
  ASSUME Release!ReleaseAssumption, ReleaseInv, Release!Next
  PROVE  ReleaseInv'
BY StartRunKeeps, VisitKeeps, LeaveKeeps, SortedKeeps, VerifyKeeps, PlanKeeps, PlannedKeeps, SkipKeeps,
   PublishKeeps, PollKeeps, CompleteKeeps, RunDiesKeeps, ReleaseWorldKeeps
DEF Release!Next, Release!Run, Release!Sort


--------------------------------------------------------------------------
(* Composer: proofs                                                        *)

\* The least of some numbers.
LEMMA LeastOf ==
  ASSUME NEW I \in SUBSET Nat, I # {}
  PROVE  Hub!Min(I) \in I /\ \A y \in I : Hub!Min(I) <= y
<1> DEFINE R == {p \in Nat \X Nat : p[1] < p[2]}
<1>0. IsWellFoundedOn(R, Nat)
  BY NatLessThanWellFounded, Zenon DEF OpToRel
<1>1. PICK x \in I : \A y \in I : ~(<<y, x>> \in R)
  <2> HIDE DEF R
  <2>1. QED BY <1>0, WFMin
<1>2. \A y \in I : x <= y
  <2> SUFFICES ASSUME NEW y \in I PROVE x <= y
    OBVIOUS
  <2>1. x \in Nat /\ y \in Nat /\ ~(<<y, x>> \in R)
    BY <1>1
  <2>2. ~(y < x)
    BY <2>1
  <2>3. QED BY <2>1, <2>2
<1>3. QED BY <1>2 DEF Hub!Min

\* A sequence without its i-th.
LEMMA WithoutOne ==
  ASSUME NEW T, NEW s \in Seq(T), NEW i \in 1..Len(s)
  PROVE  /\ Hub!RemoveAt(s, i) \in Seq(T) /\ Len(Hub!RemoveAt(s, i)) = Len(s) - 1
         /\ \A k \in 1..(Len(s) - 1) : Hub!RemoveAt(s, i)[k] = IF k < i THEN s[k] ELSE s[k + 1]
<1>1. PICK n, a, b : n = Len(s) /\ a = SubSeq(s, 1, i - 1) /\ b = SubSeq(s, i + 1, n)
  OBVIOUS
<1>2. n \in Nat /\ i \in 1..n
  BY <1>1, LenProperties
<1>3. a \in Seq(T) /\ Len(a) = i - 1 /\ \A k \in 1..(i - 1) : a[k] = s[k]
  BY <1>1, <1>2
<1>4. b \in Seq(T) /\ Len(b) = n - i /\ \A k \in 1..(n - i) : b[k] = s[k + i]
  BY <1>1, <1>2
<1>5. /\ a \o b \in Seq(T) /\ Len(a \o b) = n - 1
      /\ \A k \in 1..(n - 1) : (a \o b)[k] = IF k <= i - 1 THEN a[k] ELSE b[k - (i - 1)]
  <2>1. /\ a \o b \in Seq(T) /\ Len(a \o b) = Len(a) + Len(b)
        /\ \A k \in 1..(Len(a) + Len(b)) : (a \o b)[k] = IF k <= Len(a) THEN a[k] ELSE b[k - Len(a)]
    BY <1>3, <1>4, ConcatProperties
  <2>2. Len(a) + Len(b) = n - 1
    BY <1>2, <1>3, <1>4
  <2>3. QED BY <1>3, <2>1, <2>2
<1>6. \A k \in 1..(n - 1) : (a \o b)[k] = IF k < i THEN s[k] ELSE s[k + 1]
  <2> TAKE k \in 1..(n - 1)
  <2>1. CASE k < i
    <3>1. k \in 1..(i - 1) /\ k <= i - 1
      BY <1>2, <2>1
    <3>2. QED BY <1>3, <1>5, <2>1, <3>1
  <2>2. CASE ~(k < i)
    <3>1. k - (i - 1) \in 1..(n - i) /\ ~(k <= i - 1) /\ (k - (i - 1)) + i = k + 1
      BY <1>2, <2>2
    <3>2. QED BY <1>4, <1>5, <2>2, <3>1
  <2>3. QED BY <2>1, <2>2
<1>7. Hub!RemoveAt(s, i) = a \o b
  BY <1>1 DEF Hub!RemoveAt
<1>8. QED BY <1>1, <1>5, <1>6, <1>7

\* The place of the entry of a name.
Index(map, name) == Hub!SelectInSeq(map, LAMBDA e : e.name = name)

LEMMA EntryFound ==
  ASSUME NEW map \in Seq(Entry), NEW name, NEW k, k = Index(map, name)
  PROVE  \/ k = 0 /\ ~Maps(map, name)
         \/ k \in 1..Len(map) /\ k \in DOMAIN map /\ k # 0 /\ map[k].name = name
<1> DEFINE I == {i \in 1..Len(map) : map[i].name = name}
<1>1. k = IF I # {} THEN Hub!Min(I) ELSE 0
  BY DEF Index, Hub!SelectInSeq
<1>2. DOMAIN map = 1..Len(map) /\ Len(map) \in Nat
  BY LenProperties
<1>3. CASE I = {}
  BY <1>1, <1>2, <1>3 DEF Maps
<1>4. CASE I # {}
  <2>1. I \in SUBSET Nat
    BY <1>2
  <2>2. Hub!Min(I) \in I
    <3> HIDE DEF I
    <3>1. QED BY <1>4, <2>1, LeastOf
  <2>3. QED BY <1>1, <1>2, <1>4, <2>2
<1>5. QED BY <1>3, <1>4

\* getClient(): nothing, or the connection of the one entry of that name.
LEMMA ClientFound ==
  ASSUME HubTypes, MapInv, NEW name, NEW c, c = Hub!GetClient(name), NEW k, k = Index(clients, name)
  PROVE  \/ c = 0 /\ ~Maps(clients, name)
         \/ /\ k \in 1..Len(clients) /\ k \in DOMAIN clients /\ clients[k].name = name /\ c = clients[k].conn
            /\ c # 0 /\ c \in DOMAIN conns /\ conns[c].backend = name
            /\ conns[c].process # "killed" /\ conns[c].client # "opening"
            /\ \A j \in DOMAIN clients : clients[j].name = name => j = k
            /\ \A j \in DOMAIN clients : clients[j].conn = c => j = k
<1>1. c = IF k = 0 THEN 0 ELSE clients[k].conn
  BY DEF Hub!GetClient, Index, Hub!SelectInSeq
<1>2. clients \in Seq(Entry) /\ conns \in Seq(Connection)
  BY DEF HubTypes
<1>3. \/ k = 0 /\ ~Maps(clients, name)
      \/ k \in 1..Len(clients) /\ k \in DOMAIN clients /\ k # 0 /\ clients[k].name = name
  BY <1>2, EntryFound
<1>4. 0 \notin DOMAIN conns
  BY <1>2, LenProperties
<1>5. QED BY <1>1, <1>3, <1>4 DEF MapInv, IsMap, EntryOK

\* Nothing happens to a request, or it fails.
OrError(q) ==
  /\ q \in [Requests -> RequestState]
  /\ \A r \in Requests :
       \/ q[r] = req[r]
       \/ /\ q[r].state = "error" /\ q[r].name = req[r].name /\ q[r].on = req[r].on
          /\ q[r].tool = req[r].tool /\ q[r].left = req[r].left /\ q[r].shown = req[r].shown

LEMMA RejectedFail ==
  ASSUME HubTypes, NEW c
  PROVE  OrError(Hub!Rejected(c)) /\ OrError(req)
<1>1. \A r \in Requests : req[r] \in RequestState
  BY DEF HubTypes
<1>2. \A r \in Requests :
        /\ [req[r] EXCEPT !.state = "error"] \in RequestState
        /\ [req[r] EXCEPT !.state = "error"].state = "error"
        /\ [req[r] EXCEPT !.state = "error"].name = req[r].name
        /\ [req[r] EXCEPT !.state = "error"].on = req[r].on
        /\ [req[r] EXCEPT !.state = "error"].tool = req[r].tool
        /\ [req[r] EXCEPT !.state = "error"].left = req[r].left
        /\ [req[r] EXCEPT !.state = "error"].shown = req[r].shown
  BY <1>1 DEF RequestState
<1>3. OrError(Hub!Rejected(c))
  BY <1>1, <1>2 DEF OrError, Hub!Rejected
<1>4. QED BY <1>3 DEF HubTypes, OrError

\* Requests keep what they show and where they went while connections come
\* and end.
LEMMA RequestsKeep ==
  ASSUME HubInv, OrError(req'),
         \A c \in DOMAIN conns : c \in DOMAIN conns' /\ conns'[c].backend = conns[c].backend,
         phase' = phase \/ (phase = "connecting" /\ phase' \in {"serving", "failed"})
                        \/ (phase = "serving" /\ phase' = "stopped"),
         changes' = 0 => changes = 0
  PROVE  RequestInv'
<1> SUFFICES ASSUME NEW r \in Requests
             PROVE  NameOK(req[r])' /\ ListOK(req[r])'
  BY DEF RequestInv
<1>1. NameOK(req[r]) /\ ListOK(req[r])
  BY DEF HubInv, RequestInv
<1>2. /\ req'[r].on = req[r].on /\ req'[r].name = req[r].name /\ req'[r].tool = req[r].tool
      /\ req'[r].shown = req[r].shown /\ req'[r].left = req[r].left
      /\ (req'[r].state = req[r].state \/ req'[r].state = "error")
  BY DEF OrError
<1>3. NameOK(req[r])'
  BY <1>1, <1>2 DEF NameOK
<1>4. ListOK(req[r])'
  <2>1. CASE req'[r].state = "error"
    BY <2>1 DEF ListOK, IsListing
  <2>2. CASE req'[r].state = req[r].state
    BY <1>1, <1>2, <2>2 DEF ListOK, NameOK, IsListing, HasShown
  <2>3. QED BY <1>2, <2>1, <2>2
<1>5. QED BY <1>3, <1>4


\* Map.delete(): the others stay.
Deleted(m, name) ==
  /\ m \in Seq(Entry)
  /\ \A j \in DOMAIN m : \E i \in DOMAIN clients : m[j] = clients[i] /\ clients[i].name # name
  /\ \A i, j \in DOMAIN m : m[i].name = m[j].name => i = j
  /\ \A b : b # name /\ Maps(clients, b) => Maps(m, b)

LEMMA DeletedKeeps ==
  ASSUME HubTypes, MapInv, NEW name, NEW k, k = Index(clients, name),
         NEW m, m = IF k = 0 THEN clients ELSE Hub!RemoveAt(clients, k)
  PROVE  Deleted(m, name)
<1>1. clients \in Seq(Entry) /\ \A i, j \in DOMAIN clients : clients[i].name = clients[j].name => i = j
  BY DEF HubTypes, MapInv, IsMap
<1>2. \/ k = 0 /\ ~Maps(clients, name)
      \/ k \in 1..Len(clients) /\ k \in DOMAIN clients /\ k # 0 /\ clients[k].name = name
  BY <1>1, EntryFound
<1>3. CASE k = 0
  <2>1. m = clients /\ ~Maps(clients, name)
    BY <1>2, <1>3, LenProperties
  <2>2. QED BY <1>1, <2>1 DEF Deleted, Maps
<1>4. CASE k # 0
  <2>1. PICK n : n = Len(clients)
    OBVIOUS
  <2>2. n \in Nat /\ DOMAIN clients = 1..n /\ k \in 1..n /\ clients[k].name = name
    BY <1>1, <1>2, <1>4, <2>1, LenProperties
  <2>3. m = Hub!RemoveAt(clients, k)
    BY <1>4
  <2>4. /\ m \in Seq(Entry) /\ Len(m) = n - 1
        /\ \A j \in 1..(n - 1) : m[j] = IF j < k THEN clients[j] ELSE clients[j + 1]
    BY <1>1, <2>1, <2>2, <2>3, WithoutOne
  <2>5. DOMAIN m = 1..(n - 1)
    BY <2>4, LenProperties
  <2> DEFINE At(j) == IF j < k THEN j ELSE j + 1
  <2>6. /\ \A j \in DOMAIN m : At(j) \in DOMAIN clients /\ At(j) # k /\ m[j] = clients[At(j)]
        /\ \A i, j \in DOMAIN m : At(i) = At(j) => i = j
        /\ \A i \in DOMAIN clients : i # k => \E j \in DOMAIN m : At(j) = i
    <3>1. \A j \in 1..(n - 1) : At(j) \in 1..n /\ At(j) # k
      BY <2>2
    <3>2. \A j \in 1..(n - 1) : m[j] = clients[At(j)]
      BY <2>4
    <3>3. \A i, j \in 1..(n - 1) : At(i) = At(j) => i = j
      BY <2>2
    <3>4. \A i \in 1..n : i # k => \E j \in 1..(n - 1) : At(j) = i
      <4> SUFFICES ASSUME NEW i \in 1..n, i # k PROVE \E j \in 1..(n - 1) : At(j) = i
        OBVIOUS
      <4>1. CASE i < k
        <5>1. i \in 1..(n - 1) /\ At(i) = i
          BY <2>2, <4>1
        <5>2. QED BY <5>1
      <4>2. CASE i > k
        <5>1. i - 1 \in 1..(n - 1) /\ At(i - 1) = i
          BY <2>2, <4>2
        <5>2. QED BY <5>1
      <4>3. QED BY <2>2, <4>1, <4>2
    <3> HIDE DEF At
    <3>5. QED BY <2>2, <2>5, <3>1, <3>2, <3>3, <3>4
  <2> HIDE DEF At
  <2>7. \A j \in DOMAIN m : m[j].name # name
    BY <1>1, <2>2, <2>6
  <2>8. \A j \in DOMAIN m : \E i \in DOMAIN clients : m[j] = clients[i] /\ clients[i].name # name
    BY <2>6, <2>7
  <2>9. \A i, j \in DOMAIN m : m[i].name = m[j].name => i = j
    BY <1>1, <2>6
  <2>10. \A b : b # name /\ Maps(clients, b) => Maps(m, b)
    BY <2>2, <2>6 DEF Maps
  <2>11. QED BY <2>4, <2>8, <2>9, <2>10 DEF Deleted
<1>5. QED BY <1>3, <1>4

\* One connection changes and is still for its backend.
ConnectionIs(made, c, e) ==
  /\ made \in Seq(Connection) /\ Len(made) = Len(conns) /\ DOMAIN made = DOMAIN conns
  /\ \A i \in DOMAIN conns : i # c => made[i] = conns[i]
  /\ \A i \in DOMAIN conns : made[i].backend = conns[i].backend
  /\ made[c] = e

LEMMA ConnectionSet ==
  ASSUME HubTypes, NEW c \in DOMAIN conns, NEW e \in Connection, e.backend = conns[c].backend,
         NEW made, made = [conns EXCEPT ![c] = e]
  PROVE  ConnectionIs(made, c, e)
<1>1. PICK n : n = Len(conns)
  OBVIOUS
<1>2. n \in Nat /\ conns \in [1..n -> Connection] /\ DOMAIN conns = 1..n
  BY <1>1, LenProperties DEF HubTypes
<1>3. made \in [1..n -> Connection] /\ made[c] = e /\ \A i \in 1..n : i # c => made[i] = conns[i]
  BY <1>2
<1>4. made \in Seq(Connection) /\ Len(made) = n /\ DOMAIN made = 1..n
  BY <1>2, <1>3
<1>5. QED BY <1>1, <1>2, <1>3, <1>4 DEF ConnectionIs

\* Of its client.
ClientIs(made, c, x) ==
  /\ made \in Seq(Connection) /\ Len(made) = Len(conns) /\ DOMAIN made = DOMAIN conns
  /\ \A i \in DOMAIN conns : i # c => made[i] = conns[i]
  /\ \A i \in DOMAIN conns : made[i].backend = conns[i].backend /\ made[i].process = conns[i].process
  /\ made[c].client = x

LEMMA ClientSet ==
  ASSUME HubTypes, NEW c \in DOMAIN conns, NEW x \in {"open", "closing", "closed"},
         NEW made, made = [conns EXCEPT ![c].client = x]
  PROVE  ClientIs(made, c, x)
<1>1. conns[c] \in Connection
  <2>1. \A i \in 1..Len(conns) : conns[i] \in Connection
    BY ElementOfSeq DEF HubTypes
  <2>2. QED BY <2>1, LenProperties DEF HubTypes
<1>2. PICK e : e = [conns[c] EXCEPT !.client = x]
  OBVIOUS
<1>3. /\ e \in Connection /\ e.client = x
      /\ e.backend = conns[c].backend /\ e.process = conns[c].process
  BY <1>1, <1>2 DEF Connection
<1>4. made = [conns EXCEPT ![c] = e]
  BY <1>2
<1>5. ConnectionIs(made, c, e)
  BY <1>3, <1>4, ConnectionSet
<1>6. \A i \in DOMAIN conns : made[i].process = conns[i].process
  <2> TAKE i \in DOMAIN conns
  <2>1. CASE i = c
    BY <1>3, <1>5, <2>1 DEF ConnectionIs
  <2>2. CASE i # c
    BY <1>5, <2>2 DEF ConnectionIs
  <2>3. QED BY <2>1, <2>2
<1>7. QED BY <1>3, <1>5, <1>6 DEF ClientIs, ConnectionIs

\* Caller k makes a step, the others stand.
CallerMoves(k) ==
  /\ conns' \in Seq(Connection) /\ clients' \in Seq(Entry) /\ add' \in [Callers -> Call]
  /\ \A c \in DOMAIN conns : c \in DOMAIN conns' /\ conns'[c].backend = conns[c].backend
  /\ \A j \in Callers : j # k => add'[j] = add[j]
  /\ phase' = phase \/ (phase = "connecting" /\ phase' = "failed")
  /\ MapInv'

\* It goes on with a backend, or fails.
TakesUp(k, config, rest) ==
  add'[k].pc # "failed" => Awaiting(add'[k]) /\ add'[k].config = config /\ add'[k].todo = rest

LEMMA CallSet ==
  ASSUME HubTypes, NEW k \in Callers, NEW call \in Call, add' = [add EXCEPT ![k] = call]
  PROVE  /\ add' \in [Callers -> Call] /\ add'[k] = call
         /\ \A j \in Callers : j # k => add'[j] = add[j]
BY DEF HubTypes

LEMMA FailedCall ==
  ASSUME HubTypes, NEW k \in Callers, Hub!Fails(k)
  PROVE  /\ add' \in [Callers -> Call] /\ add'[k].pc = "failed"
         /\ \A j \in Callers : j # k => add'[j] = add[j]
         /\ phase' = phase \/ (phase = "connecting" /\ phase' = "failed")
<1>1. PICK call : call = [Hub!Idle EXCEPT !.pc = "failed"]
  OBVIOUS
<1>2. call \in Call /\ call.pc = "failed"
  <2>1. <<>> \in Seq(Hub!Configs)
    OBVIOUS
  <2>2. QED BY <1>1, <2>1 DEF Hub!Idle, Call
<1>3. add' = [add EXCEPT ![k] = call]
  BY <1>1 DEF Hub!Fails
<1>4. phase' = phase \/ (phase = "connecting" /\ phase' = "failed")
  BY DEF Hub!Fails
<1>5. QED BY <1>2, <1>3, <1>4, CallSet

\* addBackend() from the removal on, which left `made' and no need of k.
LEMMA StartKeeps ==
  ASSUME HubTypes, NEW k \in Callers, NEW config \in Hub!Configs, NEW rest \in Seq(Hub!Configs),
         NEW made \in Seq(Connection), Len(made) = Len(conns), DOMAIN made = DOMAIN conns,
         \A c \in DOMAIN conns : made[c].backend = conns[c].backend,
         clients' \in Seq(Entry), IsMap(clients', made), ConnsOK(made),
         \A j \in Callers \ {k} : CallOK(add[j], made),
         Stand(clients', made, add, Callers \ {k}),
         Hub!Start(k, config, rest, made)
  PROVE  CallerMoves(k) /\ TakesUp(k, config, rest)
<1>1. CASE config.transport = "incomplete" /\ conns' = made /\ Hub!Fails(k)
  <2>1. /\ add' \in [Callers -> Call] /\ add'[k].pc = "failed"
        /\ \A j \in Callers : j # k => add'[j] = add[j]
        /\ phase' = phase \/ (phase = "connecting" /\ phase' = "failed")
    BY <1>1, FailedCall
  <2>2. \A j \in Callers : CallOK(add'[j], conns')
    BY <1>1, <2>1 DEF CallOK, Awaiting
  <2>3. Stand(clients', conns', add', Callers)
    BY <1>1, <2>1 DEF Stand, EntryStands
  <2>4. MapInv'
    BY <1>1, <2>2, <2>3 DEF MapInv
  <2>5. QED BY <1>1, <2>1, <2>4 DEF CallerMoves, TakesUp
<1>2. CASE ~(config.transport = "incomplete" /\ conns' = made /\ Hub!Fails(k))
  <2>1. PICK n, proc : n = Len(conns) /\ proc = IF config.transport = "http" THEN "none" ELSE "running"
    OBVIOUS
  <2>2. PICK new, call : /\ new = [backend |-> config.name, client |-> "opening", process |-> proc]
                         /\ call = [pc |-> "connecting", config |-> config, conn |-> n + 1, todo |-> rest]
    OBVIOUS
  <2>3. conns' = Append(made, new) /\ add' = [add EXCEPT ![k] = call] /\ phase' = phase
    BY <1>2, <2>1, <2>2 DEF Hub!Start
  <2>4. new \in Connection /\ new.backend = config.name /\ new.client = "opening" /\ new.process \in {"none", "running"}
    BY <2>1, <2>2 DEF Connection, Hub!Configs
  <2>5. /\ conns' \in Seq(Connection) /\ Len(conns') = n + 1 /\ n \in Nat /\ conns'[n + 1] = new
        /\ \A i \in 1..n : conns'[i] = made[i]
    BY <2>1, <2>3, <2>4, Appended
  <2>6. DOMAIN conns = 1..n /\ DOMAIN made = 1..n /\ DOMAIN conns' = 1..(n + 1)
    BY <2>1, <2>5, LenProperties
  <2>7. (\A i \in 1..(n + 1) : i \in 1..n \/ i = n + 1) /\ (\A i \in 1..n : i \in 1..(n + 1)) /\ n + 1 \in 1..(n + 1)
    BY <2>5
  <2>8. call \in Call /\ call.pc = "connecting" /\ call.config = config /\ call.conn = n + 1 /\ call.todo = rest
    BY <2>2, <2>5 DEF Call
  <2>9. /\ add' \in [Callers -> Call] /\ add'[k] = call
        /\ \A j \in Callers : j # k => add'[j] = add[j]
    BY <2>3, <2>8, CallSet
  <2>10. \A c \in DOMAIN made : c \in DOMAIN conns' /\ conns'[c] = made[c]
    BY <2>5, <2>6, <2>7
  <2>11. IsMap(clients', conns')
    BY <2>10 DEF IsMap, EntryOK
  <2>12. ConnsOK(conns')
    BY <2>4, <2>5, <2>6, <2>7 DEF ConnsOK
  <2>13. \A j \in Callers : CallOK(add'[j], conns')
    <3> SUFFICES ASSUME NEW j \in Callers PROVE CallOK(add'[j], conns')
      OBVIOUS
    <3>1. CASE j = k
      <4>1. add'[j] = call
        BY <2>9, <3>1
      <4>2. conns'[n + 1].backend = config.name /\ n + 1 \in DOMAIN conns'
        BY <2>4, <2>5, <2>6, <2>7
      <4>3. QED BY <2>8, <4>1, <4>2 DEF CallOK
    <3>2. CASE j # k
      BY <2>9, <2>10, <3>2 DEF CallOK
    <3>3. QED BY <3>1, <3>2
  <2>14. Stand(clients', conns', add', Callers)
    <3> SUFFICES ASSUME NEW i \in DOMAIN clients' PROVE EntryStands(clients'[i], conns', add', Callers)
      BY DEF Stand
    <3>1. EntryStands(clients'[i], made, add, Callers \ {k}) /\ clients'[i].conn \in DOMAIN made
      BY DEF Stand, IsMap, EntryOK
    <3>2. conns'[clients'[i].conn] = made[clients'[i].conn]
      BY <2>10, <3>1
    <3>3. QED BY <2>9, <3>1, <3>2 DEF EntryStands
  <2>15. MapInv'
    BY <2>11, <2>12, <2>13, <2>14 DEF MapInv
  <2>16. \A c \in DOMAIN conns : c \in DOMAIN conns' /\ conns'[c].backend = conns[c].backend
    BY <2>6, <2>10
  <2>17. QED BY <2>3, <2>5, <2>8, <2>9, <2>15, <2>16 DEF CallerMoves, TakesUp, Awaiting
<1>3. QED BY <1>1, <1>2

\* addBackend() up to its first await.
LEMMA BeginKeeps ==
  ASSUME HubTypes, MapInv, NEW k \in Callers, NEW config \in Hub!Configs, NEW rest \in Seq(Hub!Configs),
         add[k].pc = "idle", Hub!Begin(k, config, rest)
  PROVE  CallerMoves(k) /\ TakesUp(k, config, rest) /\ OrError(req') /\ clients' = clients
<1>1. PICK name, old, j : name = config.name /\ old = Hub!GetClient(name) /\ j = Index(clients, name)
  OBVIOUS
<1>2. Stand(clients, conns, add, Callers \ {k})
  BY DEF MapInv, Stand, EntryStands, Holds
<1>3. CASE old = 0
  <2>1. Hub!Start(k, config, rest, conns) /\ clients' = clients /\ req' = req
    BY <1>1, <1>3 DEF Hub!Begin
  <2>2. IsMap(clients', conns) /\ clients' \in Seq(Entry) /\ Stand(clients', conns, add, Callers \ {k})
    BY <1>2, <2>1 DEF MapInv, HubTypes
  <2>3. conns \in Seq(Connection) /\ ConnsOK(conns) /\ \A i \in Callers \ {k} : CallOK(add[i], conns)
    BY DEF HubTypes, MapInv
  <2>4. CallerMoves(k) /\ TakesUp(k, config, rest)
    BY <2>1, <2>2, <2>3, StartKeeps
  <2>5. QED BY <2>1, <2>4, RejectedFail
<1>4. CASE old # 0
  <2>1. /\ old \in DOMAIN conns /\ conns[old].backend = name /\ conns[old].client # "opening"
    BY <1>1, <1>4, ClientFound
  <2>2. PICK pc \in {"removing", "closing"} :
          /\ add' = [add EXCEPT ![k] = [pc |-> pc, config |-> config, conn |-> old, todo |-> rest]]
          /\ phase' = phase /\ clients' = clients
          /\ \/ conns' = conns /\ req' = req
             \/ conns' = Hub!Closed(old) /\ req' = Hub!Rejected(old)
             \/ conns' = [conns EXCEPT ![old].client = "closing"] /\ req' = req
    BY <1>1, <1>4 DEF Hub!Begin
  <2>3. OrError(req')
    BY <2>2, RejectedFail
  <2>4. /\ conns' \in Seq(Connection) /\ DOMAIN conns' = DOMAIN conns
        /\ \A i \in DOMAIN conns : i # old => conns'[i] = conns[i]
        /\ conns'[old].backend = conns[old].backend /\ conns'[old].process = conns[old].process
        /\ conns'[old].client # "opening"
    <3>1. CASE conns' = conns
      BY <2>1, <3>1 DEF HubTypes
    <3>2. CASE conns' # conns
      <4>0. PICK x \in {"open", "closing", "closed"} :
              x # "open" /\ conns' = [conns EXCEPT ![old].client = x]
        BY <2>2, <3>2 DEF Hub!Closed
      <4>1. PICK made : made = [conns EXCEPT ![old].client = x]
        OBVIOUS
      <4>2. ClientIs(made, old, x)
        BY <2>1, <4>1, ClientSet
      <4>3. QED BY <2>1, <4>0, <4>1, <4>2 DEF ClientIs
    <3>3. QED BY <3>1, <3>2
  <2>5. PICK call : call = [pc |-> pc, config |-> config, conn |-> old, todo |-> rest]
    OBVIOUS
  <2>6. /\ call \in Call /\ call.pc \in {"removing", "closing"} /\ call.config = config
        /\ call.conn = old /\ call.todo = rest
    <3>1. old \in Nat
      BY <2>1, LenProperties DEF HubTypes
    <3>2. QED BY <2>5, <3>1 DEF Call
  <2>7. /\ add' \in [Callers -> Call] /\ add'[k] = call
        /\ \A i \in Callers : i # k => add'[i] = add[i]
    BY <2>2, <2>5, <2>6, CallSet
  <2>8. IsMap(clients', conns')
    BY <2>1, <2>2, <2>4 DEF MapInv, IsMap, EntryOK
  <2>9. ConnsOK(conns')
    BY <2>4 DEF MapInv, ConnsOK
  <2>10. \A i \in Callers : CallOK(add'[i], conns')
    <3> SUFFICES ASSUME NEW i \in Callers PROVE CallOK(add'[i], conns')
      OBVIOUS
    <3>1. CASE i = k
      BY <1>1, <2>1, <2>4, <2>6, <2>7, <3>1 DEF CallOK
    <3>2. CASE i # k
      BY <2>1, <2>4, <2>7, <3>2 DEF MapInv, CallOK
    <3>3. QED BY <3>1, <3>2
  <2>11. Stand(clients', conns', add', Callers)
    <3> SUFFICES ASSUME NEW i \in DOMAIN clients PROVE EntryStands(clients[i], conns', add', Callers)
      BY <2>2 DEF Stand
    <3>1. clients[i].conn \in DOMAIN conns /\ conns[clients[i].conn].backend = clients[i].name
      BY DEF MapInv, IsMap, EntryOK
    <3>2. CASE clients[i].conn = old
      <4>1. Holds(add'[k], clients[i])
        BY <1>1, <2>1, <2>6, <2>7, <3>1, <3>2 DEF Holds
      <4>2. QED BY <4>1 DEF EntryStands
    <3>3. CASE clients[i].conn # old
      <4>1. EntryStands(clients[i], conns, add, Callers \ {k})
        BY <1>2 DEF Stand
      <4>2. QED BY <2>4, <2>7, <3>1, <3>3, <4>1 DEF EntryStands
    <3>4. QED BY <3>2, <3>3
  <2>12. MapInv'
    BY <2>8, <2>9, <2>10, <2>11 DEF MapInv
  <2>13. clients' \in Seq(Entry) /\ \A c \in DOMAIN conns : c \in DOMAIN conns' /\ conns'[c].backend = conns[c].backend
    BY <2>2, <2>4 DEF HubTypes
  <2>14. QED BY <2>2, <2>3, <2>4, <2>6, <2>7, <2>12, <2>13 DEF CallerMoves, TakesUp, Awaiting
<1>5. QED BY <1>3, <1>4

\* Map.set() of a connection that has been made.
LEMMA StoredKeeps ==
  ASSUME HubTypes, MapInv, NEW c \in DOMAIN conns, conns[c].client = "opening",
         NEW made, made = [conns EXCEPT ![c].client = "open"], NEW m, m = Hub!Stored(c)
  PROVE  /\ ClientIs(made, c, "open")
         /\ m \in Seq(Entry) /\ IsMap(m, made) /\ ConnsOK(made)
         /\ \A k \in Callers : CallOK(add[k], made)
         /\ Stand(m, made, add, Callers)
         /\ Maps(m, conns[c].backend) /\ \A b : Maps(clients, b) => Maps(m, b)
<1>1. PICK n, k, name, l : n = Len(conns) /\ name = conns[c].backend /\ k = Index(clients, name) /\ l = Len(clients)
  OBVIOUS
<1>2. /\ n \in Nat /\ conns \in [1..n -> Connection] /\ DOMAIN conns = 1..n
      /\ clients \in Seq(Entry) /\ l \in Nat /\ DOMAIN clients = 1..l /\ clients \in [1..l -> Entry]
  BY <1>1, LenProperties DEF HubTypes
<1>3. name \in Hub!Backends /\ c \in Nat
  BY <1>1, <1>2 DEF Connection
<1>4. IsMap(clients, conns) /\ ConnsOK(conns)
  BY DEF MapInv
<1>5. ClientIs(made, c, "open")
  BY ClientSet
<1>6. conns[c].process # "killed" /\ \A i \in DOMAIN clients : clients[i].conn # c
  BY <1>4 DEF IsMap, ConnsOK, EntryOK
<1>7. PICK e : e = [name |-> name, conn |-> c]
  OBVIOUS
<1>8. e \in Entry /\ e.name = name /\ e.conn = c
  BY <1>3, <1>7 DEF Entry
<1>9. EntryOK(e, made) /\ EntryStands(e, made, add, Callers)
  BY <1>1, <1>5, <1>6, <1>8 DEF EntryOK, EntryStands, ClientIs
<1>10. \A i \in DOMAIN clients : EntryOK(clients[i], made) /\ EntryStands(clients[i], made, add, Callers)
  <2> TAKE i \in DOMAIN clients
  <2>1. EntryOK(clients[i], conns) /\ EntryStands(clients[i], conns, add, Callers)
    BY DEF MapInv, IsMap, Stand
  <2>2. made[clients[i].conn] = conns[clients[i].conn]
    BY <1>5, <1>6, <2>1 DEF EntryOK, ClientIs
  <2>3. DOMAIN made = DOMAIN conns
    BY <1>5 DEF ClientIs
  <2>4. QED BY <2>1, <2>2, <2>3 DEF EntryOK, EntryStands
<1>11. /\ m \in Seq(Entry) /\ Maps(m, name) /\ \A b : Maps(clients, b) => Maps(m, b)
       /\ \A i, j \in DOMAIN m : m[i].name = m[j].name => i = j
       /\ \A j \in DOMAIN m : m[j] = e \/ \E i \in DOMAIN clients : m[j] = clients[i]
  <2>1. CASE Hub!GetClient(name) = 0
    <3>1. ~Maps(clients, name)
      BY <1>1, <2>1, ClientFound
    <3>2. m = Append(clients, e)
      BY <1>1, <1>7, <2>1 DEF Hub!Stored
    <3>3. m \in Seq(Entry) /\ Len(m) = l + 1 /\ m[l + 1] = e /\ \A i \in 1..l : m[i] = clients[i]
      BY <1>1, <1>2, <1>8, <3>2, Appended
    <3>4. DOMAIN m = 1..(l + 1)
      BY <3>3, LenProperties
    <3>5. (\A i \in 1..(l + 1) : i \in 1..l \/ i = l + 1) /\ (\A i \in 1..l : i \in 1..(l + 1)) /\ l + 1 \in 1..(l + 1)
      BY <1>2
    <3>6. \A i, j \in DOMAIN m : m[i].name = m[j].name => i = j
      BY <1>2, <1>4, <1>8, <3>1, <3>3, <3>4, <3>5 DEF IsMap, Maps
    <3>7. \A j \in DOMAIN m : m[j] = e \/ \E i \in DOMAIN clients : m[j] = clients[i]
      BY <1>2, <3>3, <3>4, <3>5
    <3>8. Maps(m, name) /\ \A b : Maps(clients, b) => Maps(m, b)
      BY <1>2, <1>8, <3>3, <3>4, <3>5 DEF Maps
    <3>9. QED BY <3>3, <3>6, <3>7, <3>8
  <2>2. CASE Hub!GetClient(name) # 0
    <3>1. m = [i \in 1..l |-> IF clients[i].name = name THEN e ELSE clients[i]]
      BY <1>1, <1>7, <2>2 DEF Hub!Stored
    <3>2. m \in [1..l -> Entry] /\ \A i \in 1..l : m[i] = IF clients[i].name = name THEN e ELSE clients[i]
      BY <1>2, <1>8, <3>1
    <3>3. m \in Seq(Entry) /\ DOMAIN m = 1..l
      BY <1>2, <3>2
    <3>4. \A i \in 1..l : m[i].name = clients[i].name
      BY <1>8, <3>2
    <3>5. \A i, j \in DOMAIN m : m[i].name = m[j].name => i = j
      BY <1>2, <1>4, <3>3, <3>4 DEF IsMap
    <3>6. \A j \in DOMAIN m : m[j] = e \/ \E i \in DOMAIN clients : m[j] = clients[i]
      BY <1>2, <3>2, <3>3
    <3>7. \A b : Maps(clients, b) => Maps(m, b)
      BY <1>2, <3>3, <3>4 DEF Maps
    <3>8. PICK g : g = Hub!GetClient(name)
      OBVIOUS
    <3>9. k \in DOMAIN clients /\ clients[k].name = name
      BY <1>1, <2>2, <3>8, ClientFound
    <3>10. Maps(m, name)
      BY <3>7, <3>9 DEF Maps
    <3>11. QED BY <3>3, <3>5, <3>6, <3>7, <3>10
  <2>3. QED BY <2>1, <2>2
<1>12. IsMap(m, made) /\ Stand(m, made, add, Callers)
  BY <1>9, <1>10, <1>11 DEF IsMap, Stand
<1>13. made[c].client = "open" /\ \A i \in DOMAIN conns : i # c => made[i] = conns[i]
  BY <1>5 DEF ClientIs
<1>14. DOMAIN made = DOMAIN conns /\ \A i \in DOMAIN conns : made[i].backend = conns[i].backend
  BY <1>5 DEF ClientIs
<1>15. ConnsOK(made)
  BY <1>4, <1>13, <1>14 DEF ConnsOK
<1>16. \A j \in Callers : CallOK(add[j], made)
  <2> TAKE j \in Callers
  <2>1. CallOK(add[j], conns)
    BY DEF MapInv
  <2>2. QED BY <1>13, <1>14, <2>1 DEF CallOK
<1>17. QED BY <1>1, <1>5, <1>11, <1>12, <1>15, <1>16

LEMMA ConfigNames ==
  ASSUME Hub!ComposerAssumption
  PROVE  /\ Servers \in Seq(Hub!Configs)
         /\ \A b \in Hub!Backends : b \in Seq(Part) /\ Tools[b] \subseteq Seq(Part)
<1>1. ASSUME NEW s \in Seq(STRING) PROVE s \in Seq(Part)
  <2>1. Len(s) \in Nat /\ s \in [1..Len(s) -> STRING]
    BY LenProperties
  <2>2. s \in [1..Len(s) -> Part]
    BY <2>1 DEF Part
  <2>3. QED BY <2>1, <2>2
<1>2. QED BY <1>1 DEF Hub!ComposerAssumption

LEMMA HubInitial ==
  ASSUME Hub!ComposerAssumption, Hub!Init
  PROVE  HubInv
<1>1. /\ <<>> \in Seq(Connection) /\ <<>> \in Seq(Entry) /\ <<>> \in Seq(Part)
      /\ <<>> \in Seq(Hub!Backends) /\ <<>> \in Seq(Hub!Configs) /\ DOMAIN <<>> = {}
  OBVIOUS
<1>2. Hub!Blank \in RequestState
  BY <1>1 DEF Hub!Blank, RequestState
<1>3. PICK first : first = [Hub!Idle EXCEPT !.todo = Servers]
  OBVIOUS
<1>4. Hub!Idle \in Call /\ first \in Call /\ first.pc = "idle" /\ first.todo = Servers /\ Hub!Idle.pc = "idle"
  BY <1>1, <1>3, ConfigNames DEF Hub!Idle, Call
<1>5. /\ phase = "connecting" /\ conns = <<>> /\ clients = <<>> /\ changes = 0
      /\ req = [r \in Requests |-> Hub!Blank]
      /\ add = [k \in Callers |-> IF k = 0 THEN first ELSE Hub!Idle]
  BY <1>3 DEF Hub!Init, Callers
<1>6. 0 \in Callers /\ \A k \in Callers : k \in Nat
  BY DEF Callers, Hub!ComposerAssumption
<1>7. /\ add \in [Callers -> Call] /\ add[0] = first
      /\ \A k \in Callers : add[k].pc = "idle" /\ (k # 0 => add[k] = Hub!Idle)
  BY <1>4, <1>5, <1>6
<1>8. HubTypes
  BY <1>1, <1>2, <1>5, <1>7 DEF HubTypes
<1>9. MapInv
  <2>1. \A k \in Callers : CallOK(add[k], conns)
    BY <1>7 DEF CallOK, Awaiting
  <2>2. QED BY <1>1, <1>5, <2>1 DEF MapInv, IsMap, ConnsOK, Stand
<1>10. StayInv
  <2>1. \A b \in Hub!Backends : Pends(add[0], b)
    BY <1>4, <1>7 DEF Pends, Hub!Backends
  <2>2. \A k \in Callers : k > changes => k # 0
    BY <1>5
  <2>3. QED BY <1>5, <1>6, <1>7, <2>1, <2>2 DEF StayInv
<1>11. RequestInv
  <2>1. \A r \in Requests : req[r].state = "new" /\ req[r].on = 0 /\ req[r].shown = {}
    BY <1>5 DEF Hub!Blank
  <2>2. QED BY <2>1 DEF RequestInv, NameOK, ListOK, IsListing
<1>12. QED BY <1>8, <1>9, <1>10, <1>11 DEF HubInv

\* What a step of one caller leaves of the whole.
LEMMA CallerKeeps ==
  ASSUME HubInv, NEW k \in Callers, CallerMoves(k), OrError(req'), add[k].pc # "failed",
         \/ changes' = changes /\ (add[k].pc # "idle" \/ add[k].todo # <<>>)
         \/ changes' = changes + 1 /\ k = changes',
         add'[k].pc # "failed" => \A b \in Hub!Backends :
           Maps(clients, b) \/ Pends(add[k], b) => Maps(clients', b) \/ Pends(add'[k], b),
         MaxChanges \in Nat
  PROVE  HubInv'
<1>1. /\ HubTypes /\ StayInv /\ changes \in Nat /\ changes' \in Nat /\ (changes' = 0 => changes = 0)
  BY DEF HubInv, HubTypes
<1>2. /\ \A j \in Callers : j # k => add'[j] = add[j]
      /\ phase' = phase \/ (phase = "connecting" /\ phase' = "failed")
      /\ \A c \in DOMAIN conns : c \in DOMAIN conns' /\ conns'[c].backend = conns[c].backend
  BY DEF CallerMoves
<1>3. HubTypes' /\ MapInv'
  <2>1. conns' \in Seq(Connection) /\ clients' \in Seq(Entry) /\ add' \in [Callers -> Call] /\ MapInv'
    BY DEF CallerMoves
  <2>2. req' \in [Requests -> RequestState]
    BY DEF OrError
  <2>3. phase' \in {"connecting", "serving", "stopped", "failed"}
    BY <1>1, <1>2 DEF HubTypes
  <2>4. QED BY <1>1, <2>1, <2>2, <2>3 DEF HubTypes
<1>4. (k > changes => changes' = changes + 1 /\ k = changes') /\ (k = 0 => phase \notin {"serving", "stopped"})
  <2>1. Hub!Idle.pc = "idle" /\ Hub!Idle.todo = <<>>
    BY DEF Hub!Idle
  <2>2. QED BY <1>1, <2>1 DEF StayInv
<1>5. StayInv'
  <2>1. ASSUME \A j \in Callers : add'[j].pc # "failed", NEW b \in Hub!Backends
        PROVE  Maps(clients', b) \/ \E j \in Callers : Pends(add'[j], b)
    <3>1. \A j \in Callers : add[j].pc # "failed"
      BY <1>2, <2>1
    <3>2. Maps(clients, b) \/ \E j \in Callers : Pends(add[j], b)
      BY <1>1, <3>1 DEF StayInv
    <3>3. CASE \E j \in Callers : j # k /\ Pends(add[j], b)
      BY <1>2, <3>3
    <3>4. CASE ~\E j \in Callers : j # k /\ Pends(add[j], b)
      <4>1. Maps(clients, b) \/ Pends(add[k], b)
        BY <3>2, <3>4
      <4>2. QED BY <2>1, <4>1
    <3>5. QED BY <3>3, <3>4
  <2>2. ASSUME NEW j \in Callers, j > changes'
        PROVE  add'[j] = Hub!Idle
    <3>1. j > changes /\ j # k
      BY <1>1, <1>4, <2>2 DEF Callers
    <3>2. QED BY <1>1, <1>2, <3>1 DEF StayInv
  <2>3. phase' \in {"serving", "stopped"} => add'[0].pc = "idle" /\ add'[0].todo = <<>>
    <3>1. 0 \in Callers
      BY DEF Callers
    <3>2. QED BY <1>1, <1>2, <1>4, <3>1 DEF StayInv
  <2>4. QED BY <2>1, <2>2, <2>3 DEF StayInv, Hub!Backends, Callers
<1>6. RequestInv'
  BY <1>1, <1>2, RequestsKeep
<1>7. QED BY <1>3, <1>5, <1>6 DEF HubInv

LEMMA BeginNextKeeps ==
  ASSUME Hub!ComposerAssumption, HubInv, NEW k \in Callers, Hub!BeginNext(k)
  PROVE  HubInv'
<1>1. PICK config, rest, todo : todo = add[k].todo /\ config = Head(todo) /\ rest = Tail(todo)
  OBVIOUS
<1>2. HubTypes /\ MapInv /\ add[k].pc = "idle" /\ todo # <<>> /\ changes' = changes
  BY <1>1 DEF HubInv, Hub!BeginNext
<1>3. todo \in Seq(Hub!Configs)
  BY <1>1, <1>2 DEF HubTypes, Call
<1>4. /\ config \in Hub!Configs /\ rest \in Seq(Hub!Configs)
      /\ \A x : (\E i \in DOMAIN todo : todo[i] = x) => x = config \/ \E i \in DOMAIN rest : rest[i] = x
  <2>1. config \in Hub!Configs
    BY <1>1, <1>2, <1>3, Rest
  <2>2. /\ Tail(todo) \in Seq(Hub!Configs)
        /\ \A x : (\E i \in DOMAIN todo : todo[i] = x) =>
             x = Head(todo) \/ \E i \in DOMAIN Tail(todo) : Tail(todo)[i] = x
    BY <1>2, <1>3, TailKeeps
  <2>3. QED BY <1>1, <2>1, <2>2
<1>5. Hub!Begin(k, config, rest)
  BY <1>1 DEF Hub!BeginNext
<1>6. CallerMoves(k) /\ TakesUp(k, config, rest) /\ OrError(req') /\ clients' = clients
  BY <1>2, <1>4, <1>5, BeginKeeps
<1>7. ASSUME add'[k].pc # "failed", NEW b \in Hub!Backends, Maps(clients, b) \/ Pends(add[k], b)
      PROVE  Maps(clients', b) \/ Pends(add'[k], b)
  <2>1. CASE Maps(clients, b)
    BY <1>6, <2>1
  <2>2. CASE Pends(add[k], b)
    <3>1. PICK i \in DOMAIN todo : todo[i].name = b
      BY <1>1, <1>2, <2>2 DEF Pends, Awaiting
    <3>2. config.name = b \/ \E j \in DOMAIN rest : rest[j].name = b
      BY <1>4, <3>1
    <3>3. Awaiting(add'[k]) /\ add'[k].config = config /\ add'[k].todo = rest
      BY <1>6, <1>7 DEF TakesUp
    <3>4. QED BY <3>2, <3>3 DEF Pends
  <2>3. QED BY <1>7, <2>1, <2>2
<1>8. add[k].pc # "failed" /\ add[k].todo # <<>> /\ MaxChanges \in Nat
  BY <1>1, <1>2 DEF Hub!ComposerAssumption
<1>9. QED BY <1>2, <1>6, <1>7, <1>8, CallerKeeps

LEMMA SessionEndsKeeps ==
  ASSUME Hub!ComposerAssumption, HubInv, NEW k \in Callers, Hub!SessionEnds(k)
  PROVE  HubInv'
<1>1. PICK c, call : c = add[k].conn /\ call = [add[k] EXCEPT !.pc = "removing"]
  OBVIOUS
<1>2. /\ HubTypes /\ MapInv /\ add[k].pc = "closing" /\ UNCHANGED <<phase, clients, changes>>
      /\ add' = [add EXCEPT ![k] = call] /\ conns' = Hub!Closed(c) /\ req' = Hub!Rejected(c)
  BY <1>1 DEF HubInv, Hub!SessionEnds
<1>3. add[k] \in Call
  BY <1>2 DEF HubTypes
<1>4. /\ call \in Call /\ call.pc = "removing" /\ call.conn = c /\ call.config = add[k].config
      /\ call.todo = add[k].todo
  BY <1>1, <1>3 DEF Call
<1>5. /\ add' \in [Callers -> Call] /\ add'[k] = call
      /\ \A j \in Callers : j # k => add'[j] = add[j]
  BY <1>2, <1>4, CallSet
<1>6. /\ add[k].config \in Hub!Configs /\ c \in DOMAIN conns
      /\ conns[c].backend = add[k].config.name
  BY <1>1, <1>2 DEF MapInv, CallOK, Awaiting
<1>7. PICK made : made = conns'
  OBVIOUS
<1>8. ClientIs(made, c, "closed")
  BY <1>2, <1>6, <1>7, ClientSet DEF Hub!Closed
<1>9. /\ made \in Seq(Connection) /\ DOMAIN made = DOMAIN conns /\ made[c].client = "closed"
      /\ \A i \in DOMAIN conns : i # c => made[i] = conns[i]
      /\ \A i \in DOMAIN conns : made[i].backend = conns[i].backend /\ made[i].process = conns[i].process
  BY <1>8 DEF ClientIs
<1>10. MapInv'
  <2>1. IsMap(clients', conns')
    BY <1>2, <1>7, <1>9 DEF MapInv, IsMap, EntryOK
  <2>2. ConnsOK(conns')
    BY <1>2, <1>7, <1>9 DEF MapInv, ConnsOK
  <2>3. \A j \in Callers : CallOK(add'[j], conns')
    <3> SUFFICES ASSUME NEW j \in Callers PROVE CallOK(add'[j], made)
      BY <1>7
    <3>1. CASE j = k
      BY <1>4, <1>5, <1>6, <1>9, <3>1 DEF CallOK
    <3>2. CASE j # k
      <4>1. CallOK(add[j], conns)
        BY <1>2 DEF MapInv
      <4>2. QED BY <1>5, <1>9, <3>2, <4>1 DEF CallOK
    <3>3. QED BY <3>1, <3>2
  <2>4. Stand(clients', conns', add', Callers)
    <3> SUFFICES ASSUME NEW i \in DOMAIN clients PROVE EntryStands(clients[i], made, add', Callers)
      BY <1>2, <1>7 DEF Stand
    <3>1. /\ clients[i].conn \in DOMAIN conns /\ conns[clients[i].conn].backend = clients[i].name
          /\ EntryStands(clients[i], conns, add, Callers)
      BY <1>2 DEF MapInv, IsMap, EntryOK, Stand
    <3>2. CASE clients[i].conn = c
      <4>1. Holds(add'[k], clients[i])
        BY <1>4, <1>5, <1>6, <3>1, <3>2 DEF Holds
      <4>2. QED BY <4>1 DEF EntryStands
    <3>3. CASE clients[i].conn # c
      <4>1. ~Holds(add[k], clients[i])
        BY <1>1, <3>3 DEF Holds
      <4>2. QED BY <1>5, <1>9, <3>1, <3>3, <4>1 DEF EntryStands
    <3>4. QED BY <3>2, <3>3
  <2>5. QED BY <2>1, <2>2, <2>3, <2>4 DEF MapInv
<1>11. CallerMoves(k)
  <2>1. clients' \in Seq(Entry) /\ conns' \in Seq(Connection)
    BY <1>2, <1>7, <1>9 DEF HubTypes
  <2>2. \A i \in DOMAIN conns : i \in DOMAIN conns' /\ conns'[i].backend = conns[i].backend
    BY <1>7, <1>9
  <2>3. QED BY <1>2, <1>5, <1>10, <2>1, <2>2 DEF CallerMoves
<1>12. OrError(req')
  BY <1>2, RejectedFail
<1>13. \A b \in Hub!Backends : Maps(clients, b) \/ Pends(add[k], b) => Maps(clients', b) \/ Pends(add'[k], b)
  BY <1>2, <1>4, <1>5 DEF Pends, Awaiting
<1>14. QED BY <1>2, <1>11, <1>12, <1>13, CallerKeeps DEF Hub!ComposerAssumption

\* The process is killed, and what is in the map by now deleted.
LEMMA RemovedKeeps ==
  ASSUME Hub!ComposerAssumption, HubInv, NEW k \in Callers, Hub!Removed(k)
  PROVE  HubInv'
<1>1. PICK c, config, rest, made : c = add[k].conn /\ config = add[k].config /\ rest = add[k].todo /\ made = Hub!Killed(c)
  OBVIOUS
<1>2. PICK name, i, m : /\ name = config.name /\ i = Index(clients, name)
                        /\ m = IF i = 0 THEN clients ELSE Hub!RemoveAt(clients, i)
  OBVIOUS
<1>3. /\ HubTypes /\ MapInv /\ add[k].pc = "removing" /\ changes' = changes /\ req' = req /\ clients' = m
      /\ Hub!Start(k, config, rest, made)
  BY <1>1, <1>2 DEF HubInv, Hub!Removed, Index
<1>4. /\ config \in Hub!Configs /\ c \in DOMAIN conns /\ conns[c].backend = name /\ conns[c].client # "opening"
  BY <1>1, <1>2, <1>3 DEF MapInv, CallOK, Awaiting
<1>5. rest \in Seq(Hub!Configs)
  BY <1>1, <1>3 DEF HubTypes, Call
<1>6. Deleted(m, name)
  BY <1>2, <1>3, DeletedKeeps
<1>7. /\ made \in Seq(Connection) /\ Len(made) = Len(conns) /\ DOMAIN made = DOMAIN conns
      /\ \A j \in DOMAIN conns : j # c => made[j] = conns[j]
      /\ \A j \in DOMAIN conns : made[j].backend = conns[j].backend
      /\ made[c].client = conns[c].client
  <2>1. CASE conns[c].process = "running"
    <3>1. PICK e : e = [conns[c] EXCEPT !.process = "killed"]
      OBVIOUS
    <3>2. conns[c] \in Connection
      <4>1. \A j \in 1..Len(conns) : conns[j] \in Connection
        BY <1>3, ElementOfSeq DEF HubTypes
      <4>2. QED BY <1>3, <1>4, <4>1, LenProperties DEF HubTypes
    <3>3. e \in Connection /\ e.backend = conns[c].backend /\ e.client = conns[c].client
      BY <3>1, <3>2 DEF Connection
    <3>4. made = [conns EXCEPT ![c] = e]
      BY <1>1, <2>1, <3>1 DEF Hub!Killed
    <3>5. ConnectionIs(made, c, e)
      BY <1>3, <1>4, <3>3, <3>4, ConnectionSet
    <3>6. QED BY <3>3, <3>5 DEF ConnectionIs
  <2>2. CASE conns[c].process # "running"
    <3>1. made = conns
      BY <1>1, <2>2 DEF Hub!Killed
    <3>2. QED BY <1>3, <3>1 DEF HubTypes
  <2>3. QED BY <2>1, <2>2
<1>8. \A j \in DOMAIN m : EntryOK(m[j], made) /\ EntryStands(m[j], made, add, Callers \ {k})
  <2> SUFFICES ASSUME NEW j \in DOMAIN m PROVE EntryOK(m[j], made) /\ EntryStands(m[j], made, add, Callers \ {k})
    OBVIOUS
  <2>1. PICK h \in DOMAIN clients : m[j] = clients[h] /\ clients[h].name # name
    BY <1>6 DEF Deleted
  <2>2. EntryOK(m[j], conns) /\ EntryStands(m[j], conns, add, Callers) /\ m[j].name # name
    BY <1>3, <2>1 DEF MapInv, IsMap, Stand
  <2>3. m[j].conn \in DOMAIN conns /\ m[j].conn # c
    BY <1>4, <2>2 DEF EntryOK
  <2>4. made[m[j].conn] = conns[m[j].conn] /\ m[j].conn \in DOMAIN made
    BY <1>7, <2>3
  <2>5. ~Holds(add[k], m[j])
    BY <1>1, <1>2, <2>2 DEF Holds
  <2>6. EntryOK(m[j], made)
    BY <2>2, <2>4 DEF EntryOK
  <2>7. EntryStands(m[j], made, add, Callers \ {k})
    BY <2>2, <2>4, <2>5 DEF EntryStands
  <2>8. QED BY <2>6, <2>7
<1>9. IsMap(m, made) /\ Stand(m, made, add, Callers \ {k})
  BY <1>6, <1>8 DEF Deleted, IsMap, Stand
<1>10. ConnsOK(made)
  BY <1>3, <1>4, <1>7 DEF MapInv, ConnsOK
<1>11. \A j \in Callers \ {k} : CallOK(add[j], made)
  <2> TAKE j \in Callers \ {k}
  <2>1. CallOK(add[j], conns)
    BY <1>3 DEF MapInv
  <2>2. QED BY <1>4, <1>7, <2>1 DEF CallOK
<1>12. CallerMoves(k) /\ TakesUp(k, config, rest)
  <2>1. clients' \in Seq(Entry) /\ IsMap(clients', made) /\ Stand(clients', made, add, Callers \ {k})
    BY <1>3, <1>6, <1>9 DEF Deleted
  <2>2. \A j \in DOMAIN conns : made[j].backend = conns[j].backend
    BY <1>7
  <2>3. made \in Seq(Connection) /\ Len(made) = Len(conns) /\ DOMAIN made = DOMAIN conns
    BY <1>7
  <2>4. QED BY <1>3, <1>4, <1>5, <1>10, <1>11, <2>1, <2>2, <2>3, StartKeeps
<1>13. ASSUME add'[k].pc # "failed", NEW b \in Hub!Backends, Maps(clients, b) \/ Pends(add[k], b)
       PROVE  Maps(clients', b) \/ Pends(add'[k], b)
  <2>1. Awaiting(add'[k]) /\ add'[k].config = config /\ add'[k].todo = rest
    BY <1>12, <1>13 DEF TakesUp
  <2>2. CASE b = name
    BY <1>2, <2>1, <2>2 DEF Pends
  <2>3. CASE b # name /\ Maps(clients, b)
    BY <1>3, <1>6, <2>3 DEF Deleted
  <2>4. CASE Pends(add[k], b)
    BY <1>1, <2>1, <2>4 DEF Pends
  <2>5. QED BY <1>13, <2>2, <2>3, <2>4
<1>14. OrError(req')
  BY <1>3, RejectedFail
<1>15. QED BY <1>3, <1>12, <1>13, <1>14, CallerKeeps DEF Hub!ComposerAssumption

LEMMA AddConnectsKeeps ==
  ASSUME Hub!ComposerAssumption, HubInv, NEW k \in Callers, Hub!ConnectEnds(k)
  PROVE  HubInv'
<1>1. PICK c, rest : c = add[k].conn /\ rest = add[k].todo
  OBVIOUS
<1>2. HubTypes /\ MapInv /\ add[k].pc = "connecting" /\ changes' = changes /\ req' = req
  BY DEF HubInv, Hub!ConnectEnds
<1>3. c \in DOMAIN conns /\ conns[c].backend = add[k].config.name
  BY <1>1, <1>2 DEF MapInv, CallOK, Awaiting
<1>4. rest \in Seq(Hub!Configs)
  BY <1>1, <1>2 DEF HubTypes, Call
<1>5. \A e : ~Holds(add[k], e)
  BY <1>2 DEF Holds
<1>6. CASE Hub!Fails(k) /\ UNCHANGED <<conns, clients>>
  <2>1. /\ add' \in [Callers -> Call] /\ add'[k].pc = "failed"
        /\ \A j \in Callers : j # k => add'[j] = add[j]
        /\ phase' = phase \/ (phase = "connecting" /\ phase' = "failed")
    BY <1>2, <1>6, FailedCall
  <2>2. MapInv'
    <3>1. \A j \in Callers : CallOK(add'[j], conns')
      BY <1>2, <1>6, <2>1 DEF MapInv, CallOK, Awaiting
    <3>2. \A i \in DOMAIN clients : EntryStands(clients[i], conns, add, Callers)
      BY <1>2 DEF MapInv, Stand
    <3>3. \A i \in DOMAIN clients : EntryStands(clients[i], conns, add', Callers)
      BY <1>5, <2>1, <3>2 DEF EntryStands
    <3>4. QED BY <1>2, <1>6, <3>1, <3>3 DEF MapInv, Stand
  <2>3. CallerMoves(k)
    BY <1>2, <1>6, <2>1, <2>2 DEF CallerMoves, HubTypes
  <2>4. OrError(req')
    BY <1>2, RejectedFail
  <2>5. QED BY <1>2, <2>1, <2>3, <2>4, CallerKeeps DEF Hub!ComposerAssumption
<1>7. CASE ~(Hub!Fails(k) /\ UNCHANGED <<conns, clients>>)
  <2>1. PICK made, m, call : /\ made = [conns EXCEPT ![c].client = "open"] /\ m = Hub!Stored(c)
                             /\ call = [Hub!Idle EXCEPT !.todo = rest]
    OBVIOUS
  <2>2. /\ conns[c].client = "opening" /\ conns' = made /\ clients' = m
        /\ add' = [add EXCEPT ![k] = call] /\ phase' = phase
    BY <1>1, <1>7, <2>1 DEF Hub!ConnectEnds
  <2>3. /\ ClientIs(made, c, "open")
        /\ m \in Seq(Entry) /\ IsMap(m, made) /\ ConnsOK(made)
        /\ \A j \in Callers : CallOK(add[j], made)
        /\ Stand(m, made, add, Callers)
        /\ Maps(m, conns[c].backend) /\ \A b : Maps(clients, b) => Maps(m, b)
    BY <1>2, <1>3, <2>1, <2>2, StoredKeeps
  <2>4. call \in Call /\ call.pc = "idle" /\ call.todo = rest
    BY <1>4, <2>1 DEF Hub!Idle, Call
  <2>5. /\ add' \in [Callers -> Call] /\ add'[k] = call
        /\ \A j \in Callers : j # k => add'[j] = add[j]
    BY <1>2, <2>2, <2>4, CallSet
  <2>6. MapInv'
    <3>1. \A j \in Callers : CallOK(add'[j], made)
      BY <2>3, <2>4, <2>5 DEF CallOK, Awaiting
    <3>2. \A i \in DOMAIN m : EntryStands(m[i], made, add, Callers)
      BY <2>3 DEF Stand
    <3>3. \A i \in DOMAIN m : EntryStands(m[i], made, add', Callers)
      BY <1>5, <2>5, <3>2 DEF EntryStands
    <3>4. QED BY <2>2, <2>3, <3>1, <3>3 DEF MapInv, Stand
  <2>7. CallerMoves(k)
    <3>1. conns' \in Seq(Connection) /\ \A i \in DOMAIN conns : i \in DOMAIN conns' /\ conns'[i].backend = conns[i].backend
      BY <2>2, <2>3 DEF ClientIs
    <3>2. QED BY <2>2, <2>3, <2>5, <2>6, <3>1 DEF CallerMoves
  <2>8. \A b \in Hub!Backends : Maps(clients, b) \/ Pends(add[k], b) => Maps(clients', b) \/ Pends(add'[k], b)
    <3> TAKE b \in Hub!Backends
    <3>1. Pends(add[k], b) => b = conns[c].backend \/ Pends(add'[k], b)
      BY <1>1, <1>3, <2>4, <2>5 DEF Pends
    <3>2. QED BY <2>2, <2>3, <3>1
  <2>9. OrError(req')
    BY <1>2, RejectedFail
  <2>10. QED BY <1>2, <2>7, <2>8, <2>9, CallerKeeps DEF Hub!ComposerAssumption
<1>8. QED BY <1>6, <1>7

\* A further call.
LEMMA ChangeIs ==
  ASSUME Hub!ComposerAssumption, HubInv, Hub!Change, NEW k, k = changes + 1
  PROVE  k \in Callers /\ changes' = k /\ add[k] = Hub!Idle /\ add[k].pc = "idle" /\ ~\E b : Pends(add[k], b)
<1>1. changes \in Nat /\ k \in Callers /\ changes' = k /\ k > changes
  BY DEF HubInv, HubTypes, Hub!Change, Hub!ComposerAssumption, Callers
<1>2. add[k] = Hub!Idle
  BY <1>1 DEF HubInv, StayInv
<1>3. Hub!Idle.pc = "idle" /\ Hub!Idle.todo = <<>>
  BY DEF Hub!Idle
<1>4. DOMAIN <<>> = {}
  OBVIOUS
<1>5. QED BY <1>1, <1>2, <1>3, <1>4 DEF Pends, Awaiting

LEMMA AddBackendKeeps ==
  ASSUME Hub!ComposerAssumption, HubInv, NEW config \in Hub!Configs, Hub!AddBackend(config)
  PROVE  HubInv'
<1>1. PICK k, rest : k = changes + 1 /\ rest = <<>>
  OBVIOUS
<1>2. HubTypes /\ MapInv /\ Hub!Change /\ Hub!Begin(k, config, rest) /\ rest \in Seq(Hub!Configs)
  BY <1>1 DEF HubInv, Hub!AddBackend
<1>3. k \in Callers /\ changes' = k /\ add[k].pc = "idle" /\ ~\E b : Pends(add[k], b)
  BY <1>1, <1>2, ChangeIs
<1>4. CallerMoves(k) /\ OrError(req') /\ clients' = clients
  BY <1>2, <1>3, BeginKeeps
<1>5. \A b \in Hub!Backends : Maps(clients, b) \/ Pends(add[k], b) => Maps(clients', b) \/ Pends(add'[k], b)
  BY <1>3, <1>4
<1>6. QED BY <1>1, <1>3, <1>4, <1>5, CallerKeeps DEF Hub!ComposerAssumption

LEMMA NamesOfMap ==
  ASSUME HubTypes
  PROVE  /\ Hub!Names \in Seq(Hub!Backends)
         /\ \A b : Maps(clients, b) => \E i \in DOMAIN Hub!Names : Hub!Names[i] = b
<1>1. PICK n : n = Len(clients)
  OBVIOUS
<1>2. n \in Nat /\ clients \in [1..n -> Entry]
  BY <1>1, LenProperties DEF HubTypes
<1>3. Hub!Names = [i \in 1..n |-> clients[i].name]
  BY <1>1 DEF Hub!Names
<1>4. Hub!Names \in [1..n -> Hub!Backends]
  BY <1>2, <1>3 DEF Entry
<1>5. \A b : Maps(clients, b) => \E i \in DOMAIN Hub!Names : Hub!Names[i] = b
  BY <1>2, <1>3 DEF Maps
<1> HIDE DEF Hub!Names
<1>6. QED BY <1>2, <1>4, <1>5

LEMMA ReconnectAllKeeps ==
  ASSUME Hub!ComposerAssumption, HubInv, Hub!ReconnectAll
  PROVE  HubInv'
<1>1. PICK k, n : k = changes + 1 /\ n = Len(clients)
  OBVIOUS
<1>2. HubTypes /\ MapInv /\ Hub!Change /\ clients' = <<>> /\ req' = req
  BY DEF HubInv, Hub!ReconnectAll
<1>3. k \in Callers /\ changes' = k /\ add[k].pc = "idle" /\ ~\E b : Pends(add[k], b)
  BY <1>1, <1>2, ChangeIs
<1>4. n \in Nat /\ DOMAIN clients = 1..n /\ clients \in [1..n -> Entry] /\ <<>> \in Seq(Entry) /\ DOMAIN <<>> = {}
  BY <1>1, <1>2, LenProperties DEF HubTypes
<1>5. OrError(req')
  BY <1>2, RejectedFail
<1>6. CASE clients = <<>>
  <2>1. UNCHANGED <<phase, conns, add>>
    BY <1>6 DEF Hub!ReconnectAll
  <2>2. CallerMoves(k)
    BY <1>2, <1>6, <2>1 DEF CallerMoves, HubTypes, MapInv
  <2>3. \A b \in Hub!Backends : Maps(clients, b) \/ Pends(add[k], b) => Maps(clients', b) \/ Pends(add'[k], b)
    BY <1>2, <1>6, <2>1
  <2>4. QED BY <1>1, <1>3, <1>5, <2>2, <2>3, CallerKeeps DEF Hub!ComposerAssumption
<1>7. CASE clients # <<>>
  <2>1. PICK configs : configs = [i \in 1..n |-> Hub!Config(clients[i])]
    OBVIOUS
  <2>2. \A i \in 1..n : Hub!Config(clients[i]) \in Hub!Configs /\ Hub!Config(clients[i]).name = clients[i].name
    BY <1>4 DEF Hub!Config, Hub!Configs, Entry
  <2>3. /\ configs \in Seq(Hub!Configs) /\ DOMAIN configs = 1..n
        /\ \A i \in 1..n : configs[i].name = clients[i].name
    BY <1>4, <2>1, <2>2
  <2>4. configs # <<>>
    <3>1. 1 \in 1..n
      BY <1>1, <1>2, <1>4, <1>7 DEF HubTypes
    <3>2. QED BY <1>4, <2>3, <3>1
  <2>5. PICK config, rest : config = Head(configs) /\ rest = Tail(configs)
    OBVIOUS
  <2>6. /\ config \in Hub!Configs /\ rest \in Seq(Hub!Configs)
        /\ \A x : (\E i \in DOMAIN configs : configs[i] = x) => x = config \/ \E i \in DOMAIN rest : rest[i] = x
    <3>1. config \in Hub!Configs
      BY <2>3, <2>4, <2>5, Rest
    <3>2. /\ Tail(configs) \in Seq(Hub!Configs)
          /\ \A x : (\E i \in DOMAIN configs : configs[i] = x) =>
               x = Head(configs) \/ \E i \in DOMAIN Tail(configs) : Tail(configs)[i] = x
      BY <2>3, <2>4, TailKeeps
    <3>3. QED BY <2>5, <3>1, <3>2
  <2>7. Hub!Start(k, config, rest, conns)
    BY <1>1, <1>7, <2>1, <2>5 DEF Hub!ReconnectAll
  <2>8. clients' \in Seq(Entry) /\ IsMap(clients', conns) /\ Stand(clients', conns, add, Callers \ {k})
    BY <1>2, <1>4 DEF IsMap, Stand
  <2>9. conns \in Seq(Connection) /\ ConnsOK(conns) /\ \A i \in Callers \ {k} : CallOK(add[i], conns)
    BY <1>2 DEF HubTypes, MapInv
  <2>10. CallerMoves(k) /\ TakesUp(k, config, rest)
    BY <1>2, <1>3, <2>6, <2>7, <2>8, <2>9, StartKeeps
  <2>11. ASSUME add'[k].pc # "failed", NEW b \in Hub!Backends, Maps(clients, b) \/ Pends(add[k], b)
         PROVE  Maps(clients', b) \/ Pends(add'[k], b)
    <3>1. PICK i \in 1..n : configs[i].name = b
      BY <1>3, <1>4, <2>3, <2>11 DEF Maps
    <3>2. config.name = b \/ \E j \in DOMAIN rest : rest[j].name = b
      BY <2>3, <2>6, <3>1
    <3>3. Awaiting(add'[k]) /\ add'[k].config = config /\ add'[k].todo = rest
      BY <2>10, <2>11 DEF TakesUp
    <3>4. QED BY <3>2, <3>3 DEF Pends
  <2>12. QED BY <1>1, <1>3, <1>5, <2>10, <2>11, CallerKeeps DEF Hub!ComposerAssumption
<1>8. QED BY <1>6, <1>7

LEMMA BackendExitsKeeps ==
  ASSUME HubInv, NEW c, Hub!BackendExits(c)
  PROVE  HubInv'
<1>1. /\ HubTypes /\ MapInv /\ c \in DOMAIN conns /\ req' = Hub!Rejected(c)
      /\ conns' = [conns EXCEPT ![c].process = "exited", ![c].client = "closed"]
      /\ UNCHANGED <<phase, clients, add, changes>>
  BY DEF HubInv, Hub!BackendExits
<1>2. PICK made, e : made = conns' /\ e = [conns[c] EXCEPT !.process = "exited", !.client = "closed"]
  OBVIOUS
<1>3. conns[c] \in Connection
  <2>1. \A j \in 1..Len(conns) : conns[j] \in Connection
    BY <1>1, ElementOfSeq DEF HubTypes
  <2>2. QED BY <1>1, <2>1, LenProperties DEF HubTypes
<1>4. e \in Connection /\ e.backend = conns[c].backend /\ e.process = "exited" /\ e.client = "closed"
  BY <1>2, <1>3 DEF Connection
<1>5. made = [conns EXCEPT ![c] = e]
  BY <1>1, <1>2, LenProperties DEF HubTypes
<1>6. ConnectionIs(made, c, e)
  BY <1>1, <1>4, <1>5, ConnectionSet
<1>7. /\ made \in Seq(Connection) /\ DOMAIN made = DOMAIN conns
      /\ \A i \in DOMAIN conns : i # c => made[i] = conns[i]
      /\ \A i \in DOMAIN conns : made[i].backend = conns[i].backend
      /\ made[c].process = "exited" /\ made[c].client = "closed"
  BY <1>4, <1>6 DEF ConnectionIs
<1>8. OrError(req')
  BY <1>1, RejectedFail
<1>9. HubTypes'
  BY <1>1, <1>2, <1>7, <1>8 DEF HubTypes, OrError
<1>10. MapInv'
  <2>0. /\ DOMAIN made = DOMAIN conns
        /\ \A i \in DOMAIN conns : i # c => made[i] = conns[i]
        /\ \A i \in DOMAIN conns : made[i].backend = conns[i].backend
        /\ made[c].process = "exited" /\ made[c].client = "closed"
    BY <1>7
  <2>1. \A i \in DOMAIN clients : EntryOK(clients[i], made) /\ EntryStands(clients[i], made, add, Callers)
    <3> TAKE i \in DOMAIN clients
    <3>1. EntryOK(clients[i], conns) /\ EntryStands(clients[i], conns, add, Callers)
      BY <1>1 DEF MapInv, IsMap, Stand
    <3>2. CASE clients[i].conn = c
      <4>1. EntryOK(clients[i], made)
        BY <2>0, <3>1, <3>2 DEF EntryOK
      <4>2. QED BY <2>0, <3>2, <4>1 DEF EntryStands
    <3>3. CASE clients[i].conn # c
      <4>1. made[clients[i].conn] = conns[clients[i].conn]
        BY <2>0, <3>1, <3>3 DEF EntryOK
      <4>2. QED BY <2>0, <3>1, <4>1 DEF EntryOK, EntryStands
    <3>4. QED BY <3>2, <3>3
  <2>2. IsMap(clients, made) /\ Stand(clients, made, add, Callers)
    BY <1>1, <2>1 DEF MapInv, IsMap, Stand
  <2>3. ConnsOK(made)
    <3>1. ConnsOK(conns)
      BY <1>1 DEF MapInv
    <3>2. QED BY <2>0, <3>1 DEF ConnsOK
  <2>4. \A j \in Callers : CallOK(add[j], made)
    <3> TAKE j \in Callers
    <3>1. CallOK(add[j], conns)
      BY <1>1 DEF MapInv
    <3>2. \A i \in DOMAIN conns : conns[i].client # "opening" => made[i].client # "opening"
      <4> TAKE i \in DOMAIN conns
      <4>1. CASE i = c
        BY <2>0, <4>1
      <4>2. CASE i # c
        BY <2>0, <4>2
      <4>3. QED BY <4>1, <4>2
    <3>3. QED BY <2>0, <3>1, <3>2 DEF CallOK
  <2>5. QED BY <1>1, <1>2, <2>2, <2>3, <2>4 DEF MapInv
<1>11. StayInv'
  BY <1>1 DEF HubInv, StayInv
<1>12. RequestInv'
  BY <1>1, <1>2, <1>7, <1>8, RequestsKeep
<1>13. QED BY <1>9, <1>10, <1>11, <1>12 DEF HubInv

LEMMA ServerKeeps ==
  ASSUME HubInv, Hub!Server
  PROVE  HubInv'
<1>1. /\ UNCHANGED <<conns, clients, add, changes, req>>
      /\ \/ phase' = phase
         \/ phase = "connecting" /\ phase' = "serving" /\ add[0].pc = "idle" /\ add[0].todo = <<>>
         \/ phase = "serving" /\ phase' = "stopped"
  BY DEF Hub!Server, Hub!Serve, Hub!Initialized, Hub!Stop, Hub!managerVars
<1>2. HubTypes'
  BY <1>1 DEF HubInv, HubTypes
<1>3. MapInv'
  BY <1>1 DEF HubInv, MapInv
<1>4. StayInv'
  BY <1>1 DEF HubInv, StayInv
<1>5. OrError(req')
  BY <1>1, RejectedFail DEF OrError, HubInv
<1>6. RequestInv'
  BY <1>1, <1>5, RequestsKeep
<1>7. QED BY <1>2, <1>3, <1>4, <1>6 DEF HubInv

\* While it serves the backends that composer.yml has, none is on its way.
LEMMA AllMapped ==
  ASSUME Hub!ComposerAssumption, HubInv, changes = 0, phase \in {"serving", "stopped"}
  PROVE  \A b \in Hub!Backends : Maps(clients, b)
<1>1. Hub!Idle.pc = "idle" /\ Hub!Idle.todo = <<>> /\ DOMAIN <<>> = {}
  BY DEF Hub!Idle
<1>2. \A k \in Callers : k = 0 \/ k > changes
  BY DEF Callers
<1>3. \A k \in Callers : add[k].pc = "idle" /\ add[k].todo = <<>>
  BY <1>1, <1>2 DEF HubInv, StayInv
<1>4. \A k \in Callers : \A b : ~Pends(add[k], b)
  BY <1>1, <1>3 DEF Pends, Awaiting
<1>5. QED BY <1>3, <1>4 DEF HubInv, StayInv


LEMMA Pair ==
  ASSUME NEW T, NEW e \in T, NEW u, u = <<e, e>>
  PROVE  u \in Seq(T) /\ Len(u) = 2 /\ u[1] = e /\ u[2] = e
OBVIOUS

\* A name that is composed has its parts in their order.
Composed(name, b, t, n, m) ==
  /\ name \in Seq(Part) /\ Len(name) = n + 2 + m /\ n \in Nat /\ m \in Nat
  /\ \A i \in 1..n : name[i] = b[i]
  /\ name[n + 1] = Hub!Underscore /\ name[n + 2] = Hub!Underscore
  /\ \A i \in 1..m : name[n + 2 + i] = t[i]

LEMMA NamedParts ==
  ASSUME NEW b \in Seq(Part), NEW t \in Seq(Part)
  PROVE  Composed(Hub!NamespacedName(b, t), b, t, Len(b), Len(t))
<1> SUFFICES ASSUME NEW name, name = Hub!NamespacedName(b, t), NEW n, n = Len(b), NEW m, m = Len(t)
             PROVE  Composed(name, b, t, n, m)
  OBVIOUS
<1>1. PICK u, v : u = <<Hub!Underscore, Hub!Underscore>> /\ v = b \o u
  OBVIOUS
<1>2. u \in Seq(Part) /\ Len(u) = 2 /\ u[1] = Hub!Underscore /\ u[2] = Hub!Underscore
  <2>1. Hub!Underscore \in Part
    BY DEF Part
  <2>2. QED BY <1>1, <2>1, Pair
<1>3. n \in Nat /\ m \in Nat
  BY LenProperties
<1>4. /\ v \in Seq(Part) /\ Len(v) = n + 2 /\ v[n + 1] = Hub!Underscore /\ v[n + 2] = Hub!Underscore
      /\ \A i \in 1..n : v[i] = b[i]
  <2>1. /\ v \in Seq(Part) /\ Len(v) = n + Len(u)
        /\ \A i \in 1..(n + Len(u)) : v[i] = IF i <= n THEN b[i] ELSE u[i - n]
    BY <1>1, <1>2, ConcatProperties
  <2>2. /\ n + 1 \in 1..(n + 2) /\ ~(n + 1 <= n) /\ (n + 1) - n = 1
        /\ n + 2 \in 1..(n + 2) /\ ~(n + 2 <= n) /\ (n + 2) - n = 2
        /\ \A i \in 1..n : i \in 1..(n + 2) /\ i <= n
    BY <1>3
  <2>3. QED BY <1>2, <2>1, <2>2
<1>5. /\ name \in Seq(Part) /\ Len(name) = (n + 2) + m
      /\ \A i \in 1..((n + 2) + m) : name[i] = IF i <= n + 2 THEN v[i] ELSE t[i - (n + 2)]
  <2>1. name = v \o t
    BY <1>1 DEF Hub!NamespacedName
  <2>2. /\ v \o t \in Seq(Part) /\ Len(v \o t) = Len(v) + Len(t)
        /\ \A i \in 1..(Len(v) + Len(t)) : (v \o t)[i] = IF i <= Len(v) THEN v[i] ELSE t[i - Len(v)]
    BY <1>4, ConcatProperties
  <2>3. Len(v) = n + 2 /\ Len(t) = m
    BY <1>4
  <2>4. QED BY <2>1, <2>2, <2>3, Zenon
<1>6. /\ \A i \in 1..n : i \in 1..((n + 2) + m) /\ i <= n + 2
      /\ n + 1 \in 1..((n + 2) + m) /\ n + 1 <= n + 2
      /\ n + 2 \in 1..((n + 2) + m) /\ n + 2 <= n + 2
  BY <1>3
<1>7. \A i \in 1..n : name[i] = b[i]
  BY <1>4, <1>5, <1>6
<1>8. name[n + 1] = Hub!Underscore /\ name[n + 2] = Hub!Underscore
  BY <1>4, <1>5, <1>6
<1>9. \A i \in 1..m : name[n + 2 + i] = t[i]
  <2> SUFFICES ASSUME NEW i \in 1..m PROVE name[n + 2 + i] = t[i]
    OBVIOUS
  <2>1. PICK j : j = n + 2 + i
    OBVIOUS
  <2>2. j \in 1..((n + 2) + m) /\ ~(j <= n + 2) /\ j - (n + 2) = i
    BY <1>3, <2>1
  <2>3. name[j] = t[j - (n + 2)]
    BY <1>5, <2>2
  <2>4. QED BY <2>1, <2>2, <2>3
<1>10. Len(name) = n + 2 + m
  BY <1>5
<1>11. QED BY <1>3, <1>5, <1>7, <1>8, <1>9, <1>10, Zenon DEF Composed

\* A name is divided at its first separator, if it has one.
LEMMA RouteForm ==
  ASSUME NEW name \in Seq(Part), NEW I, I = Hub!Separators(name), NEW k, k = Hub!Min(I)
  PROVE  /\ I = {} => Hub!Route(name) = None
         /\ I # {} => /\ k \in I /\ \A i \in I : k <= i
                      /\ Hub!Route(name) = [backend |-> SubSeq(name, 1, k - 1),
                                            tool |-> SubSeq(name, k + 2, Len(name))]
                      /\ SubSeq(name, k + 2, Len(name)) \in Seq(Part)
<1>1. Len(name) \in Nat /\ I \in SUBSET (1..(Len(name) - 1))
  BY LenProperties DEF Hub!Separators
<1>2. Hub!Route(name) = IF I = {} THEN None ELSE [backend |-> SubSeq(name, 1, k - 1),
                                                 tool |-> SubSeq(name, k + 2, Len(name))]
  BY DEF Hub!Route
<1>3. ASSUME I # {} PROVE k \in I /\ (\A i \in I : k <= i) /\ SubSeq(name, k + 2, Len(name)) \in Seq(Part)
  <2>1. I \in SUBSET Nat
    BY <1>1
  <2>2. k \in I /\ \A i \in I : k <= i
    BY <1>3, <2>1, LeastOf
  <2>3. k + 2 \in Int /\ \A i \in (k + 2)..Len(name) : i \in 1..Len(name)
    BY <1>1, <2>2
  <2>4. \A i \in (k + 2)..Len(name) : name[i] \in Part
    BY <2>3, ElementOfSeq
  <2>5. QED BY <1>1, <2>2, <2>3, <2>4, SubSeqProperties
<1>4. QED BY <1>2, <1>3

\* A name leads to the backend and the tool it is composed of, unless the
\* backend's own name is ambiguous.
LEMMA RouteNamed ==
  ASSUME NEW b \in Seq(Part), NEW t \in Seq(Part), ~Hub!Ambiguous(b)
  PROVE  /\ Hub!NamespacedName(b, t) \in Seq(Part) /\ Hub!NamespacedName(b, t) # <<>>
         /\ Hub!Route(Hub!NamespacedName(b, t)) = [backend |-> b, tool |-> t]
<1>1. PICK name, n, m, I, k : /\ name = Hub!NamespacedName(b, t) /\ n = Len(b) /\ m = Len(t)
                              /\ I = Hub!Separators(name) /\ k = Hub!Min(I)
  OBVIOUS
<1>2. /\ name \in Seq(Part) /\ Len(name) = n + 2 + m /\ n \in Nat /\ m \in Nat
      /\ \A i \in 1..n : name[i] = b[i]
      /\ name[n + 1] = Hub!Underscore /\ name[n + 2] = Hub!Underscore
      /\ \A i \in 1..m : name[n + 2 + i] = t[i]
  <2>1. Composed(Hub!NamespacedName(b, t), b, t, Len(b), Len(t))
    BY NamedParts
  <2>2. Composed(name, b, t, n, m)
    BY <1>1, <2>1, Zenon
  <2>3. QED BY <2>2 DEF Composed
<1>3. \A i \in 1..n : b[i] = Hub!Underscore => i # n /\ b[i + 1] # Hub!Underscore
  BY <1>1 DEF Hub!Ambiguous
<1>4. n + 1 \in I
  <2>1. n + 1 \in 1..(Len(name) - 1) /\ (n + 1) + 1 = n + 2
    BY <1>2
  <2>2. QED BY <1>1, <1>2, <2>1 DEF Hub!Separators
<1>5. \A i \in I : i \in Nat /\ n + 1 <= i
  <2> SUFFICES ASSUME NEW i \in I PROVE i \in Nat /\ n + 1 <= i
    OBVIOUS
  <2>1. i \in 1..(n + 1 + m) /\ name[i] = Hub!Underscore /\ name[i + 1] = Hub!Underscore
    BY <1>1, <1>2 DEF Hub!Separators
  <2>2. ASSUME i <= n PROVE FALSE
    <3>1. i \in 1..n
      BY <1>2, <2>1, <2>2
    <3>2. i # n /\ b[i + 1] # Hub!Underscore
      BY <1>2, <1>3, <2>1, <3>1
    <3>3. i + 1 \in 1..n
      BY <1>2, <3>1, <3>2
    <3>4. QED BY <1>2, <2>1, <3>2, <3>3
  <2>3. QED BY <1>2, <2>1, <2>2
<1>6. k = n + 1
  <2>1. k \in I /\ \A i \in I : k <= i
    BY <1>1, <1>2, <1>4, RouteForm
  <2>2. QED BY <1>2, <1>4, <1>5, <2>1
<1>7. Hub!Route(name) = [backend |-> SubSeq(name, 1, n), tool |-> SubSeq(name, n + 3, n + 2 + m)]
  <2>1. I # {} /\ k - 1 = n /\ k + 2 = n + 3
    BY <1>2, <1>4, <1>6
  <2>2. Hub!Route(name) = [backend |-> SubSeq(name, 1, k - 1), tool |-> SubSeq(name, k + 2, Len(name))]
    BY <1>1, <1>2, <2>1, RouteForm
  <2>3. QED BY <1>2, <2>1, <2>2, Zenon
<1>8. \A i \in 1..(n + 2 + m) : name[i] \in Part
  BY <1>2, ElementOfSeq
<1>9. SubSeq(name, 1, n) = b
  <2>1. PICK s : s = SubSeq(name, 1, n)
    OBVIOUS
  <2>2. \A i \in 1..n : i \in 1..(n + 2 + m) /\ 1 + i - 1 = i
    BY <1>2
  <2>3. /\ s \in Seq(Part) /\ Len(s) = IF 1 <= n THEN n - 1 + 1 ELSE 0
        /\ \A i \in 1..(n - 1 + 1) : s[i] = name[1 + i - 1]
    BY <1>2, <1>8, <2>1, <2>2, SubSeqProperties
  <2>4. n - 1 + 1 = n /\ Len(s) = n
    BY <1>2, <2>3
  <2>5. \A i \in 1..n : s[i] = b[i]
    BY <1>2, <2>2, <2>3, <2>4
  <2>6. QED BY <1>1, <2>1, <2>3, <2>4, <2>5, SeqEqual
<1>10. SubSeq(name, n + 3, n + 2 + m) = t
  <2>1. PICK s, f, l : s = SubSeq(name, f, l) /\ f = n + 3 /\ l = n + 2 + m
    OBVIOUS
  <2>2. f \in Int /\ l \in Int /\ (\A i \in f..l : i \in 1..(n + 2 + m)) /\ l - f + 1 = m
    <3>1. n \in Nat /\ m \in Nat
      BY <1>2
    <3>2. QED BY <2>1, <3>1
  <2>3. /\ s \in Seq(Part) /\ Len(s) = IF f <= l THEN l - f + 1 ELSE 0
        /\ \A i \in 1..(l - f + 1) : s[i] = name[f + i - 1]
    BY <1>8, <2>1, <2>2, SubSeqProperties
  <2>4. Len(s) = m
    BY <1>2, <2>1, <2>2, <2>3
  <2>5. \A i \in 1..m : f + i - 1 = n + 2 + i
    BY <1>2, <2>1
  <2>6. \A i \in 1..m : s[i] = t[i]
    BY <1>2, <2>2, <2>3, <2>5
  <2>7. s = t
    BY <1>1, <2>3, <2>4, <2>6, SeqEqual
  <2>8. QED BY <2>1, <2>7
<1>11. name # <<>>
  BY <1>2
<1>12. QED BY <1>1, <1>2, <1>7, <1>9, <1>10, <1>11

\* One request changes; the others and the connections stand.
LEMMA RequestSet ==
  ASSUME HubInv, NEW r \in Requests, NEW q \in RequestState, NameOK(q), ListOK(q),
         req' = [req EXCEPT ![r] = q],
         UNCHANGED <<phase, conns, clients, add, changes>>
  PROVE  HubInv'
<1>1. HubTypes'
  BY DEF HubInv, HubTypes
<1>2. MapInv'
  BY DEF HubInv, MapInv
<1>3. StayInv'
  BY DEF HubInv, StayInv
<1>4. RequestInv'
  <2> SUFFICES ASSUME NEW x \in Requests PROVE NameOK(req[x])' /\ ListOK(req[x])'
    BY DEF RequestInv
  <2>1. req'[x] = IF x = r THEN q ELSE req[x]
    BY DEF HubInv, HubTypes
  <2>2. NameOK(req'[x]) /\ ListOK(req'[x])
    BY <2>1 DEF HubInv, RequestInv
  <2>3. NameOK(req[x])'
    BY <2>2 DEF NameOK
  <2>4. ListOK(req[x])'
    BY <2>2 DEF ListOK, IsListing, HasShown, Hub!Backends
  <2>5. QED BY <2>3, <2>4
<1>5. QED BY <1>1, <1>2, <1>3, <1>4 DEF HubInv

LEMMA CallToolKeeps ==
  ASSUME HubInv, NEW r \in Requests, NEW name \in Seq(Part), phase = "serving",
         Hub!CallTool(r, name),
         UNCHANGED <<phase, conns, clients, add, changes>>
  PROVE  HubInv'
<1>1. PICK route, c : /\ route = Hub!Route(name)
                      /\ c = IF route = None THEN 0 ELSE Hub!GetClient(route.backend)
  OBVIOUS
<1>2. HubTypes /\ MapInv
  BY DEF HubInv
<1>3. <<>> \in Seq(Part) /\ <<>> \in Seq(Hub!Backends)
  OBVIOUS
<1>4. CASE c = 0 \/ conns[c].client # "open"
  <2>1. PICK q : q = [Hub!Blank EXCEPT !.state = "error"]
    OBVIOUS
  <2>2. req' = [req EXCEPT ![r] = q]
    BY <1>1, <1>4, <2>1 DEF Hub!CallTool, Hub!Set
  <2>3. q \in RequestState /\ q.state = "error" /\ q.on = 0 /\ q.shown = {}
    BY <1>3, <2>1 DEF Hub!Blank, RequestState
  <2>4. NameOK(q) /\ ListOK(q)
    BY <2>3 DEF NameOK, ListOK, IsListing
  <2>5. QED BY <2>2, <2>3, <2>4, RequestSet
<1>5. CASE c # 0 /\ conns[c].client = "open"
  <2>1. PICK q, t : t = route.tool
                    /\ q = [Hub!Blank EXCEPT !.name = name, !.state = "calling", !.on = c, !.tool = t]
    OBVIOUS
  <2>2. req' = [req EXCEPT ![r] = q]
    BY <1>1, <1>5, <2>1 DEF Hub!CallTool, Hub!Set
  <2>3. PICK I, k, backend : I = Hub!Separators(name) /\ k = Hub!Min(I) /\ backend = route.backend
    OBVIOUS
  <2>4. route # None /\ c = Hub!GetClient(backend)
    BY <1>1, <1>5, <2>3
  <2>5. c \in DOMAIN conns /\ c \in Nat /\ conns[c].backend = backend
    <3>1. c \in DOMAIN conns /\ conns[c].backend = backend
      <4>1. PICK j : j = Index(clients, backend)
        OBVIOUS
      <4>2. QED BY <1>2, <1>5, <2>4, <4>1, ClientFound
    <3>2. \A d \in DOMAIN conns : d \in Nat
      BY <1>2, LenProperties DEF HubTypes
    <3>3. QED BY <3>1, <3>2
  <2>6. /\ I # {} /\ k \in I
        /\ Hub!Route(name) = [backend |-> SubSeq(name, 1, k - 1), tool |-> SubSeq(name, k + 2, Len(name))]
        /\ SubSeq(name, k + 2, Len(name)) \in Seq(Part)
    <3>1. I # {}
      BY <1>1, <2>3, <2>4, RouteForm
    <3>2. QED BY <2>3, <3>1, RouteForm
  <2>7. route = [backend |-> backend, tool |-> t] /\ t \in Seq(Part)
    <3>1. PICK x, y : x = SubSeq(name, 1, k - 1) /\ y = SubSeq(name, k + 2, Len(name))
      OBVIOUS
    <3>2. route = [backend |-> x, tool |-> y] /\ y \in Seq(Part)
      BY <1>1, <2>6, <3>1
    <3>3. backend = x /\ t = y
      BY <2>1, <2>3, <3>2
    <3>4. QED BY <3>2, <3>3
  <2>8. name # <<>>
    <3>1. k \in 1..(Len(name) - 1)
      BY <2>3, <2>6 DEF Hub!Separators
    <3>2. Len(<<>>) = 0
      OBVIOUS
    <3>3. QED BY <3>1, <3>2
  <2>9. /\ q \in RequestState /\ q.state = "calling" /\ q.on = c /\ q.shown = {}
        /\ q.name = name /\ q.tool = t
    BY <1>3, <2>1, <2>5, <2>7 DEF Hub!Blank, RequestState
  <2>10. NameOK(q)
    BY <1>1, <1>5, <2>5, <2>7, <2>8, <2>9 DEF NameOK
  <2>11. ListOK(q)
    BY <2>9 DEF ListOK, IsListing
  <2>12. QED BY <2>2, <2>9, <2>10, <2>11, RequestSet
<1>6. QED BY <1>4, <1>5

LEMMA ReceiveKeeps ==
  ASSUME Hub!ComposerAssumption, HubInv, NEW r \in Requests, Hub!Receive(r)
  PROVE  HubInv'
<1>1. /\ HubTypes /\ MapInv /\ phase = "serving"
      /\ UNCHANGED <<phase, conns, clients, add, changes>>
  BY DEF HubInv, Hub!Receive, Hub!managerVars
<1>2. <<>> \in Seq(Part) /\ <<>> \in Seq(Hub!Backends) /\ DOMAIN <<>> = {}
  OBVIOUS
<1>3. CASE Hub!Set(r, [Hub!Blank EXCEPT !.state = "error"])
  <2>1. PICK q : q = [Hub!Blank EXCEPT !.state = "error"]
    OBVIOUS
  <2>2. req' = [req EXCEPT ![r] = q]
    BY <1>3, <2>1 DEF Hub!Set
  <2>3. q \in RequestState /\ q.state = "error" /\ q.on = 0 /\ q.shown = {}
    BY <1>2, <2>1 DEF Hub!Blank, RequestState
  <2>4. NameOK(q) /\ ListOK(q)
    BY <2>3 DEF NameOK, ListOK, IsListing
  <2>5. QED BY <1>1, <2>2, <2>3, <2>4, RequestSet
<1>4. CASE Hub!Set(r, [Hub!Blank EXCEPT !.state = "next", !.left = Hub!Names])
  <2>1. PICK q, names : names = Hub!Names /\ q = [Hub!Blank EXCEPT !.state = "next", !.left = names]
    OBVIOUS
  <2>2. req' = [req EXCEPT ![r] = q]
    BY <1>4, <2>1 DEF Hub!Set
  <2>3. /\ names \in Seq(Hub!Backends)
        /\ \A b : Maps(clients, b) => \E i \in DOMAIN names : names[i] = b
    BY <1>1, <2>1, NamesOfMap
  <2>4. /\ q \in RequestState /\ q.state = "next" /\ q.on = 0 /\ q.shown = {}
        /\ q.name = <<>> /\ q.left = names
    BY <1>2, <2>1, <2>3 DEF Hub!Blank, RequestState
  <2>5. changes = 0 => \A b \in Hub!Backends : Maps(clients, b)
    BY <1>1, AllMapped
  <2>6. NameOK(q)
    BY <2>4 DEF NameOK
  <2>7. ListOK(q)
    BY <1>1, <2>3, <2>4, <2>5 DEF ListOK, IsListing
  <2>8. QED BY <1>1, <2>2, <2>4, <2>6, <2>7, RequestSet
<1>5. CASE \E b \in Hub!Backends : \E tool \in Tools[b] :
             \E name \in {tool, Hub!NamespacedName(b, tool)} : Hub!CallTool(r, name)
  <2>1. PICK b \in Hub!Backends : \E tool \in Tools[b] :
               \E name \in {tool, Hub!NamespacedName(b, tool)} : Hub!CallTool(r, name)
    BY <1>5
  <2>2. PICK tool \in Tools[b] : \E name \in {tool, Hub!NamespacedName(b, tool)} : Hub!CallTool(r, name)
    BY <2>1
  <2>3. PICK name \in {tool, Hub!NamespacedName(b, tool)} : Hub!CallTool(r, name)
    BY <2>2
  <2>4. b \in Seq(Part) /\ tool \in Seq(Part)
    BY <2>1, <2>2, ConfigNames
  <2>5. Composed(Hub!NamespacedName(b, tool), b, tool, Len(b), Len(tool))
    BY <2>4, NamedParts
  <2>6. name \in Seq(Part)
    BY <2>3, <2>4, <2>5 DEF Composed
  <2>7. QED BY <1>1, <2>3, <2>6, CallToolKeeps
<1>6. QED BY <1>3, <1>4, <1>5 DEF Hub!Receive

LEMMA ListNextKeeps ==
  ASSUME Hub!ComposerAssumption, HubInv, NEW r \in Requests, Hub!ListNext(r)
  PROVE  HubInv'
<1>1. PICK p, left, c : /\ p = req[r] /\ left = p.left
                        /\ c = IF left = <<>> THEN 0 ELSE Hub!GetClient(Head(left))
  OBVIOUS
<1>2. /\ HubTypes /\ MapInv /\ NameOK(p) /\ ListOK(p)
      /\ p \in RequestState /\ p.state = "next"
      /\ UNCHANGED <<phase, conns, clients, add, changes>>
  BY <1>1 DEF HubInv, HubTypes, RequestInv, Hub!ListNext, Hub!managerVars
<1>3. p.name = <<>> /\ phase \in {"serving", "stopped"} /\ left \in Seq(Hub!Backends)
  BY <1>1, <1>2 DEF ListOK, IsListing, RequestState
<1>4. CASE left = <<>>
  <2>1. PICK q : q = [p EXCEPT !.state = "answered"]
    OBVIOUS
  <2>2. req' = [req EXCEPT ![r] = q]
    BY <1>1, <1>4, <2>1 DEF Hub!ListNext, Hub!Set
  <2>3. /\ q \in RequestState /\ q.state = "answered" /\ q.on = p.on /\ q.shown = p.shown
        /\ q.name = p.name /\ q.tool = p.tool /\ q.left = left
    BY <1>1, <1>2, <2>1 DEF RequestState
  <2>4. NameOK(q)
    BY <1>2, <2>3 DEF NameOK
  <2>5. ListOK(q)
    BY <1>1, <1>2, <1>3, <1>4, <2>3 DEF ListOK, IsListing, HasShown
  <2>6. QED BY <1>2, <2>2, <2>3, <2>4, <2>5, RequestSet
<1>5. CASE left # <<>> /\ c = 0
  <2>1. PICK q, rest : rest = Tail(left) /\ q = [p EXCEPT !.left = rest]
    OBVIOUS
  <2>2. req' = [req EXCEPT ![r] = q]
    BY <1>1, <1>5, <2>1 DEF Hub!ListNext, Hub!Set
  <2>3. /\ rest \in Seq(Hub!Backends)
        /\ \A x : (\E i \in DOMAIN left : left[i] = x) => x = Head(left) \/ \E i \in DOMAIN rest : rest[i] = x
    <3>1. /\ Tail(left) \in Seq(Hub!Backends)
          /\ \A x : (\E i \in DOMAIN left : left[i] = x) =>
               x = Head(left) \/ \E i \in DOMAIN Tail(left) : Tail(left)[i] = x
      BY <1>3, <1>5, TailKeeps
    <3>2. rest = Tail(left)
      BY <2>1
    <3>3. QED BY <3>1, <3>2, Zenon
  <2>4. /\ q \in RequestState /\ q.state = "next" /\ q.on = p.on /\ q.shown = p.shown
        /\ q.name = p.name /\ q.tool = p.tool /\ q.left = rest
    BY <1>1, <1>2, <2>1, <2>3 DEF RequestState
  <2>5. ~Maps(clients, Head(left))
    <3>1. PICK j, name : name = Head(left) /\ j = Index(clients, name)
      OBVIOUS
    <3>2. 0 = Hub!GetClient(name)
      BY <1>1, <1>5, <3>1
    <3>3. QED BY <1>2, <3>1, <3>2, ClientFound
  <2>6. changes = 0 => \A x \in Hub!Backends : Maps(clients, x)
    BY <1>3, AllMapped
  <2>7. NameOK(q)
    BY <1>2, <2>4 DEF NameOK
  <2>8. changes = 0 => \A x \in Hub!Backends : HasShown(q, x) \/ \E i \in DOMAIN q.left : q.left[i] = x
    <3> SUFFICES ASSUME changes = 0, NEW x \in Hub!Backends
                 PROVE  HasShown(q, x) \/ \E i \in DOMAIN q.left : q.left[i] = x
      OBVIOUS
    <3>1. HasShown(p, x) \/ \E i \in DOMAIN left : left[i] = x
      BY <1>1, <1>2, <1>3 DEF ListOK, IsListing
    <3>2. HasShown(p, x) => HasShown(q, x)
      BY <2>4 DEF HasShown
    <3>3. x # Head(left)
      BY <2>5, <2>6
    <3>4. QED BY <2>3, <2>4, <3>1, <3>2, <3>3
  <2>9. ListOK(q)
    BY <1>3, <2>4, <2>8 DEF ListOK, IsListing
  <2>10. QED BY <1>2, <2>2, <2>4, <2>7, <2>9, RequestSet
<1>6. CASE left # <<>> /\ c # 0 /\ conns[c].client # "open"
  <2>1. PICK q : q = [p EXCEPT !.state = "error"]
    OBVIOUS
  <2>2. req' = [req EXCEPT ![r] = q]
    BY <1>1, <1>6, <2>1 DEF Hub!ListNext, Hub!Set
  <2>3. /\ q \in RequestState /\ q.state = "error" /\ q.on = p.on /\ q.shown = p.shown
        /\ q.name = p.name /\ q.tool = p.tool
    BY <1>2, <2>1 DEF RequestState
  <2>4. NameOK(q) /\ ListOK(q)
    BY <1>2, <2>3 DEF NameOK, ListOK, IsListing
  <2>5. QED BY <1>2, <2>2, <2>3, <2>4, RequestSet
<1>7. CASE left # <<>> /\ c # 0 /\ conns[c].client = "open"
  <2>1. PICK q : q = [p EXCEPT !.state = "listing", !.on = c]
    OBVIOUS
  <2>2. req' = [req EXCEPT ![r] = q]
    BY <1>1, <1>7, <2>1 DEF Hub!ListNext, Hub!Set
  <2>3. c \in DOMAIN conns /\ c \in Nat /\ conns[c].backend = Head(left)
    <3>1. PICK j, name : name = Head(left) /\ j = Index(clients, name)
      OBVIOUS
    <3>2. c = Hub!GetClient(name)
      BY <1>1, <1>7, <3>1
    <3>3. c \in DOMAIN conns /\ conns[c].backend = name
      BY <1>2, <1>7, <3>1, <3>2, ClientFound
    <3>4. \A d \in DOMAIN conns : d \in Nat
      BY <1>2, LenProperties DEF HubTypes
    <3>5. QED BY <3>1, <3>3, <3>4
  <2>4. /\ q \in RequestState /\ q.state = "listing" /\ q.on = c /\ q.shown = p.shown
        /\ q.name = <<>> /\ q.left = left
    BY <1>1, <1>2, <1>3, <2>1, <2>3 DEF RequestState
  <2>5. NameOK(q)
    BY <1>2, <2>3, <2>4 DEF NameOK
  <2>6. ListOK(q)
    BY <1>1, <1>2, <1>3, <1>7, <2>3, <2>4 DEF ListOK, IsListing, HasShown
  <2>7. QED BY <1>2, <2>2, <2>4, <2>5, <2>6, RequestSet
<1>8. QED BY <1>4, <1>5, <1>6, <1>7

LEMMA ListAnswerKeeps ==
  ASSUME Hub!ComposerAssumption, HubInv, NEW r \in Requests, Hub!ListAnswer(r)
  PROVE  HubInv'
<1>1. PICK p, left, b : p = req[r] /\ left = p.left /\ b = conns[p.on].backend
  OBVIOUS
<1>2. PICK more : more = {[name |-> Hub!NamespacedName(b, t), backend |-> b, tool |-> t] : t \in Tools[b]}
  OBVIOUS
<1>3. /\ HubTypes /\ NameOK(p) /\ ListOK(p) /\ p \in RequestState /\ p.state = "listing"
      /\ UNCHANGED <<phase, conns, clients, add, changes>>
  BY <1>1 DEF HubInv, HubTypes, RequestInv, Hub!ListAnswer, Hub!managerVars
<1>4. /\ p.name = <<>> /\ phase \in {"serving", "stopped"} /\ left \in Seq(Hub!Backends)
      /\ p.on # 0 /\ p.on \in DOMAIN conns /\ left # <<>> /\ Head(left) = b
  BY <1>1, <1>3 DEF NameOK, ListOK, IsListing, RequestState
<1>5. CASE Hub!Set(r, [req[r] EXCEPT !.state = "error"])
  <2>1. PICK q : q = [p EXCEPT !.state = "error"]
    OBVIOUS
  <2>2. req' = [req EXCEPT ![r] = q]
    BY <1>1, <1>5, <2>1 DEF Hub!Set
  <2>3. /\ q \in RequestState /\ q.state = "error" /\ q.on = p.on /\ q.shown = p.shown
        /\ q.name = p.name /\ q.tool = p.tool
    BY <1>3, <2>1 DEF RequestState
  <2>4. NameOK(q) /\ ListOK(q)
    BY <1>3, <2>3 DEF NameOK, ListOK, IsListing
  <2>5. QED BY <1>3, <2>2, <2>3, <2>4, RequestSet
<1>6. CASE Hub!Set(r, [req[r] EXCEPT !.state = "next", !.left = Tail(@), !.shown = @ \cup more])
  <2>1. PICK q, rest, shown : /\ rest = Tail(left) /\ shown = p.shown \cup more
                              /\ q = [p EXCEPT !.state = "next", !.left = rest, !.shown = shown]
    OBVIOUS
  <2>2. req' = [req EXCEPT ![r] = q]
    <3>1. [req[r] EXCEPT !.state = "next", !.left = Tail(@), !.shown = @ \cup more] = q
      BY <1>1, <1>3, <2>1 DEF RequestState
    <3>2. QED BY <1>6, <3>1 DEF Hub!Set
  <2>3. /\ rest \in Seq(Hub!Backends)
        /\ \A x : (\E i \in DOMAIN left : left[i] = x) => x = Head(left) \/ \E i \in DOMAIN rest : rest[i] = x
    <3>1. /\ Tail(left) \in Seq(Hub!Backends)
          /\ \A x : (\E i \in DOMAIN left : left[i] = x) =>
               x = Head(left) \/ \E i \in DOMAIN Tail(left) : Tail(left)[i] = x
      BY <1>4, TailKeeps
    <3>2. rest = Tail(left)
      BY <2>1
    <3>3. QED BY <3>1, <3>2, Zenon
  <2>4. b \in Seq(Part) /\ \A t \in Tools[b] : t \in Seq(Part) /\ Hub!NamespacedName(b, t) \in Seq(Part)
    <3>1. b \in Hub!Backends
      BY <1>1, <1>3, <1>4, ElementOfSeq DEF HubTypes, Connection
    <3>2. b \in Seq(Part) /\ Tools[b] \subseteq Seq(Part)
      BY <3>1, ConfigNames
    <3>3. \A t \in Tools[b] : Composed(Hub!NamespacedName(b, t), b, t, Len(b), Len(t))
      BY <3>2, NamedParts
    <3>4. QED BY <3>2, <3>3 DEF Composed
  <2>5. /\ more \subseteq ToolShown
        /\ \A s \in more : s.name = Hub!NamespacedName(s.backend, s.tool)
        /\ \A t \in Tools[b] : \E s \in more : s.backend = b /\ s.tool = t
    <3>1. \A t \in Tools[b] : [name |-> Hub!NamespacedName(b, t), backend |-> b, tool |-> t] \in ToolShown
      BY <2>4 DEF ToolShown
    <3>2. \A s \in more : \E t \in Tools[b] :
            s = [name |-> Hub!NamespacedName(b, t), backend |-> b, tool |-> t]
      BY <1>2
    <3>3. \A t \in Tools[b] : [name |-> Hub!NamespacedName(b, t), backend |-> b, tool |-> t] \in more
      BY <1>2
    <3>4. more \subseteq ToolShown
      BY <3>1, <3>2
    <3>5. \A s \in more : s.name = Hub!NamespacedName(s.backend, s.tool)
      BY <3>2
    <3>6. \A t \in Tools[b] : \E s \in more : s.backend = b /\ s.tool = t
      BY <3>3
    <3>7. QED BY <3>4, <3>5, <3>6
  <2>6. shown \subseteq ToolShown
    BY <1>3, <2>1, <2>5 DEF RequestState
  <2>7. /\ q \in RequestState /\ q.state = "next" /\ q.on = p.on /\ q.shown = shown
        /\ q.name = p.name /\ q.tool = p.tool /\ q.left = rest
    BY <1>3, <2>1, <2>3, <2>6 DEF RequestState
  <2>8. NameOK(q)
    <3>1. \A s \in q.shown : s.name = Hub!NamespacedName(s.backend, s.tool)
      BY <1>3, <2>1, <2>5, <2>7 DEF NameOK
    <3>2. QED BY <1>3, <1>4, <2>7, <3>1 DEF NameOK
  <2>9. changes = 0 => \A x \in Hub!Backends : HasShown(q, x) \/ \E i \in DOMAIN q.left : q.left[i] = x
    <3> SUFFICES ASSUME changes = 0, NEW x \in Hub!Backends
                 PROVE  HasShown(q, x) \/ \E i \in DOMAIN q.left : q.left[i] = x
      OBVIOUS
    <3>1. HasShown(p, x) \/ \E i \in DOMAIN left : left[i] = x
      BY <1>1, <1>3, <1>4 DEF ListOK, IsListing
    <3>2. HasShown(p, x) => HasShown(q, x)
      BY <2>1, <2>7 DEF HasShown
    <3>3. HasShown(q, b)
      BY <2>1, <2>5, <2>7 DEF HasShown
    <3>4. QED BY <1>4, <2>3, <2>7, <3>1, <3>2, <3>3
  <2>10. ListOK(q)
    BY <1>4, <2>7, <2>9 DEF ListOK, IsListing
  <2>11. QED BY <1>3, <2>2, <2>7, <2>8, <2>10, RequestSet
<1>7. \/ Hub!Set(r, [req[r] EXCEPT !.state = "next", !.left = Tail(@), !.shown = @ \cup more])
      \/ Hub!Set(r, [req[r] EXCEPT !.state = "error"])
  BY <1>1, <1>2 DEF Hub!ListAnswer
<1>8. QED BY <1>5, <1>6, <1>7

LEMMA CallAnswerKeeps ==
  ASSUME HubInv, NEW r \in Requests, Hub!CallAnswer(r)
  PROVE  HubInv'
<1>1. PICK p : p = req[r]
  OBVIOUS
<1>2. /\ NameOK(p) /\ ListOK(p) /\ p \in RequestState /\ p.state = "calling"
      /\ UNCHANGED <<phase, conns, clients, add, changes>>
  BY <1>1 DEF HubInv, HubTypes, RequestInv, Hub!CallAnswer, Hub!managerVars
<1>3. PICK outcome \in {"answered", "error"} : Hub!Set(r, [req[r] EXCEPT !.state = outcome])
  BY DEF Hub!CallAnswer
<1>4. PICK q : q = [p EXCEPT !.state = outcome]
  OBVIOUS
<1>5. req' = [req EXCEPT ![r] = q]
  BY <1>1, <1>3, <1>4 DEF Hub!Set
<1>6. /\ q \in RequestState /\ q.state = outcome /\ q.on = p.on /\ q.shown = p.shown
      /\ q.name = p.name /\ q.tool = p.tool /\ q.left = p.left
  BY <1>2, <1>3, <1>4 DEF RequestState
<1>7. NameOK(q)
  BY <1>2, <1>3, <1>6 DEF NameOK
<1>8. ListOK(q)
  BY <1>2, <1>3, <1>6 DEF NameOK, ListOK, IsListing
<1>9. QED BY <1>2, <1>5, <1>6, <1>7, <1>8, RequestSet

LEMMA HubStepKeeps ==
  ASSUME Hub!ComposerAssumption, HubInv, Hub!Next
  PROVE  HubInv'
<1>1. CASE Hub!Manage
  BY <1>1, BeginNextKeeps, SessionEndsKeeps, RemovedKeeps, AddConnectsKeeps, ReconnectAllKeeps,
     AddBackendKeeps DEF Hub!Manage, Callers
<1>2. CASE Hub!Server
  BY <1>2, ServerKeeps
<1>3. CASE \E r \in Requests : Hub!Receive(r) \/ Hub!Handle(r)
  BY <1>3, ReceiveKeeps, ListNextKeeps, ListAnswerKeeps, CallAnswerKeeps DEF Hub!Handle
<1>4. CASE \E c \in 1..MaxConns : Hub!BackendExits(c)
  BY <1>4, BackendExitsKeeps
<1>5. QED BY <1>1, <1>2, <1>3, <1>4 DEF Hub!Next

LEMMA HubStands ==
  ASSUME HubInv, UNCHANGED hubVars
  PROVE  HubInv'
<1>1. UNCHANGED <<phase, conns, clients, add, changes, req>>
  BY DEF hubVars
<1>2. HubTypes'
  BY <1>1 DEF HubInv, HubTypes
<1>3. MapInv'
  BY <1>1 DEF HubInv, MapInv
<1>4. StayInv'
  BY <1>1 DEF HubInv, StayInv
<1>5. OrError(req')
  BY <1>1, RejectedFail DEF OrError, HubInv
<1>6. RequestInv'
  BY <1>1, <1>5, RequestsKeep
<1>7. QED BY <1>2, <1>3, <1>4, <1>6 DEF HubInv

LEMMA HubShows ==
  ASSUME HubInv
  PROVE  /\ Hub!TypeOK /\ Hub!CallsReachWhatWasListed /\ Hub!ListingsAreWhole
         /\ Hub!EntriesAreNotKilled /\ Hub!BackendsStay
<1>1. HubTypes /\ MapInv /\ \A r \in Requests : NameOK(req[r]) /\ ListOK(req[r]) /\ req[r] \in RequestState
  BY DEF HubInv, HubTypes, RequestInv
<1>2. Hub!TypeOK
  <2> DEFINE ConnOK(c) == /\ conns[c].process \in {"none", "running", "killed", "exited"}
                          /\ conns[c].client \in {"opening", "open", "closing", "closed"}
             AddOK(k) == /\ add[k].pc \in {"idle", "closing", "removing", "connecting", "failed"}
                         /\ add[k].pc \in {"closing", "removing", "connecting"} => add[k].conn \in DOMAIN conns
             ReqOK(r) == /\ req[r].state \in {"new", "next", "listing", "calling", "answered", "error"}
                         /\ req[r].state \in {"listing", "calling"} => req[r].on \in DOMAIN conns
                         /\ req[r].state = "listing" => Head(req[r].left) = conns[req[r].on].backend
  <2>1. \A c \in DOMAIN conns : ConnOK(c)
    <3>1. \A c \in DOMAIN conns : conns[c] \in Connection
      BY <1>1, LenProperties DEF HubTypes
    <3>2. QED BY <3>1 DEF Connection
  <2>2. \A r \in Requests : ReqOK(r)
    BY <1>1 DEF NameOK, ListOK, RequestState
  <2>3. \A k \in 0..MaxChanges : AddOK(k)
    BY <1>1 DEF HubTypes, Call, MapInv, CallOK, Awaiting, Callers
  <2>4. phase \in {"connecting", "serving", "stopped", "failed"}
    BY <1>1 DEF HubTypes
  <2>5. phase \in {"connecting", "serving", "stopped", "failed"} /\ (\A c \in DOMAIN conns : ConnOK(c))
          /\ (\A k \in 0..MaxChanges : AddOK(k)) /\ (\A r \in Requests : ReqOK(r)) => Hub!TypeOK
    BY DEF Hub!TypeOK
  <2> HIDE DEF ConnOK, AddOK, ReqOK
  <2>6. QED BY <2>1, <2>2, <2>3, <2>4, <2>5
<1>3. Hub!CallsReachWhatWasListed
  <2> SUFFICES ASSUME NEW r \in Requests, NEW l \in Requests, NEW s \in req[l].shown,
                      ~Hub!Ambiguous(s.backend),
                      req[r].on # 0, req[r].name = s.name
               PROVE  conns[req[r].on].backend = s.backend /\ req[r].tool = s.tool
    BY DEF Hub!CallsReachWhatWasListed
  <2>1. PICK b, t : b = s.backend /\ t = s.tool
    OBVIOUS
  <2>2. b \in Seq(Part) /\ t \in Seq(Part) /\ s.name = Hub!NamespacedName(b, t)
    BY <1>1, <2>1 DEF NameOK, RequestState, ToolShown
  <2>3. s.name # <<>> /\ Hub!Route(s.name) = [backend |-> b, tool |-> t]
    BY <2>1, <2>2, RouteNamed
  <2>4. Hub!Route(req[r].name) = [backend |-> conns[req[r].on].backend, tool |-> req[r].tool]
    BY <1>1, <2>3 DEF NameOK
  <2>5. QED BY <2>1, <2>3, <2>4
<1>4. Hub!ListingsAreWhole
  <2> SUFFICES ASSUME NEW r \in Requests, changes = 0, req[r].state = "answered", req[r].name = <<>>,
                      NEW b \in Hub!Backends
               PROVE  HasShown(req[r], b)
    BY DEF Hub!ListingsAreWhole, HasShown
  <2>1. /\ req[r].left = <<>>
        /\ HasShown(req[r], b) \/ \E i \in DOMAIN req[r].left : req[r].left[i] = b
    BY <1>1 DEF ListOK, IsListing
  <2>2. QED BY <2>1
<1>5. Hub!EntriesAreNotKilled
  <2>1. \A i, j \in DOMAIN clients : clients[i].name = clients[j].name => i = j
    BY <1>1 DEF MapInv, IsMap
  <2>2. ASSUME NEW e \in Hub!ToSet(clients)
        PROVE  /\ conns[e.conn].backend = e.name /\ conns[e.conn].process # "killed"
               /\ EntryStands(e, conns, add, Callers)
    <3>1. PICK i \in DOMAIN clients : e = clients[i]
      BY <2>2 DEF Hub!ToSet
    <3>2. QED BY <1>1, <3>1 DEF MapInv, IsMap, EntryOK, Stand
  <2>3. QED BY <2>1, <2>2 DEF Hub!EntriesAreNotKilled, EntryStands, Holds, Callers
<1>6. Hub!BackendsStay
  <2> SUFFICES ASSUME \A k \in Callers : add[k].pc # "failed", NEW b \in Hub!Backends
               PROVE  (\E e \in Hub!ToSet(clients) : e.name = b) \/ \E k \in Callers : Hub!Pending(k, b)
    BY DEF Hub!BackendsStay, Callers
  <2>1. \A k : Pends(add[k], b) => Hub!Pending(k, b)
    BY DEF Pends, Awaiting, Hub!Pending
  <2>2. Maps(clients, b) => \E e \in Hub!ToSet(clients) : e.name = b
    BY DEF Maps, Hub!ToSet
  <2>3. QED BY <2>1, <2>2 DEF HubInv, StayInv
<1>7. QED BY <1>2, <1>3, <1>4, <1>5, <1>6

--------------------------------------------------------------------------
(* LabSession                                                              *)

LEMMA LabInitial ==
  ASSUME NEW case, Lab(case)!LabAssumption, Lab(case)!Init
  PROVE  LabInv(case)
<1> USE DEF Lab!LabAssumption, Lab!Init, Lab!Tasks
<1>1. LabTypes(case)
  BY DEF LabTypes, Lab!TypeOK, TaskPcs
<1>2. Lab(case)!OneServer
  BY DEF Lab!OneServer
<1>3. TurnInv(case)
  BY DEF TurnInv, Busy, Closes, Asks, ClientInv, MainInv, ViewInv, AskInv, AnswerInv,
         Lab!CatalogIsOfServer, Lab!HistoryTellsServer
<1>4. ClosingInv(case)
  BY DEF ClosingInv
<1>5. QED BY <1>1, <1>2, <1>3, <1>4 DEF LabInv

\* What closing a client does, at once or by asking its server first.
Shut(case, o, x) ==
  /\ client' \in [case.ops -> Clients] /\ ready' \in [Lab(case)!Tasks -> {None, "ok", "threw"}]
  /\ closer' \in [case.ops -> case.ops \cup {None}]
  /\ \A y \in case.ops : y # x => client'[y] = client[y] /\ closer'[y] = closer[y]
  /\ \A t \in Lab(case)!Tasks : t # o =>
       ready'[t] = ready[t] \/ (t \in Lab(case)!Awaiters(x) /\ ready'[t] = "threw" /\ client'[x] = "closed")
  /\ \/ /\ ready'[o] = "ok" /\ client' = client /\ closer' = closer
        /\ x = None \/ client[x] \in {"closing", "closed"}
     \/ /\ ready'[o] = "ok" /\ closer' = closer /\ x # None /\ client'[x] = "closed"
        /\ \A t \in Lab(case)!Tasks : t # o /\ t \in Lab(case)!Awaiters(x) => ready'[t] = "threw"
     \/ /\ ready'[o] = None /\ x # None /\ client[x] \notin {"closing", "closed"}
        /\ client'[x] = "closing" /\ closer'[x] = o

LEMMA CloseShuts ==
  ASSUME NEW case, Lab(case)!LabAssumption, LabTypes(case), NEW o \in case.ops,
         NEW x \in case.ops \cup {None}, Lab(case)!Close(o, x)
  PROVE  Shut(case, o, x)
<1>1. /\ client \in [case.ops -> Clients] /\ ready \in [Lab(case)!Tasks -> {None, "ok", "threw"}]
      /\ closer \in [case.ops -> case.ops \cup {None}] /\ o \in Lab(case)!Tasks
      /\ x = None \/ x \in case.ops
  BY DEF LabTypes, Lab!TypeOK, Lab!Tasks, Clients
<1>2. CASE x = None \/ client[x] \in {"closing", "closed"}
  <2>1. ready' = [ready EXCEPT ![o] = "ok"] /\ client' = client /\ closer' = closer
    BY <1>2 DEF Lab!Close
  <2>2. QED BY <1>1, <1>2, <2>1 DEF Shut
<1>3. CASE /\ x # None /\ client' = [client EXCEPT ![x] = "closed"] /\ closer' = closer
           /\ ready' = [t \in Lab(case)!Tasks |-> IF t = o THEN "ok"
                                                  ELSE IF t \in Lab(case)!Awaiters(x) THEN "threw" ELSE ready[t]]
  <2>1. client' \in [case.ops -> Clients] /\ client'[x] = "closed" /\ \A y \in case.ops : y # x => client'[y] = client[y]
    BY <1>1, <1>3 DEF Clients
  <2>2. QED BY <1>1, <1>3, <2>1 DEF Shut
<1>4. CASE /\ x # None /\ client[x] \notin {"closing", "closed"}
           /\ client' = [client EXCEPT ![x] = "closing"] /\ closer' = [closer EXCEPT ![x] = o]
           /\ ready' = [ready EXCEPT ![o] = None]
  <2>1. client' \in [case.ops -> Clients] /\ client'[x] = "closing" /\ \A y \in case.ops : y # x => client'[y] = client[y]
    BY <1>1, <1>4 DEF Clients
  <2>2. QED BY <1>1, <1>4, <2>1 DEF Shut
<1>5. QED BY <1>2, <1>3, <1>4 DEF Lab!Close

\* One task moves on; one is told of what it awaits.
Moved(case, t, w) ==
  /\ taskPc' \in [Lab(case)!Tasks -> TaskPcs] /\ taskPc'[t] = w
  /\ \A u \in Lab(case)!Tasks : u # t => taskPc'[u] = taskPc[u]
Settled(case, t, v) ==
  /\ ready' \in [Lab(case)!Tasks -> {None, "ok", "threw"}] /\ ready'[t] = v
  /\ \A u \in Lab(case)!Tasks : u # t => ready'[u] = ready[u]

LEMMA TaskMoves ==
  ASSUME NEW case, LabTypes(case), NEW t \in Lab(case)!Tasks
  PROVE  /\ \A w \in TaskPcs : taskPc' = [taskPc EXCEPT ![t] = w] => Moved(case, t, w)
         /\ \A v \in {None, "ok", "threw"} : ready' = [ready EXCEPT ![t] = v] => Settled(case, t, v)
<1>1. taskPc \in [Lab(case)!Tasks -> TaskPcs] /\ ready \in [Lab(case)!Tasks -> {None, "ok", "threw"}]
  BY DEF LabTypes
<1>2. QED BY <1>1 DEF Moved, Settled

\* The three operations that close the active client: none of a click is under
\* way, or their own has failed.
LEMMA ShutKeeps ==
  ASSUME NEW case, Lab(case)!LabAssumption, LabInv(case), NEW o \in case.ops,
         NEW w \in {"clearing", "recovering", "disconnecting"},
         Moved(case, o, w), Shut(case, o, activeClient),
         \/ taskPc[o] = "new" /\ Lab(case)!Quiet /\ Lab(case)!MayClick /\ w # "recovering"
         \/ taskPc[o] \in {"clearing", "connecting"} /\ ready[o] = "threw" /\ w = "recovering",
         kind' \in [case.ops -> {None, "stdio", "http", "disconnect", "hydrate"}],
         w = "clearing" => status' = "connecting",
         w # "clearing" => status' = status,
         w = "disconnecting" => status = "connected",
         UNCHANGED <<activeClient, activeProcess, activeSession, process, info, catalog, target, record>>
  PROVE  LabInv(case)'
<1>1. /\ LabTypes(case) /\ ClosingInv(case) /\ Lab(case)!OneServer /\ o \in Lab(case)!Tasks
      /\ Lab(case)!Tasks = case.ops \cup case.calls /\ case.serial \in BOOLEAN
      /\ o \notin case.calls /\ None \notin case.ops \cup case.calls /\ None # "ok" /\ None # "threw"
  BY DEF LabInv, Lab!Tasks, Lab!LabAssumption
<1>2. PICK x : x = activeClient
  OBVIOUS
<1>3. /\ x = None \/ x \in case.ops
      /\ client \in [case.ops -> Clients] /\ ready \in [Lab(case)!Tasks -> {None, "ok", "threw"}]
  BY <1>1, <1>2 DEF LabTypes, Lab!TypeOK, Clients
<1>4. \A t \in Lab(case)!Tasks : t \in Lab(case)!Awaiters(x) =>
        \/ taskPc[t] = "connecting" /\ t = x
        \/ taskPc[t] \in {"listing", "calling"} /\ target[t] = x
  BY DEF Lab!Awaiters
<1>5. \A t \in Lab(case)!Tasks : taskPc[t] \in {"listing", "calling"} /\ target[t] = x => t \in Lab(case)!Awaiters(x)
  BY DEF Lab!Awaiters
<1>6. \A y \in case.ops : client[y] = "closing" => closer[y] # o
  BY <1>1, <1>3 DEF ClosingInv, Closes, Lab!Quiet
<1>7. LabTypes(case)'
  <2>1. \A t \in Lab(case)!Tasks : ready'[t] # None =>
          taskPc'[t] \in {"clearing", "connecting", "recovering", "disconnecting", "listing", "calling"}
    BY <1>1, <1>2, <1>4 DEF Moved, Shut, LabTypes, Lab!TypeOK
  <2>2. Lab(case)!TypeOK'
    BY <1>1, <2>1 DEF Moved, Shut, LabTypes, Lab!TypeOK, Clients
  <2>3. QED BY <1>1, <2>2 DEF Moved, Shut, LabTypes
<1>8. ClosingInv(case)'
  BY <1>1, <1>2, <1>3, <1>4, <1>6 DEF ClosingInv, Closes, Moved, Shut
<1>9. Lab(case)!OneServer'
  BY <1>1 DEF Lab!OneServer
<1>10. ASSUME case.serial PROVE TurnInv(case)'
  <2>1. /\ \A p, q \in case.ops : Busy(p) /\ Busy(q) => p = q
        /\ ClientInv(case) /\ MainInv(case) /\ ViewInv(case) /\ AskInv(case) /\ AnswerInv(case)
        /\ Lab(case)!CatalogIsOfServer /\ Lab(case)!HistoryTellsServer
    BY <1>10 DEF LabInv, TurnInv
  <2>2. \A p \in case.ops : Busy(p) => p = o
    BY <1>10, <2>1 DEF Lab!MayClick, Busy
  <2>3. \A p \in case.ops : Busy(p)' => p = o
    BY <1>1, <2>2 DEF Busy, Moved
  <2>4. \A y \in case.ops : client[y] # "closing"
    BY <1>1, <1>6, <2>2 DEF ClosingInv, Busy, Closes
  <2>5. \A y \in case.ops : client'[y] = client[y] \/ (y = x /\ client'[y] \in {"closing", "closed"})
    BY <1>2, <1>3 DEF Shut
  <2>6. ClientInv(case)'
    <3>1. x # None => client[x] # "none" /\ client'[x] # "none"
      BY <1>2, <1>3, <2>1, <2>5 DEF ClientInv
    <3>2. \A p \in case.ops : taskPc'[p] \in {"new", "clearing"} => client'[p] = "none"
      <4> SUFFICES ASSUME NEW p \in case.ops, taskPc'[p] \in {"new", "clearing"} PROVE client'[p] = "none"
        OBVIOUS
      <4>1. taskPc[p] \in {"new", "clearing"}
        BY <1>1 DEF Moved
      <4>2. client[p] = "none"
        BY <2>1, <4>1 DEF ClientInv
      <4>3. p # x
        BY <1>1, <3>1, <4>2
      <4>4. QED BY <2>5, <4>2, <4>3
    <3>3. \A p \in case.ops : client'[p] = "opening" => taskPc'[p] = "connecting"
      <4> SUFFICES ASSUME NEW p \in case.ops, client'[p] = "opening" PROVE taskPc'[p] = "connecting"
        OBVIOUS
      <4>1. client[p] = "opening" /\ taskPc[p] = "connecting"
        BY <2>1, <2>5 DEF ClientInv
      <4>2. p # o
        <5>1. ASSUME p = o PROVE FALSE
          <6>1. x = o
            BY <1>2, <2>1, <4>1, <5>1 DEF MainInv
          <6>2. client'[x] \in {"closing", "closed"}
            BY <1>1, <1>2, <4>1, <5>1, <6>1 DEF Shut
          <6>3. QED BY <5>1, <6>1, <6>2
        <5>2. QED BY <5>1
      <4>3. QED BY <1>1, <4>1, <4>2 DEF Moved
    <3>4. \A y \in case.ops : client'[y] = "closing" => y = x
      BY <2>4, <2>5
    <3>5. \A p \in case.ops : Closes(p)' /\ ready'[p] = "ok" => x = None \/ client'[x] = "closed"
      <4>1. \A p \in case.ops : Closes(p)' => p = o
        BY <2>3 DEF Closes, Busy
      <4>2. ready'[o] = "ok" => x = None \/ client'[x] = "closed"
        BY <1>1, <1>2, <1>3, <2>4 DEF Shut
      <4>3. QED BY <4>1, <4>2
    <3>6. QED BY <1>2, <3>1, <3>2, <3>3, <3>4, <3>5 DEF ClientInv, Closes
  <2>7. MainInv(case)'
    <3>1. \A p \in case.ops : taskPc'[p] # "connecting"
      BY <1>1, <2>3 DEF Moved, Busy
    <3>2. activeSession # None =>
            activeClient = activeSession /\ client'[activeSession] \in {"open", "closing", "closed"}
      BY <1>1, <1>2, <1>3, <2>1, <2>5 DEF MainInv
    <3>3. QED BY <3>1, <3>2 DEF MainInv
  <2>8. ViewInv(case)'
    <3>1. \A p \in case.ops : taskPc'[p] \in {"clearing", "connecting", "recovering", "disconnecting"} =>
            p = o /\ taskPc'[p] = w
      BY <2>3 DEF Busy, Moved
    <3>2. w = "recovering" => status = "connecting"
      BY <2>1 DEF ViewInv
    <3>3. status' = status \/ status' = "connecting"
      OBVIOUS
    <3>4. QED BY <2>1, <3>1, <3>2, <3>3 DEF ViewInv
  <2>9. AskInv(case)'
    <3>1. \A t \in Lab(case)!Tasks : Asks(t)' => Asks(t) /\ t # o
      BY <1>1 DEF Asks, Moved
    <3>2. \A t \in Lab(case)!Tasks : Asks(t)' =>
            /\ target[t] \in case.ops /\ client'[target[t]] \in {"open", "closing", "closed"}
            /\ target[t] = x \/ client'[target[t]] = "closed"
      BY <1>2, <2>1, <2>5, <3>1 DEF AskInv
    <3>3. \A c \in case.calls : taskPc'[c] = "calling" /\ ready'[c] = None => client'[target[c]] # "closed"
      <4> SUFFICES ASSUME NEW c \in case.calls, taskPc'[c] = "calling", ready'[c] = None
                   PROVE  client'[target[c]] # "closed"
        OBVIOUS
      <4>1. c # o /\ c \in Lab(case)!Tasks /\ taskPc[c] = "calling" /\ Asks(c)
        BY <1>1 DEF Moved, Asks
      <4>2. ready[c] = None
        BY <1>1, <1>2, <4>1 DEF Shut
      <4>3. target[c] \in case.ops /\ client[target[c]] # "closed"
        BY <2>1, <4>1, <4>2 DEF AskInv
      <4>4. CASE target[c] = x
        <5>1. c \in Lab(case)!Awaiters(x)
          BY <1>5, <4>1, <4>4
        <5>2. QED BY <1>1, <1>2, <2>4, <4>1, <4>3, <4>4, <5>1 DEF Shut
      <4>5. CASE target[c] # x
        BY <2>5, <4>3, <4>5
      <4>6. QED BY <4>4, <4>5
    <3>4. \A c \in case.calls : taskPc'[c] = "calling" /\ activeSession # None => target[c] = activeSession
      BY <1>1, <2>1 DEF AskInv, Moved
    <3>5. QED BY <1>2, <3>2, <3>3, <3>4 DEF AskInv, Asks
  <2>10. AnswerInv(case)'
    <3>1. \A p \in case.ops : ~(ready'[p] = "ok" /\ taskPc'[p] \in {"listing", "connecting"})
      <4> SUFFICES ASSUME NEW p \in case.ops, ready'[p] = "ok", taskPc'[p] \in {"listing", "connecting"}
                   PROVE  FALSE
        OBVIOUS
      <4>1. p # o /\ p \in Lab(case)!Tasks /\ taskPc[p] \in {"listing", "connecting"}
        BY <1>1 DEF Moved
      <4>2. ready[p] = "ok"
        BY <1>1, <1>2, <4>1 DEF Shut
      <4>3. ready[o] = None
        BY <1>1, <2>1, <4>1, <4>2 DEF AnswerInv
      <4>4. QED BY <1>1, <4>1, <4>2, <4>3 DEF Lab!Quiet
    <3>2. QED BY <3>1 DEF AnswerInv
  <2>11. Lab(case)!CatalogIsOfServer'
    BY <1>1, <2>1 DEF Lab!CatalogIsOfServer, Moved
  <2>12. Lab(case)!HistoryTellsServer'
    BY <2>1 DEF Lab!HistoryTellsServer
  <2>13. \A p, q \in case.ops : Busy(p)' /\ Busy(q)' => p = q
    BY <2>3
  <2>14. QED BY <2>6, <2>7, <2>8, <2>9, <2>10, <2>11, <2>12, <2>13 DEF TurnInv, Busy
<1>11. QED BY <1>7, <1>8, <1>9, <1>10 DEF LabInv

LEMMA LabFacts ==
  ASSUME NEW case, Lab(case)!LabAssumption, LabInv(case)
  PROVE  /\ LabTypes(case) /\ ClosingInv(case) /\ Lab(case)!OneServer
         /\ Lab(case)!Tasks = case.ops \cup case.calls /\ case.serial \in BOOLEAN
         /\ \A o \in case.ops : o \notin case.calls
         /\ None \notin case.ops \cup case.calls /\ None # "ok" /\ None # "threw" /\ None # "active"
         /\ client \in [case.ops -> Clients] /\ process \in [case.ops -> Processes]
         /\ ready \in [Lab(case)!Tasks -> {None, "ok", "threw"}] /\ taskPc \in [Lab(case)!Tasks -> TaskPcs]
         /\ activeClient = None \/ activeClient \in case.ops
         /\ activeSession = None \/ activeSession \in case.ops
         /\ case.serial => /\ \A p, q \in case.ops : Busy(p) /\ Busy(q) => p = q
                           /\ ClientInv(case) /\ MainInv(case) /\ ViewInv(case) /\ AskInv(case)
                           /\ AnswerInv(case) /\ Lab(case)!CatalogIsOfServer
                           /\ Lab(case)!HistoryTellsServer
<1>1. LabTypes(case) /\ ClosingInv(case) /\ Lab(case)!OneServer /\ (case.serial => TurnInv(case))
  BY DEF LabInv
<1>2. /\ Lab(case)!Tasks = case.ops \cup case.calls /\ case.serial \in BOOLEAN
      /\ \A o \in case.ops : o \notin case.calls
      /\ None \notin case.ops \cup case.calls /\ None # "ok" /\ None # "threw" /\ None # "active"
  BY DEF Lab!Tasks, Lab!LabAssumption
<1>3. /\ client \in [case.ops -> Clients] /\ process \in [case.ops -> Processes]
      /\ ready \in [Lab(case)!Tasks -> {None, "ok", "threw"}] /\ taskPc \in [Lab(case)!Tasks -> TaskPcs]
      /\ activeClient = None \/ activeClient \in case.ops
      /\ activeSession = None \/ activeSession \in case.ops
  BY <1>1 DEF LabTypes, Lab!TypeOK, Clients, Processes
<1>4. QED BY <1>1, <1>2, <1>3 DEF TurnInv

LEMMA ConnectKeeps ==
  ASSUME NEW case, Lab(case)!LabAssumption, LabInv(case), NEW o \in case.ops,
         \/ \E type \in {"stdio", "http"} : Lab(case)!Connect(o, type)
         \/ Lab(case)!Disconnect(o) \/ Lab(case)!Recover(o)
  PROVE  LabInv(case)'
<1>1. LabTypes(case) /\ o \in Lab(case)!Tasks /\ activeClient \in case.ops \cup {None}
  BY LabFacts
<1>2. kind \in [case.ops -> {None, "stdio", "http", "disconnect", "hydrate"}]
  BY <1>1 DEF LabTypes
<1>3. CASE \E type \in {"stdio", "http"} : Lab(case)!Connect(o, type)
  <2>1. PICK type \in {"stdio", "http"} : Lab(case)!Connect(o, type)
    BY <1>3
  <2>2. /\ Lab(case)!Quiet /\ taskPc[o] = "new" /\ Lab(case)!MayClick
        /\ taskPc' = [taskPc EXCEPT ![o] = "clearing"] /\ Lab(case)!Close(o, activeClient)
        /\ kind' = [kind EXCEPT ![o] = type] /\ status' = "connecting"
        /\ UNCHANGED <<activeClient, activeProcess, activeSession, process, info, catalog, target, record>>
    BY <2>1 DEF Lab!Connect, Lab!Goto, Lab!mainVars
  <2>3. kind' \in [case.ops -> {None, "stdio", "http", "disconnect", "hydrate"}]
    BY <1>2, <2>2
  <2>4. Shut(case, o, activeClient)
    BY <1>1, <2>2, CloseShuts
  <2>5. Moved(case, o, "clearing")
    BY <1>1, <2>2, TaskMoves DEF TaskPcs
  <2>6. QED BY <2>2, <2>3, <2>4, <2>5, ShutKeeps
<1>4. CASE Lab(case)!Disconnect(o)
  <2>1. /\ Lab(case)!Quiet /\ taskPc[o] = "new" /\ Lab(case)!MayClick /\ status = "connected"
        /\ taskPc' = [taskPc EXCEPT ![o] = "disconnecting"] /\ Lab(case)!Close(o, activeClient)
        /\ kind' = [kind EXCEPT ![o] = "disconnect"] /\ status' = status
        /\ UNCHANGED <<activeClient, activeProcess, activeSession, process, info, catalog, target, record>>
    BY <1>4 DEF Lab!Disconnect, Lab!Goto, Lab!mainVars, Lab!viewVars
  <2>2. kind' \in [case.ops -> {None, "stdio", "http", "disconnect", "hydrate"}]
    BY <1>2, <2>1
  <2>3. Shut(case, o, activeClient)
    BY <1>1, <2>1, CloseShuts
  <2>4. Moved(case, o, "disconnecting")
    BY <1>1, <2>1, TaskMoves DEF TaskPcs
  <2>5. QED BY <2>1, <2>2, <2>3, <2>4, ShutKeeps
<1>5. CASE Lab(case)!Recover(o)
  <2>1. /\ taskPc[o] \in {"clearing", "connecting"} /\ ready[o] = "threw"
        /\ taskPc' = [taskPc EXCEPT ![o] = "recovering"] /\ Lab(case)!Close(o, activeClient)
        /\ kind' = kind /\ status' = status
        /\ UNCHANGED <<activeClient, activeProcess, activeSession, process, info, catalog, target, record>>
    BY <1>5 DEF Lab!Recover, Lab!Goto, Lab!mainVars, Lab!viewVars
  <2>2. kind' \in [case.ops -> {None, "stdio", "http", "disconnect", "hydrate"}]
    BY <1>2, <2>1
  <2>3. Shut(case, o, activeClient)
    BY <1>1, <2>1, CloseShuts
  <2>4. Moved(case, o, "recovering")
    BY <1>1, <2>1, TaskMoves DEF TaskPcs
  <2>5. QED BY <2>1, <2>2, <2>3, <2>4, ShutKeeps
<1>6. QED BY <1>3, <1>4, <1>5

\* A listing or a call is answered, or out of time.
LEMMA AnswerKeeps ==
  ASSUME NEW case, Lab(case)!LabAssumption, LabInv(case), NEW t \in Lab(case)!Tasks,
         \/ t \in case.ops /\ Lab(case)!ListEnds(t)
         \/ t \in case.calls /\ Lab(case)!CallEnds(t)
  PROVE  LabInv(case)'
<1>1. PICK v \in {"ok", "threw"} :
        /\ (taskPc[t] = "listing" /\ t \in case.ops) \/ (taskPc[t] = "calling" /\ t \in case.calls)
        /\ v = "ok" => client[target[t]] \in {"open", "closing"}
        /\ Lab(case)!Quiet /\ ready' = [ready EXCEPT ![t] = v]
        /\ UNCHANGED <<activeClient, activeProcess, activeSession, client, process, status, info, catalog,
                       taskPc, kind, target, closer, record>>
  BY DEF Lab!ListEnds, Lab!CallEnds, Lab!mainVars, Lab!viewVars, Lab!taskVars
<1>2. /\ LabTypes(case) /\ ClosingInv(case) /\ Lab(case)!OneServer
      /\ Lab(case)!Tasks = case.ops \cup case.calls
      /\ \A o \in case.ops : o \notin case.calls
      /\ None # "ok" /\ None # "threw"
      /\ taskPc \in [Lab(case)!Tasks -> TaskPcs]
  BY LabFacts
<1>3. Settled(case, t, v)
  BY <1>1, <1>2, TaskMoves
<1>4. LabTypes(case)'
  <2>1. \A u \in Lab(case)!Tasks : ready'[u] # None =>
          taskPc'[u] \in {"clearing", "connecting", "recovering", "disconnecting", "listing", "calling"}
    BY <1>1, <1>2, <1>3 DEF Settled, LabTypes, Lab!TypeOK
  <2>2. Lab(case)!TypeOK'
    BY <1>1, <1>2, <2>1 DEF LabTypes, Lab!TypeOK
  <2>3. QED BY <1>1, <1>2, <1>3, <2>2 DEF Settled, LabTypes
<1>5. ClosingInv(case)'
  BY <1>1, <1>2, <1>3 DEF ClosingInv, Closes, Settled
<1>6. Lab(case)!OneServer'
  BY <1>1, <1>2 DEF Lab!OneServer
<1>7. ASSUME case.serial PROVE TurnInv(case)'
  <2>1. /\ \A p, q \in case.ops : Busy(p) /\ Busy(q) => p = q
        /\ ClientInv(case) /\ MainInv(case) /\ ViewInv(case) /\ AskInv(case)
        /\ AnswerInv(case) /\ Lab(case)!CatalogIsOfServer /\ Lab(case)!HistoryTellsServer
    BY <1>7, LabFacts
  <2>2. ClientInv(case)'
    BY <1>1, <1>2, <1>3, <2>1 DEF ClientInv, Closes, Settled
  <2>3. MainInv(case)' /\ ViewInv(case)'
    BY <1>1, <2>1 DEF MainInv, ViewInv
  <2>4. AskInv(case)'
    BY <1>1, <1>2, <1>3, <2>1 DEF AskInv, Asks, Settled
  <2>5. AnswerInv(case)'
    <3>1. \A p \in case.ops : ready'[p] = "ok" => p = t /\ v = "ok"
      BY <1>1, <1>2, <1>3 DEF Settled, Lab!Quiet
    <3>2. \A u \in Lab(case)!Tasks : u # t => ready'[u] = None
      BY <1>1, <1>3 DEF Settled, Lab!Quiet
    <3>3. QED BY <1>1, <1>2, <3>1, <3>2 DEF AnswerInv
  <2>6. Lab(case)!CatalogIsOfServer' /\ Lab(case)!HistoryTellsServer'
    BY <1>1, <2>1 DEF Lab!CatalogIsOfServer, Lab!HistoryTellsServer
  <2>7. (\A p, q \in case.ops : Busy(p) /\ Busy(q) => p = q)'
    BY <1>1, <2>1 DEF Busy
  <2>8. QED BY <2>2, <2>3, <2>4, <2>5, <2>6, <2>7 DEF TurnInv
<1>8. QED BY <1>4, <1>5, <1>6, <1>7 DEF LabInv

LEMMA CallToolKeepsLab ==
  ASSUME NEW case, Lab(case)!LabAssumption, LabInv(case), NEW c \in case.calls, Lab(case)!CallTool(c)
  PROVE  LabInv(case)'
<1>1. /\ LabTypes(case) /\ ClosingInv(case) /\ Lab(case)!OneServer
      /\ Lab(case)!Tasks = case.ops \cup case.calls /\ c \in Lab(case)!Tasks
      /\ \A o \in case.ops : o \notin case.calls /\ o # c
      /\ None # "ok" /\ None # "threw" /\ None \notin case.ops
      /\ activeClient = None \/ activeClient \in case.ops
      /\ ready \in [Lab(case)!Tasks -> {None, "ok", "threw"}]
  BY LabFacts
<1>2. /\ Lab(case)!Quiet /\ taskPc[c] = "new"
      /\ UNCHANGED <<activeClient, activeProcess, activeSession, client, process, status, info, catalog,
                     kind, closer, record>>
  BY DEF Lab!CallTool, Lab!mainVars, Lab!viewVars
<1>3. PICK w \in {"calling", "refused"} :
        /\ taskPc' = [taskPc EXCEPT ![c] = w]
        /\ w = "calling" => /\ activeClient # None /\ activeSession # None
                            /\ target' = [target EXCEPT ![c] = activeClient]
                            /\ ready' = [ready EXCEPT ![c] = IF client[activeClient] = "open" THEN None ELSE "threw"]
        /\ w = "refused" => target' = target /\ ready' = ready
  BY DEF Lab!CallTool, Lab!Goto
<1>4. Moved(case, c, w)
  <2>1. w \in TaskPcs
    BY DEF TaskPcs
  <2>2. \A x \in TaskPcs : taskPc' = [taskPc EXCEPT ![c] = x] => Moved(case, c, x)
    BY <1>1, TaskMoves
  <2>3. QED BY <1>3, <2>1, <2>2
<1>5. PICK v \in {None, "threw"} : Settled(case, c, v) /\ (w = "refused" => v = None)
                                   /\ (w = "calling" /\ v = None => client[activeClient] = "open")
  <2>1. CASE w = "refused"
    BY <1>1, <1>2, <1>3, <2>1 DEF Settled, Lab!Quiet
  <2>2. CASE w = "calling"
    <3>1. PICK v : v = IF client[activeClient] = "open" THEN None ELSE "threw"
      OBVIOUS
    <3>2. ready' = [ready EXCEPT ![c] = v] /\ v \in {None, "threw"}
      BY <1>3, <2>2, <3>1
    <3>3. Settled(case, c, v)
      <4>1. \A x \in {None, "ok", "threw"} : ready' = [ready EXCEPT ![c] = x] => Settled(case, c, x)
        BY <1>1, TaskMoves
      <4>2. QED BY <3>2, <4>1
    <3>4. QED BY <1>1, <2>2, <3>1, <3>2, <3>3
  <2>3. QED BY <2>1, <2>2
<1>6. /\ target' \in [Lab(case)!Tasks -> case.ops \cup {None}]
      /\ w = "calling" => target'[c] = activeClient
      /\ \A u \in Lab(case)!Tasks : u # c => target'[u] = target[u]
  BY <1>1, <1>3 DEF LabTypes
<1>7. LabTypes(case)'
  <2>1. \A u \in Lab(case)!Tasks : ready'[u] # None =>
          taskPc'[u] \in {"clearing", "connecting", "recovering", "disconnecting", "listing", "calling"}
    BY <1>1, <1>4, <1>5 DEF Settled, Moved, LabTypes, Lab!TypeOK
  <2>2. \A u \in case.calls : record'[u] # None <=> taskPc'[u] = "recorded"
    BY <1>1, <1>2, <1>4 DEF Moved, LabTypes, Lab!TypeOK
  <2>3. Lab(case)!TypeOK'
    BY <1>1, <1>2, <2>1, <2>2 DEF LabTypes, Lab!TypeOK
  <2>4. QED BY <1>1, <1>2, <1>4, <1>5, <1>6, <2>3 DEF Settled, Moved, LabTypes
<1>8. ClosingInv(case)'
  BY <1>1, <1>2, <1>4, <1>5 DEF ClosingInv, Closes, Settled, Moved
<1>9. Lab(case)!OneServer'
  BY <1>1, <1>2 DEF Lab!OneServer
<1>10. ASSUME case.serial PROVE TurnInv(case)'
  <2>1. /\ \A p, q \in case.ops : Busy(p) /\ Busy(q) => p = q
        /\ ClientInv(case) /\ MainInv(case) /\ ViewInv(case) /\ AskInv(case)
        /\ AnswerInv(case) /\ Lab(case)!CatalogIsOfServer /\ Lab(case)!HistoryTellsServer
    BY <1>10, LabFacts
  <2>2. \A o \in case.ops : taskPc'[o] = taskPc[o] /\ ready'[o] = None /\ target'[o] = target[o]
    BY <1>1, <1>2, <1>4, <1>5, <1>6 DEF Moved, Settled, Lab!Quiet
  <2>3. ClientInv(case)'
    BY <1>1, <1>2, <2>1, <2>2 DEF ClientInv, Closes
  <2>4. MainInv(case)' /\ ViewInv(case)'
    BY <1>2, <2>1, <2>2 DEF MainInv, ViewInv
  <2>5. AskInv(case)'
    <3>1. w = "calling" => /\ activeClient \in case.ops /\ activeSession # None
                           /\ activeClient = activeSession /\ client[activeClient] \in {"open", "closing", "closed"}
      BY <1>1, <1>3, <2>1 DEF MainInv
    <3>2. \A t \in Lab(case)!Tasks : Asks(t)' =>
            /\ target'[t] \in case.ops /\ client[target'[t]] \in {"open", "closing", "closed"}
            /\ target'[t] = activeClient \/ client[target'[t]] = "closed"
      BY <1>1, <1>4, <1>6, <2>1, <3>1 DEF AskInv, Asks, Moved
    <3>3. \A d \in case.calls : taskPc'[d] = "calling" =>
            /\ ready'[d] = None => client[target'[d]] # "closed"
            /\ activeSession # None => target'[d] = activeSession
      BY <1>1, <1>4, <1>5, <1>6, <2>1, <3>1 DEF AskInv, Moved, Settled
    <3>4. QED BY <1>2, <3>2, <3>3 DEF AskInv, Asks
  <2>6. AnswerInv(case)'
    BY <1>1, <2>2 DEF AnswerInv
  <2>7. Lab(case)!CatalogIsOfServer'
    BY <1>2, <2>1, <2>2 DEF Lab!CatalogIsOfServer
  <2>8. Lab(case)!HistoryTellsServer'
    <3>1. record[c] = None
      BY <1>1, <1>2 DEF LabTypes, Lab!TypeOK
    <3>2. QED BY <1>1, <1>2, <1>6, <2>1, <3>1 DEF Lab!HistoryTellsServer
  <2>9. (\A p, q \in case.ops : Busy(p) /\ Busy(q) => p = q)'
    BY <2>1, <2>2 DEF Busy
  <2>10. QED BY <2>3, <2>4, <2>5, <2>6, <2>7, <2>8, <2>9 DEF TurnInv
<1>11. QED BY <1>7, <1>8, <1>9, <1>10 DEF LabInv

LEMMA RecordToolCallKeeps ==
  ASSUME NEW case, Lab(case)!LabAssumption, LabInv(case), NEW c \in case.calls, Lab(case)!RecordToolCall(c)
  PROVE  LabInv(case)'
<1>1. /\ LabTypes(case) /\ ClosingInv(case) /\ Lab(case)!OneServer
      /\ Lab(case)!Tasks = case.ops \cup case.calls /\ c \in Lab(case)!Tasks
      /\ \A o \in case.ops : o \notin case.calls /\ o # c
      /\ None # "ok" /\ None # "threw" /\ None # "active" /\ None \notin case.ops
      /\ activeSession = None \/ activeSession \in case.ops
  BY LabFacts
<1>2. PICK s : s = IF activeSession # None THEN activeSession ELSE "active"
  OBVIOUS
<1>3. /\ taskPc[c] = "calling" /\ record' = [record EXCEPT ![c] = s]
      /\ ready' = [ready EXCEPT ![c] = None] /\ taskPc' = [taskPc EXCEPT ![c] = "recorded"]
      /\ UNCHANGED <<activeClient, activeProcess, activeSession, client, process, status, info, catalog,
                     kind, target, closer>>
  BY <1>2 DEF Lab!RecordToolCall, Lab!mainVars, Lab!viewVars, Lab!Goto
<1>4. Moved(case, c, "recorded") /\ Settled(case, c, None)
  BY <1>1, <1>3, TaskMoves DEF TaskPcs
<1>5. /\ s \in case.ops \cup {"active"} /\ s # None
      /\ record' \in [case.calls -> case.ops \cup {None, "active"}] /\ record'[c] = s
      /\ \A d \in case.calls : d # c => record'[d] = record[d]
  BY <1>1, <1>2, <1>3 DEF LabTypes
<1>6. LabTypes(case)'
  <2>1. \A u \in Lab(case)!Tasks : ready'[u] # None =>
          taskPc'[u] \in {"clearing", "connecting", "recovering", "disconnecting", "listing", "calling"}
    BY <1>1, <1>4 DEF Settled, Moved, LabTypes, Lab!TypeOK
  <2>2. \A u \in case.calls : record'[u] # None <=> taskPc'[u] = "recorded"
    BY <1>1, <1>4, <1>5 DEF Moved, LabTypes, Lab!TypeOK
  <2>3. Lab(case)!TypeOK'
    BY <1>1, <1>3, <2>1, <2>2 DEF LabTypes, Lab!TypeOK
  <2>4. QED BY <1>1, <1>3, <1>4, <1>5, <2>3 DEF Settled, Moved, LabTypes
<1>7. ClosingInv(case)'
  BY <1>1, <1>3, <1>4 DEF ClosingInv, Closes, Settled, Moved
<1>8. Lab(case)!OneServer'
  BY <1>1, <1>3 DEF Lab!OneServer
<1>9. ASSUME case.serial PROVE TurnInv(case)'
  <2>1. /\ \A p, q \in case.ops : Busy(p) /\ Busy(q) => p = q
        /\ ClientInv(case) /\ MainInv(case) /\ ViewInv(case) /\ AskInv(case)
        /\ AnswerInv(case) /\ Lab(case)!CatalogIsOfServer /\ Lab(case)!HistoryTellsServer
    BY <1>9, LabFacts
  <2>2. \A o \in case.ops : taskPc'[o] = taskPc[o] /\ ready'[o] = ready[o]
    BY <1>1, <1>4 DEF Moved, Settled
  <2>3. ClientInv(case)'
    BY <1>1, <1>3, <2>1, <2>2 DEF ClientInv, Closes
  <2>4. MainInv(case)' /\ ViewInv(case)'
    BY <1>3, <2>1, <2>2 DEF MainInv, ViewInv
  <2>5. AskInv(case)'
    BY <1>1, <1>3, <1>4, <2>1 DEF AskInv, Asks, Moved, Settled
  <2>6. AnswerInv(case)'
    BY <1>1, <1>3, <1>4, <2>1, <2>2 DEF AnswerInv, Settled
  <2>7. Lab(case)!CatalogIsOfServer'
    BY <1>3, <2>1, <2>2 DEF Lab!CatalogIsOfServer
  <2>8. Lab(case)!HistoryTellsServer'
    <3>1. activeSession # None => target[c] = activeSession
      BY <1>3, <2>1 DEF AskInv
    <3>2. QED BY <1>2, <1>3, <1>5, <2>1, <3>1 DEF Lab!HistoryTellsServer
  <2>9. (\A p, q \in case.ops : Busy(p) /\ Busy(q) => p = q)'
    BY <2>1, <2>2 DEF Busy
  <2>10. QED BY <2>3, <2>4, <2>5, <2>6, <2>7, <2>8, <2>9 DEF TurnInv
<1>10. QED BY <1>6, <1>7, <1>8, <1>9 DEF LabInv

LEMMA ShowCatalogKeeps ==
  ASSUME NEW case, Lab(case)!LabAssumption, LabInv(case), NEW o \in case.ops, Lab(case)!ShowCatalog(o)
  PROVE  LabInv(case)'
<1>1. /\ LabTypes(case) /\ ClosingInv(case) /\ Lab(case)!OneServer
      /\ Lab(case)!Tasks = case.ops \cup case.calls /\ o \in Lab(case)!Tasks
      /\ \A c \in case.calls : c \notin case.ops /\ o # c
      /\ None # "ok" /\ None # "threw" /\ None \notin case.ops
  BY LabFacts
<1>2. /\ taskPc[o] = "listing" /\ ready[o] # None
      /\ catalog' = IF ready[o] = "ok" THEN target[o] ELSE None
      /\ ready' = [ready EXCEPT ![o] = None] /\ taskPc' = [taskPc EXCEPT ![o] = "done"]
      /\ UNCHANGED <<activeClient, activeProcess, activeSession, client, process, status, info,
                     kind, target, closer, record>>
  BY DEF Lab!ShowCatalog, Lab!mainVars, Lab!Goto
<1>3. Moved(case, o, "done") /\ Settled(case, o, None)
  BY <1>1, <1>2, TaskMoves DEF TaskPcs
<1>4. catalog' \in case.ops \cup {None}
  BY <1>1, <1>2 DEF LabTypes
<1>5. LabTypes(case)'
  <2>1. \A u \in Lab(case)!Tasks : ready'[u] # None =>
          taskPc'[u] \in {"clearing", "connecting", "recovering", "disconnecting", "listing", "calling"}
    BY <1>1, <1>3 DEF Settled, Moved, LabTypes, Lab!TypeOK
  <2>2. \A u \in case.calls : record'[u] # None <=> taskPc'[u] = "recorded"
    BY <1>1, <1>2, <1>3 DEF Moved, LabTypes, Lab!TypeOK
  <2>3. Lab(case)!TypeOK'
    BY <1>1, <1>2, <1>4, <2>1, <2>2 DEF LabTypes, Lab!TypeOK
  <2>4. QED BY <1>1, <1>2, <1>3, <2>3 DEF Settled, Moved, LabTypes
<1>6. ClosingInv(case)'
  BY <1>1, <1>2, <1>3 DEF ClosingInv, Closes, Settled, Moved
<1>7. Lab(case)!OneServer'
  BY <1>1, <1>2 DEF Lab!OneServer
<1>8. ASSUME case.serial PROVE TurnInv(case)'
  <2>1. /\ \A p, q \in case.ops : Busy(p) /\ Busy(q) => p = q
        /\ ClientInv(case) /\ MainInv(case) /\ ViewInv(case) /\ AskInv(case)
        /\ AnswerInv(case) /\ Lab(case)!CatalogIsOfServer /\ Lab(case)!HistoryTellsServer
    BY <1>8, LabFacts
  <2>2. \A p \in case.ops : p # o => taskPc'[p] = taskPc[p] /\ ready'[p] = ready[p]
    BY <1>1, <1>3 DEF Moved, Settled
  <2>3. taskPc'[o] = "done" /\ ready'[o] = None
    BY <1>3 DEF Moved, Settled
  <2>4. ClientInv(case)'
    BY <1>1, <1>2, <2>1, <2>2, <2>3 DEF ClientInv, Closes
  <2>5. MainInv(case)' /\ ViewInv(case)'
    BY <1>2, <2>1, <2>2, <2>3 DEF MainInv, ViewInv
  <2>6. AskInv(case)'
    BY <1>1, <1>2, <1>3, <2>1 DEF AskInv, Asks, Moved, Settled
  <2>7. AnswerInv(case)'
    BY <1>1, <1>2, <1>3, <2>1, <2>2, <2>3 DEF AnswerInv, Settled
  <2>8. Lab(case)!CatalogIsOfServer'
    <3>1. status = "connected" => info # None /\ activeSession = info /\ activeClient = info
      BY <2>1 DEF ViewInv, MainInv
    <3>2. ready[o] = "ok" => client[target[o]] \in {"open", "closing"}
      BY <1>2, <2>1 DEF AnswerInv
    <3>3. target[o] = activeClient \/ client[target[o]] = "closed"
      BY <1>1, <1>2, <2>1 DEF AskInv, Asks
    <3>4. QED BY <1>2, <3>1, <3>2, <3>3 DEF Lab!CatalogIsOfServer
  <2>9. Lab(case)!HistoryTellsServer'
    BY <1>2, <2>1 DEF Lab!HistoryTellsServer
  <2>10. (\A p, q \in case.ops : Busy(p) /\ Busy(q) => p = q)'
    BY <2>1, <2>2, <2>3 DEF Busy
  <2>11. QED BY <2>4, <2>5, <2>6, <2>7, <2>8, <2>9, <2>10 DEF TurnInv
<1>9. QED BY <1>5, <1>6, <1>7, <1>8 DEF LabInv

LEMMA HydrateKeeps ==
  ASSUME NEW case, Lab(case)!LabAssumption, LabInv(case), NEW o \in case.ops, Lab(case)!Hydrate(o)
  PROVE  LabInv(case)'
<1>1. /\ LabTypes(case) /\ ClosingInv(case) /\ Lab(case)!OneServer
      /\ Lab(case)!Tasks = case.ops \cup case.calls /\ o \in Lab(case)!Tasks
      /\ \A c \in case.calls : c \notin case.ops /\ o # c
      /\ None # "ok" /\ None # "threw" /\ None \notin case.ops
      /\ activeClient = None \/ activeClient \in case.ops
      /\ activeSession = None \/ activeSession \in case.ops
  BY LabFacts
<1>2. /\ Lab(case)!Quiet /\ taskPc[o] = "new" /\ Lab(case)!MayClick
      /\ kind' = [kind EXCEPT ![o] = "hydrate"]
      /\ status' = IF activeSession # None THEN "connected" ELSE "idle"
      /\ info' = activeSession
      /\ UNCHANGED <<activeClient, activeProcess, activeSession, client, process, ready, closer, record>>
  BY DEF Lab!Hydrate, Lab!mainVars
<1>3. PICK w \in {"listing", "done"} :
        /\ taskPc' = [taskPc EXCEPT ![o] = w]
        /\ w = "listing" => /\ activeSession # None /\ activeClient # None
                            /\ target' = [target EXCEPT ![o] = activeClient] /\ catalog' = catalog
        /\ w = "done" => (activeSession = None \/ activeClient = None) /\ catalog' = None /\ target' = target
  BY DEF Lab!Hydrate, Lab!List, Lab!Goto
<1>4. Moved(case, o, w)
  <2>1. w \in TaskPcs
    BY DEF TaskPcs
  <2>2. \A x \in TaskPcs : taskPc' = [taskPc EXCEPT ![o] = x] => Moved(case, o, x)
    BY <1>1, TaskMoves
  <2>3. QED BY <1>3, <2>1, <2>2
<1>5. /\ target' \in [Lab(case)!Tasks -> case.ops \cup {None}]
      /\ w = "listing" => target'[o] = activeClient
      /\ \A u \in Lab(case)!Tasks : u # o => target'[u] = target[u]
  BY <1>1, <1>3 DEF LabTypes
<1>6. kind' \in [case.ops -> {None, "stdio", "http", "disconnect", "hydrate"}]
  BY <1>1, <1>2 DEF LabTypes
<1>7. LabTypes(case)'
  <2>1. \A u \in Lab(case)!Tasks : ready'[u] # None =>
          taskPc'[u] \in {"clearing", "connecting", "recovering", "disconnecting", "listing", "calling"}
    BY <1>1, <1>2, <1>4 DEF Moved, LabTypes, Lab!TypeOK
  <2>2. \A u \in case.calls : record'[u] # None <=> taskPc'[u] = "recorded"
    BY <1>1, <1>2, <1>4 DEF Moved, LabTypes, Lab!TypeOK
  <2>3. catalog' \in case.ops \cup {None} /\ status' \in {"connected", "idle"}
    BY <1>1, <1>2, <1>3 DEF LabTypes, Lab!TypeOK
  <2>4. Lab(case)!TypeOK'
    BY <1>1, <1>2, <2>1, <2>2, <2>3 DEF LabTypes, Lab!TypeOK
  <2>5. QED BY <1>1, <1>2, <1>3, <1>4, <1>5, <1>6, <2>4 DEF Moved, LabTypes
<1>8. ClosingInv(case)'
  BY <1>1, <1>2, <1>4 DEF ClosingInv, Closes, Moved
<1>9. Lab(case)!OneServer'
  BY <1>1, <1>2 DEF Lab!OneServer
<1>10. ASSUME case.serial PROVE TurnInv(case)'
  <2>1. /\ \A p, q \in case.ops : Busy(p) /\ Busy(q) => p = q
        /\ ClientInv(case) /\ MainInv(case) /\ ViewInv(case) /\ AskInv(case)
        /\ AnswerInv(case) /\ Lab(case)!CatalogIsOfServer /\ Lab(case)!HistoryTellsServer
    BY <1>10, LabFacts
  <2>2. \A p \in case.ops : p # o => taskPc'[p] = taskPc[p]
    BY <1>1, <1>4 DEF Moved
  <2>3. taskPc'[o] = w
    BY <1>4 DEF Moved
  <2>4. \A p \in case.ops : ~Busy(p) /\ ~Busy(p)'
    BY <1>2, <1>3, <1>10, <2>2, <2>3 DEF Busy, Lab!MayClick
  <2>5. ClientInv(case)'
    BY <1>1, <1>2, <2>1, <2>2, <2>3, <2>4 DEF ClientInv, Closes, Busy
  <2>6. MainInv(case)'
    BY <1>2, <2>1, <2>4 DEF MainInv, Busy
  <2>7. ViewInv(case)'
    BY <1>2, <2>4 DEF ViewInv, Busy
  <2>8. AskInv(case)'
    <3>1. w = "listing" => activeClient \in case.ops /\ client[activeClient] \in {"open", "closing", "closed"}
      BY <1>1, <1>3, <2>1 DEF MainInv
    <3>2. \A t \in Lab(case)!Tasks : Asks(t)' =>
            /\ target'[t] \in case.ops /\ client[target'[t]] \in {"open", "closing", "closed"}
            /\ target'[t] = activeClient \/ client[target'[t]] = "closed"
      BY <1>1, <1>3, <1>4, <1>5, <2>1, <3>1 DEF AskInv, Asks, Moved
    <3>3. \A d \in case.calls : taskPc'[d] = "calling" =>
            /\ ready[d] = None => client[target'[d]] # "closed"
            /\ activeSession # None => target'[d] = activeSession
      BY <1>1, <1>4, <1>5, <2>1 DEF AskInv, Moved
    <3>4. QED BY <1>2, <3>2, <3>3 DEF AskInv, Asks
  <2>9. AnswerInv(case)'
    BY <1>1, <1>2 DEF AnswerInv, Lab!Quiet
  <2>10. Lab(case)!CatalogIsOfServer'
    BY <1>2, <1>3, <2>1, <2>3 DEF Lab!CatalogIsOfServer, MainInv
  <2>11. Lab(case)!HistoryTellsServer'
    BY <1>1, <1>2, <1>5, <2>1 DEF Lab!HistoryTellsServer
  <2>12. (\A p, q \in case.ops : Busy(p) /\ Busy(q) => p = q)'
    BY <2>4
  <2>13. QED BY <2>5, <2>6, <2>7, <2>8, <2>9, <2>10, <2>11, <2>12 DEF TurnInv
<1>11. QED BY <1>7, <1>8, <1>9, <1>10 DEF LabInv

LEMMA CloseEndsKeeps ==
  ASSUME NEW case, Lab(case)!LabAssumption, LabInv(case), NEW x \in case.ops, Lab(case)!CloseEnds(x)
  PROVE  LabInv(case)'
<1>1. /\ LabTypes(case) /\ ClosingInv(case) /\ Lab(case)!OneServer
      /\ Lab(case)!Tasks = case.ops \cup case.calls
      /\ \A c \in case.calls : c \notin case.ops
      /\ None # "ok" /\ None # "threw" /\ None \notin case.ops
      /\ client \in [case.ops -> Clients] /\ ready \in [Lab(case)!Tasks -> {None, "ok", "threw"}]
      /\ activeSession = None \/ activeSession \in case.ops
  BY LabFacts
<1>2. PICK o, v : /\ o = closer[x] /\ v \in {"ok", "threw"}
                  /\ ready' = [t \in Lab(case)!Tasks |-> IF t = o THEN v
                                                         ELSE IF t \in Lab(case)!Awaiters(x) THEN "threw" ELSE ready[t]]
  BY DEF Lab!CloseEnds
<1>3. /\ Lab(case)!Quiet /\ client[x] = "closing" /\ client' = [client EXCEPT ![x] = "closed"]
      /\ UNCHANGED <<activeClient, activeProcess, activeSession, process, status, info, catalog,
                     taskPc, kind, target, closer, record>>
  BY DEF Lab!CloseEnds, Lab!mainVars, Lab!viewVars, Lab!taskVars
<1>4. o \in case.ops /\ Closes(o) /\ o \in Lab(case)!Tasks
  BY <1>1, <1>2, <1>3 DEF ClosingInv
<1>5. \A t \in Lab(case)!Tasks : t \in Lab(case)!Awaiters(x) <=>
        \/ taskPc[t] = "connecting" /\ t = x
        \/ taskPc[t] \in {"listing", "calling"} /\ target[t] = x
  BY <1>1 DEF Lab!Awaiters
<1>6. /\ client' \in [case.ops -> Clients] /\ client'[x] = "closed"
      /\ \A y \in case.ops : y # x => client'[y] = client[y]
  BY <1>1, <1>3 DEF Clients
<1>7. /\ ready' \in [Lab(case)!Tasks -> {None, "ok", "threw"}] /\ ready'[o] = v
      /\ \A t \in Lab(case)!Tasks : t # o => ready'[t] = IF t \in Lab(case)!Awaiters(x) THEN "threw" ELSE None
  BY <1>1, <1>2, <1>3, <1>4 DEF Lab!Quiet
<1>8. LabTypes(case)'
  <2>1. \A u \in Lab(case)!Tasks : ready'[u] # None =>
          taskPc'[u] \in {"clearing", "connecting", "recovering", "disconnecting", "listing", "calling"}
    BY <1>3, <1>4, <1>5, <1>7 DEF Closes
  <2>2. Lab(case)!TypeOK'
    BY <1>1, <1>3, <1>6, <2>1 DEF LabTypes, Lab!TypeOK, Clients
  <2>3. QED BY <1>1, <1>3, <1>7, <2>2 DEF LabTypes
<1>9. ClosingInv(case)'
  <2>1. \A y \in case.ops : client'[y] = "closing" => y # x /\ client[y] = "closing" /\ closer[y] # o
    BY <1>1, <1>2, <1>3, <1>6 DEF ClosingInv
  <2>2. \A p \in case.ops : Closes(p) => p \notin Lab(case)!Awaiters(x)
    BY <1>1, <1>5 DEF Closes
  <2>3. \A y \in case.ops : client'[y] = "closing" =>
          closer[y] \in case.ops /\ Closes(closer[y]) /\ ready'[closer[y]] = None
    BY <1>1, <1>7, <2>1, <2>2 DEF ClosingInv
  <2>4. QED BY <1>1, <1>3, <2>1, <2>3 DEF ClosingInv, Closes
<1>10. Lab(case)!OneServer'
  BY <1>1, <1>3 DEF Lab!OneServer
<1>11. ASSUME case.serial PROVE TurnInv(case)'
  <2>1. /\ \A p, q \in case.ops : Busy(p) /\ Busy(q) => p = q
        /\ ClientInv(case) /\ MainInv(case) /\ ViewInv(case) /\ AskInv(case)
        /\ AnswerInv(case) /\ Lab(case)!CatalogIsOfServer /\ Lab(case)!HistoryTellsServer
    BY <1>11, LabFacts
  <2>2. x = activeClient /\ \A p \in case.ops : Busy(p) => p = o
    BY <1>3, <1>4, <2>1 DEF ClientInv, Closes, Busy
  <2>3. ClientInv(case)'
    BY <1>1, <1>3, <1>6, <2>1, <2>2 DEF ClientInv, Closes
  <2>4. MainInv(case)'
    BY <1>1, <1>3, <1>6, <2>1 DEF MainInv
  <2>5. ViewInv(case)'
    BY <1>3, <2>1 DEF ViewInv
  <2>6. AskInv(case)'
    <3>1. \A t \in Lab(case)!Tasks : Asks(t)' =>
            /\ target[t] \in case.ops /\ client'[target[t]] \in {"open", "closing", "closed"}
            /\ target[t] = activeClient \/ client'[target[t]] = "closed"
      BY <1>3, <1>6, <2>1 DEF AskInv, Asks
    <3>2. \A c \in case.calls : taskPc[c] = "calling" /\ ready'[c] = None => client'[target[c]] # "closed"
      <4> SUFFICES ASSUME NEW c \in case.calls, taskPc[c] = "calling", ready'[c] = None
                   PROVE  client'[target[c]] # "closed"
        OBVIOUS
      <4>1. c # o /\ c \in Lab(case)!Tasks /\ Asks(c) /\ ready[c] = None
        BY <1>1, <1>3, <1>4 DEF Asks, Lab!Quiet
      <4>2. target[c] # x
        BY <1>1, <1>5, <1>7, <4>1
      <4>3. target[c] \in case.ops /\ client[target[c]] # "closed"
        BY <2>1, <4>1 DEF AskInv
      <4>4. QED BY <1>6, <4>2, <4>3
    <3>3. \A c \in case.calls : taskPc[c] = "calling" /\ activeSession # None => target[c] = activeSession
      BY <2>1 DEF AskInv
    <3>4. QED BY <1>3, <3>1, <3>2, <3>3 DEF AskInv, Asks
  <2>7. AnswerInv(case)'
    <3>1. \A p \in case.ops : ready'[p] = "ok" => p = o
      BY <1>1, <1>7
    <3>2. taskPc'[o] \notin {"listing", "connecting"}
      BY <1>3, <1>4 DEF Closes
    <3>3. QED BY <3>1, <3>2 DEF AnswerInv
  <2>8. Lab(case)!CatalogIsOfServer' /\ Lab(case)!HistoryTellsServer'
    BY <1>3, <2>1 DEF Lab!CatalogIsOfServer, Lab!HistoryTellsServer
  <2>9. (\A p, q \in case.ops : Busy(p) /\ Busy(q) => p = q)'
    BY <1>3, <2>1 DEF Busy
  <2>10. QED BY <2>3, <2>4, <2>5, <2>6, <2>7, <2>8, <2>9 DEF TurnInv
<1>12. QED BY <1>8, <1>9, <1>10, <1>11 DEF LabInv

LEMMA ServerExitsKeeps ==
  ASSUME NEW case, Lab(case)!LabAssumption, LabInv(case), NEW x \in case.ops, Lab(case)!ServerExits(x)
  PROVE  LabInv(case)'
<1>1. /\ LabTypes(case) /\ ClosingInv(case) /\ Lab(case)!OneServer
      /\ Lab(case)!Tasks = case.ops \cup case.calls
      /\ \A c \in case.calls : c \notin case.ops
      /\ None # "ok" /\ None # "threw" /\ None \notin case.ops
      /\ client \in [case.ops -> Clients] /\ process \in [case.ops -> Processes]
      /\ ready \in [Lab(case)!Tasks -> {None, "ok", "threw"}]
      /\ activeSession = None \/ activeSession \in case.ops
  BY LabFacts
<1>2. /\ Lab(case)!Quiet /\ process' = [process EXCEPT ![x] = "exited"]
      /\ UNCHANGED <<activeClient, activeProcess, activeSession, status, info, catalog,
                     taskPc, kind, target, closer, record>>
  BY DEF Lab!ServerExits, Lab!mainVars, Lab!viewVars, Lab!taskVars
<1>3. \A t \in Lab(case)!Tasks : t \in Lab(case)!Awaiters(x) <=>
        \/ taskPc[t] = "connecting" /\ t = x
        \/ taskPc[t] \in {"listing", "calling"} /\ target[t] = x
  BY <1>1 DEF Lab!Awaiters
<1>4. /\ client' \in [case.ops -> Clients] /\ ready' \in [Lab(case)!Tasks -> {None, "ok", "threw"}]
      /\ \A y \in case.ops : client'[y] = client[y] \/ (y = x /\ client[x] \in {"opening", "open"} /\ client'[x] = "closed")
      /\ \A t \in Lab(case)!Tasks : \/ ready'[t] = None
                                    \/ t \in Lab(case)!Awaiters(x) /\ ready'[t] = "threw"
      /\ client'[x] # client[x] => \A t \in Lab(case)!Awaiters(x) : t \in Lab(case)!Tasks => ready'[t] = "threw"
  <2>1. CASE client[x] \in {"opening", "open"}
    <3>1. client' = [client EXCEPT ![x] = "closed"]
      BY <2>1 DEF Lab!ServerExits
    <3>2. ready' = [t \in Lab(case)!Tasks |-> IF t \in Lab(case)!Awaiters(x) THEN "threw" ELSE ready[t]]
      BY <2>1 DEF Lab!ServerExits
    <3>3. client' \in [case.ops -> Clients] /\ client'[x] = "closed" /\ \A y \in case.ops : y # x => client'[y] = client[y]
      BY <1>1, <3>1 DEF Clients
    <3>4. QED BY <1>1, <1>2, <2>1, <3>2, <3>3 DEF Lab!Quiet
  <2>2. CASE client[x] \notin {"opening", "open"}
    <3>1. client' = client /\ ready' = ready
      BY <2>2 DEF Lab!ServerExits
    <3>2. QED BY <1>1, <1>2, <3>1 DEF Lab!Quiet
  <2>3. QED BY <2>1, <2>2
<1>5. /\ process' \in [case.ops -> Processes] /\ process'[x] = "exited"
      /\ \A y \in case.ops : y # x => process'[y] = process[y]
  BY <1>1, <1>2 DEF Processes
<1>6. LabTypes(case)'
  <2>1. \A u \in Lab(case)!Tasks : ready'[u] # None =>
          taskPc'[u] \in {"clearing", "connecting", "recovering", "disconnecting", "listing", "calling"}
    BY <1>2, <1>3, <1>4
  <2>2. Lab(case)!TypeOK'
    BY <1>1, <1>2, <1>4, <1>5, <2>1 DEF LabTypes, Lab!TypeOK, Clients, Processes
  <2>3. QED BY <1>1, <1>2, <1>4, <2>2 DEF LabTypes
<1>7. ClosingInv(case)'
  <2>1. \A y \in case.ops : client'[y] = "closing" => client[y] = "closing"
    BY <1>4
  <2>2. \A p \in case.ops : Closes(p) => ready'[p] = None
    BY <1>1, <1>3, <1>4 DEF Closes
  <2>3. QED BY <1>1, <1>2, <2>1, <2>2 DEF ClosingInv, Closes
<1>8. Lab(case)!OneServer'
  BY <1>1, <1>2, <1>5 DEF Lab!OneServer
<1>9. ASSUME case.serial PROVE TurnInv(case)'
  <2>1. /\ \A p, q \in case.ops : Busy(p) /\ Busy(q) => p = q
        /\ ClientInv(case) /\ MainInv(case) /\ ViewInv(case) /\ AskInv(case)
        /\ AnswerInv(case) /\ Lab(case)!CatalogIsOfServer /\ Lab(case)!HistoryTellsServer
    BY <1>9, LabFacts
  <2>2. \A p \in Lab(case)!Tasks : ready'[p] # "ok"
    BY <1>1, <1>4
  <2>3. ClientInv(case)'
    <3>1. \A p \in case.ops : ready'[p] # "ok"
      BY <1>1, <2>2
    <3>2. activeClient # None => client'[activeClient] # "none"
      BY <1>1, <1>4, <2>1 DEF ClientInv, LabTypes, Lab!TypeOK
    <3>3. \A p \in case.ops : taskPc[p] \in {"new", "clearing"} => client'[p] = "none"
      BY <1>4, <2>1 DEF ClientInv
    <3>4. \A p \in case.ops : client'[p] \in {"opening", "closing"} => client'[p] = client[p]
      BY <1>4
    <3>5. QED BY <1>2, <2>1, <3>1, <3>2, <3>3, <3>4 DEF ClientInv
  <2>4. MainInv(case)'
    BY <1>1, <1>2, <1>4, <2>1 DEF MainInv
  <2>5. ViewInv(case)'
    BY <1>2, <2>1 DEF ViewInv
  <2>6. AskInv(case)'
    <3>1. \A t \in Lab(case)!Tasks : Asks(t)' =>
            /\ target[t] \in case.ops /\ client'[target[t]] \in {"open", "closing", "closed"}
            /\ target[t] = activeClient \/ client'[target[t]] = "closed"
      BY <1>2, <1>4, <2>1 DEF AskInv, Asks
    <3>2. \A c \in case.calls : taskPc[c] = "calling" /\ ready'[c] = None => client'[target[c]] # "closed"
      <4> SUFFICES ASSUME NEW c \in case.calls, taskPc[c] = "calling", ready'[c] = None
                   PROVE  client'[target[c]] # "closed"
        OBVIOUS
      <4>1. c \in Lab(case)!Tasks /\ Asks(c) /\ ready[c] = None
        BY <1>1, <1>2 DEF Asks, Lab!Quiet
      <4>2. target[c] \in case.ops /\ client[target[c]] # "closed"
        BY <2>1, <4>1 DEF AskInv
      <4>3. QED BY <1>1, <1>3, <1>4, <4>1, <4>2
    <3>3. \A c \in case.calls : taskPc[c] = "calling" /\ activeSession # None => target[c] = activeSession
      BY <2>1 DEF AskInv
    <3>4. QED BY <1>2, <3>1, <3>2, <3>3 DEF AskInv, Asks
  <2>7. AnswerInv(case)'
    BY <1>1, <2>2 DEF AnswerInv
  <2>8. Lab(case)!CatalogIsOfServer' /\ Lab(case)!HistoryTellsServer'
    BY <1>2, <2>1 DEF Lab!CatalogIsOfServer, Lab!HistoryTellsServer
  <2>9. (\A p, q \in case.ops : Busy(p) /\ Busy(q) => p = q)'
    BY <1>2, <2>1 DEF Busy
  <2>10. QED BY <2>3, <2>4, <2>5, <2>6, <2>7, <2>8, <2>9 DEF TurnInv
<1>10. QED BY <1>6, <1>7, <1>8, <1>9 DEF LabInv

LEMMA ConnectEndsKeeps ==
  ASSUME NEW case, Lab(case)!LabAssumption, LabInv(case), NEW o \in case.ops, Lab(case)!ConnectEnds(o)
  PROVE  LabInv(case)'
<1>1. /\ LabTypes(case) /\ ClosingInv(case) /\ Lab(case)!OneServer
      /\ Lab(case)!Tasks = case.ops \cup case.calls /\ o \in Lab(case)!Tasks
      /\ \A c \in case.calls : c \notin case.ops
      /\ None # "ok" /\ None # "threw" /\ None \notin case.ops
      /\ client \in [case.ops -> Clients]
      /\ activeSession = None \/ activeSession \in case.ops
  BY LabFacts
<1>2. PICK v \in {"ok", "threw"} :
        /\ ready' = [ready EXCEPT ![o] = v]
        /\ v = "ok" => client[o] = "opening" /\ client' = [client EXCEPT ![o] = "open"]
        /\ v = "threw" => \/ client[o] = "opening" /\ client' = [client EXCEPT ![o] = "closed"]
                          \/ client' = client
  BY DEF Lab!ConnectEnds
<1>3. /\ Lab(case)!Quiet /\ taskPc[o] = "connecting"
      /\ UNCHANGED <<activeClient, activeProcess, activeSession, process, status, info, catalog,
                     taskPc, kind, target, closer, record>>
  BY DEF Lab!ConnectEnds, Lab!mainVars, Lab!viewVars, Lab!taskVars
<1>4. Settled(case, o, v)
  <2>1. \A w \in {None, "ok", "threw"} : ready' = [ready EXCEPT ![o] = w] => Settled(case, o, w)
    BY <1>1, TaskMoves
  <2>2. QED BY <1>2, <2>1
<1>5. /\ client' \in [case.ops -> Clients]
      /\ \A y \in case.ops : client'[y] = client[y] \/ (y = o /\ client[o] = "opening" /\ client'[o] \in {"open", "closed"})
      /\ v = "ok" => client'[o] = "open"
  BY <1>1, <1>2 DEF Clients
<1>6. LabTypes(case)'
  <2>1. \A u \in Lab(case)!Tasks : ready'[u] # None =>
          taskPc'[u] \in {"clearing", "connecting", "recovering", "disconnecting", "listing", "calling"}
    BY <1>1, <1>3, <1>4 DEF Settled, LabTypes, Lab!TypeOK
  <2>2. Lab(case)!TypeOK'
    BY <1>1, <1>3, <1>5, <2>1 DEF LabTypes, Lab!TypeOK, Clients
  <2>3. QED BY <1>1, <1>3, <1>4, <2>2 DEF LabTypes, Settled
<1>7. ClosingInv(case)'
  BY <1>1, <1>3, <1>4, <1>5 DEF ClosingInv, Closes, Settled
<1>8. Lab(case)!OneServer'
  BY <1>1, <1>3 DEF Lab!OneServer
<1>9. ASSUME case.serial PROVE TurnInv(case)'
  <2>1. /\ \A p, q \in case.ops : Busy(p) /\ Busy(q) => p = q
        /\ ClientInv(case) /\ MainInv(case) /\ ViewInv(case) /\ AskInv(case)
        /\ AnswerInv(case) /\ Lab(case)!CatalogIsOfServer /\ Lab(case)!HistoryTellsServer
    BY <1>9, LabFacts
  <2>2. \A p \in case.ops : p # o => ready'[p] = None
    BY <1>1, <1>3, <1>4 DEF Settled, Lab!Quiet
  <2>3. ClientInv(case)'
    <3>1. \A p \in case.ops : Closes(p) => ready'[p] = None
      BY <1>1, <1>3, <2>2 DEF Closes
    <3>2. activeClient # None => client'[activeClient] # "none"
      BY <1>1, <1>5, <2>1 DEF ClientInv, LabTypes, Lab!TypeOK
    <3>3. \A p \in case.ops : taskPc[p] \in {"new", "clearing"} => client'[p] = "none"
      BY <1>3, <1>5, <2>1 DEF ClientInv
    <3>4. \A p \in case.ops : client'[p] \in {"opening", "closing"} => client'[p] = client[p]
      BY <1>5
    <3>5. QED BY <1>1, <1>3, <2>1, <3>1, <3>2, <3>3, <3>4 DEF ClientInv, Closes
  <2>4. MainInv(case)'
    BY <1>1, <1>3, <1>5, <2>1 DEF MainInv
  <2>5. ViewInv(case)'
    BY <1>3, <2>1 DEF ViewInv
  <2>6. AskInv(case)'
    BY <1>1, <1>3, <1>4, <1>5, <2>1 DEF AskInv, Asks, Settled
  <2>7. AnswerInv(case)'
    <3>1. \A u \in Lab(case)!Tasks : u # o => ready'[u] = None
      BY <1>3, <1>4 DEF Settled, Lab!Quiet
    <3>2. ready'[o] = "ok" => client'[o] = "open"
      BY <1>4, <1>5 DEF Settled
    <3>3. QED BY <1>1, <1>3, <2>2, <3>1, <3>2 DEF AnswerInv
  <2>8. Lab(case)!CatalogIsOfServer' /\ Lab(case)!HistoryTellsServer'
    BY <1>3, <2>1 DEF Lab!CatalogIsOfServer, Lab!HistoryTellsServer
  <2>9. (\A p, q \in case.ops : Busy(p) /\ Busy(q) => p = q)'
    BY <1>3, <2>1 DEF Busy
  <2>10. QED BY <2>3, <2>4, <2>5, <2>6, <2>7, <2>8, <2>9 DEF TurnInv
<1>10. QED BY <1>6, <1>7, <1>8, <1>9 DEF LabInv

\* disconnectActiveServer() after its await.
LEMMA ClearedLeavesNone ==
  ASSUME NEW case, Lab(case)!LabAssumption, LabInv(case), NEW killed, killed = Lab(case)!Killed
  PROVE  /\ killed \in [case.ops -> Processes]
         /\ \A x \in case.ops : killed[x] # "running"
<1>1. Lab(case)!OneServer /\ process \in [case.ops -> Processes]
  BY LabFacts
<1>2. QED BY <1>1 DEF Lab!Killed, Lab!OneServer, Processes

\* What ends with an error, or without a server: the active client is closed.
LEMMA EndKeeps ==
  ASSUME NEW case, Lab(case)!LabAssumption, LabInv(case), NEW o \in case.ops,
         NEW w \in {"failed", "done"}, Moved(case, o, w), Settled(case, o, None),
         Closes(o), ready[o] = "ok", Lab(case)!Cleared,
         \/ status' = "error" /\ info' = info /\ catalog' = catalog
         \/ status' = "idle" /\ info' = None /\ catalog' = None,
         UNCHANGED <<client, kind, target, closer, record>>
  PROVE  LabInv(case)'
<1>1. /\ LabTypes(case) /\ ClosingInv(case)
      /\ Lab(case)!Tasks = case.ops \cup case.calls /\ o \in Lab(case)!Tasks
      /\ \A c \in case.calls : c \notin case.ops
      /\ None # "ok" /\ None # "threw" /\ None \notin case.ops
      /\ client \in [case.ops -> Clients]
  BY LabFacts
<1>2. /\ process' \in [case.ops -> Processes] /\ \A x \in case.ops : process'[x] # "running"
      /\ activeClient' = None /\ activeProcess' = None /\ activeSession' = None
  <2>1. PICK killed : killed = Lab(case)!Killed
    OBVIOUS
  <2>2. killed \in [case.ops -> Processes] /\ \A x \in case.ops : killed[x] # "running"
    BY <2>1, ClearedLeavesNone
  <2>3. process' = killed /\ activeClient' = None /\ activeProcess' = None /\ activeSession' = None
    BY <2>1 DEF Lab!Cleared
  <2>4. QED BY <2>2, <2>3
<1>3. LabTypes(case)'
  <2>1. \A u \in Lab(case)!Tasks : ready'[u] # None =>
          taskPc'[u] \in {"clearing", "connecting", "recovering", "disconnecting", "listing", "calling"}
    BY <1>1 DEF Moved, Settled, LabTypes, Lab!TypeOK
  <2>2. \A u \in case.calls : record'[u] # None <=> taskPc'[u] = "recorded"
    BY <1>1 DEF Moved, LabTypes, Lab!TypeOK
  <2>3. Lab(case)!TypeOK'
    BY <1>1, <1>2, <2>1, <2>2 DEF LabTypes, Lab!TypeOK, Processes
  <2>4. QED BY <1>1, <2>3 DEF Moved, Settled, LabTypes
<1>4. ClosingInv(case)'
  <2>1. \A y \in case.ops : client[y] = "closing" => closer[y] # o
    BY <1>1 DEF ClosingInv
  <2>2. QED BY <1>1, <2>1 DEF ClosingInv, Closes, Moved, Settled
<1>5. Lab(case)!OneServer'
  BY <1>2 DEF Lab!OneServer
<1>6. ASSUME case.serial PROVE TurnInv(case)'
  <2>1. /\ \A p, q \in case.ops : Busy(p) /\ Busy(q) => p = q
        /\ ClientInv(case) /\ MainInv(case) /\ ViewInv(case) /\ AskInv(case)
        /\ AnswerInv(case) /\ Lab(case)!HistoryTellsServer
    BY <1>6, LabFacts
  <2>2. \A p \in case.ops : Busy(p) => p = o
    BY <2>1 DEF Busy, Closes
  <2>3. \A p \in case.ops : ~Busy(p)'
    BY <1>1, <2>2 DEF Busy, Moved
  <2>4. activeClient = None \/ client[activeClient] = "closed"
    BY <2>1 DEF ClientInv
  <2>5. \A y \in case.ops : client[y] # "closing" /\ client[y] # "opening"
    BY <1>1, <2>1, <2>2, <2>4 DEF ClientInv, Closes, Busy
  <2>6. ClientInv(case)'
    <3>1. \A p \in case.ops : taskPc'[p] \in {"new", "clearing"} => client[p] = "none"
      BY <1>1, <2>1 DEF ClientInv, Moved
    <3>2. \A p \in case.ops : ~Closes(p)'
      BY <2>3 DEF Busy, Closes
    <3>3. QED BY <1>2, <2>5, <3>1, <3>2 DEF ClientInv, Closes
  <2>7. MainInv(case)'
    BY <1>2, <2>3 DEF MainInv, Busy
  <2>8. ViewInv(case)'
    <3>1. status' \in {"error", "idle"}
      OBVIOUS
    <3>2. QED BY <1>2, <2>3, <3>1 DEF ViewInv, Busy
  <2>9. AskInv(case)'
    <3>1. \A t \in Lab(case)!Tasks : Asks(t)' =>
            target[t] \in case.ops /\ client[target[t]] = "closed"
      BY <1>1, <2>1, <2>4 DEF AskInv, Asks, Moved
    <3>2. \A c \in case.calls : taskPc'[c] = "calling" /\ ready'[c] = None => client[target[c]] # "closed"
      BY <1>1, <2>1 DEF AskInv, Moved, Settled
    <3>3. QED BY <1>2, <3>1, <3>2 DEF AskInv, Asks
  <2>10. AnswerInv(case)'
    <3>1. \A p \in case.ops : ~(ready'[p] = "ok" /\ taskPc'[p] \in {"listing", "connecting"})
      BY <1>1, <2>1 DEF AnswerInv, Moved, Settled
    <3>2. QED BY <3>1 DEF AnswerInv
  <2>11. Lab(case)!CatalogIsOfServer'
    BY DEF Lab!CatalogIsOfServer
  <2>12. Lab(case)!HistoryTellsServer'
    BY <2>1 DEF Lab!HistoryTellsServer
  <2>13. (\A p, q \in case.ops : Busy(p) /\ Busy(q) => p = q)'
    BY <2>3
  <2>14. QED BY <2>6, <2>7, <2>8, <2>9, <2>10, <2>11, <2>12, <2>13 DEF TurnInv
<1>7. QED BY <1>3, <1>4, <1>5, <1>6 DEF LabInv

\* What failed even to disconnect ends without an answer.
LEMMA ThrewKeeps ==
  ASSUME NEW case, Lab(case)!LabAssumption, LabInv(case), NEW o \in case.ops,
         Moved(case, o, "threw"), Settled(case, o, None),
         taskPc[o] \in {"recovering", "disconnecting"}, ready[o] # None,
         UNCHANGED <<activeClient, activeProcess, activeSession, client, process, status, info, catalog,
                     kind, target, closer, record>>
  PROVE  LabInv(case)'
<1>1. /\ LabTypes(case) /\ ClosingInv(case) /\ Lab(case)!OneServer
      /\ Lab(case)!Tasks = case.ops \cup case.calls /\ o \in Lab(case)!Tasks
      /\ \A c \in case.calls : c \notin case.ops
      /\ None # "ok" /\ None # "threw" /\ None \notin case.ops
  BY LabFacts
<1>2. LabTypes(case)'
  <2>1. \A u \in Lab(case)!Tasks : ready'[u] # None =>
          taskPc'[u] \in {"clearing", "connecting", "recovering", "disconnecting", "listing", "calling"}
    BY <1>1 DEF Moved, Settled, LabTypes, Lab!TypeOK
  <2>2. \A u \in case.calls : record'[u] # None <=> taskPc'[u] = "recorded"
    BY <1>1 DEF Moved, LabTypes, Lab!TypeOK
  <2>3. Lab(case)!TypeOK'
    BY <1>1, <2>1, <2>2 DEF LabTypes, Lab!TypeOK
  <2>4. QED BY <1>1, <2>3 DEF Moved, Settled, LabTypes
<1>3. ClosingInv(case)'
  <2>1. \A y \in case.ops : client[y] = "closing" => closer[y] # o
    BY <1>1 DEF ClosingInv
  <2>2. QED BY <1>1, <2>1 DEF ClosingInv, Closes, Moved, Settled
<1>4. Lab(case)!OneServer'
  BY <1>1 DEF Lab!OneServer
<1>5. ASSUME case.serial PROVE TurnInv(case)'
  <2>1. /\ \A p, q \in case.ops : Busy(p) /\ Busy(q) => p = q
        /\ ClientInv(case) /\ MainInv(case) /\ ViewInv(case) /\ AskInv(case)
        /\ AnswerInv(case) /\ Lab(case)!CatalogIsOfServer /\ Lab(case)!HistoryTellsServer
    BY <1>5, LabFacts
  <2>2. /\ \A p \in case.ops : p # o => taskPc'[p] = taskPc[p] /\ ready'[p] = ready[p]
        /\ taskPc'[o] = "threw" /\ ready'[o] = None
    BY <1>1 DEF Moved, Settled
  <2>3. ClientInv(case)'
    BY <2>1, <2>2 DEF ClientInv, Closes
  <2>4. MainInv(case)'
    BY <2>1, <2>2 DEF MainInv
  <2>5. ViewInv(case)'
    BY <2>1, <2>2 DEF ViewInv
  <2>6. AskInv(case)'
    BY <1>1, <2>1 DEF AskInv, Asks, Moved, Settled
  <2>7. AnswerInv(case)'
    <3>1. \A p \in case.ops : ~(ready'[p] = "ok" /\ taskPc'[p] \in {"listing", "connecting"})
      BY <1>1, <2>1, <2>2 DEF AnswerInv
    <3>2. QED BY <3>1 DEF AnswerInv
  <2>8. Lab(case)!CatalogIsOfServer'
    BY <2>1, <2>2 DEF Lab!CatalogIsOfServer
  <2>9. Lab(case)!HistoryTellsServer'
    BY <2>1 DEF Lab!HistoryTellsServer
  <2>10. (\A p, q \in case.ops : Busy(p) /\ Busy(q) => p = q)'
    BY <2>1, <2>2 DEF Busy
  <2>11. QED BY <2>3, <2>4, <2>5, <2>6, <2>7, <2>8, <2>9, <2>10 DEF TurnInv
<1>6. QED BY <1>2, <1>3, <1>4, <1>5 DEF LabInv

LEMMA EndsKeep ==
  ASSUME NEW case, Lab(case)!LabAssumption, LabInv(case), NEW o \in case.ops,
         Lab(case)!Recovered(o) \/ Lab(case)!Disconnected(o)
  PROVE  LabInv(case)'
<1>1. PICK w \in {"failed", "done", "threw"} :
        /\ taskPc[o] \in {"recovering", "disconnecting"} /\ ready[o] # None
        /\ taskPc' = [taskPc EXCEPT ![o] = w] /\ ready' = [ready EXCEPT ![o] = None]
        /\ \/ /\ w # "threw" /\ ready[o] = "ok" /\ Lab(case)!Cleared
              /\ \/ status' = "error" /\ info' = info /\ catalog' = catalog
                 \/ status' = "idle" /\ info' = None /\ catalog' = None
           \/ /\ w = "threw"
              /\ UNCHANGED <<activeClient, activeProcess, activeSession, process, status, info, catalog>>
        /\ UNCHANGED <<client, kind, target, closer, record>>
  <2>1. CASE Lab(case)!Recovered(o)
    BY <2>1 DEF Lab!Recovered, Lab!Goto, Lab!mainVars
  <2>2. CASE Lab(case)!Disconnected(o)
    BY <2>2 DEF Lab!Disconnected, Lab!Goto, Lab!mainVars, Lab!viewVars
  <2>3. QED BY <2>1, <2>2
<1>2. o \in Lab(case)!Tasks /\ LabTypes(case)
  BY LabFacts
<1>3. Moved(case, o, w) /\ Settled(case, o, None)
  <2>1. w \in TaskPcs
    BY DEF TaskPcs
  <2>2. /\ \A x \in TaskPcs : taskPc' = [taskPc EXCEPT ![o] = x] => Moved(case, o, x)
        /\ \A x \in {None, "ok", "threw"} : ready' = [ready EXCEPT ![o] = x] => Settled(case, o, x)
    BY <1>2, TaskMoves
  <2>3. QED BY <1>1, <2>1, <2>2
<1>4. CASE w # "threw"
  <2>1. Closes(o)
    BY <1>1 DEF Closes
  <2>2. QED BY <1>1, <1>3, <1>4, <2>1, EndKeeps
<1>5. CASE w = "threw"
  <2>1. Moved(case, o, "threw") /\ UNCHANGED <<activeClient, activeProcess, activeSession, process,
                                               status, info, catalog>>
    BY <1>1, <1>3, <1>5
  <2>2. QED BY <1>1, <1>3, <2>1, ThrewKeeps
<1>6. QED BY <1>4, <1>5

\* The last server is gone: no more of it, or a new one.
LEMMA OpenKeeps ==
  ASSUME NEW case, Lab(case)!LabAssumption, LabInv(case), NEW o \in case.ops, Lab(case)!Open(o)
  PROVE  LabInv(case)'
<1>1. /\ taskPc[o] = "clearing" /\ ready[o] = "ok" /\ ready' = [ready EXCEPT ![o] = None]
      /\ UNCHANGED <<info, catalog, kind, target, closer, record>>
  BY DEF Lab!Open
<1>2. /\ LabTypes(case) /\ ClosingInv(case)
      /\ Lab(case)!Tasks = case.ops \cup case.calls /\ o \in Lab(case)!Tasks
      /\ \A c \in case.calls : c \notin case.ops
      /\ None # "ok" /\ None # "threw" /\ None \notin case.ops
      /\ client \in [case.ops -> Clients]
  BY LabFacts
<1>3. Settled(case, o, None) /\ Closes(o)
  BY <1>1, <1>2, TaskMoves DEF Closes
<1>4. CASE Lab(case)!Cleared /\ Lab(case)!Goto(o, "failed") /\ status' = "error" /\ client' = client
  <2>1. Moved(case, o, "failed")
    BY <1>2, <1>4, TaskMoves DEF TaskPcs, Lab!Goto
  <2>2. QED BY <1>1, <1>3, <1>4, <2>1, EndKeeps
<1>5. ASSUME /\ process' = IF kind[o] = "stdio" THEN [Lab(case)!Killed EXCEPT ![o] = "running"]
                           ELSE Lab(case)!Killed
             /\ activeProcess' = IF kind[o] = "stdio" THEN o ELSE None
             /\ activeClient' = o /\ activeSession' = None
             /\ client' = [client EXCEPT ![o] = "opening"]
             /\ Lab(case)!Goto(o, "connecting") /\ status' = status
      PROVE  LabInv(case)'
  <2>1. Moved(case, o, "connecting")
    BY <1>2, <1>5, TaskMoves DEF TaskPcs, Lab!Goto
  <2>2. /\ process' \in [case.ops -> Processes] /\ activeProcess' \in case.ops \cup {None}
        /\ \A x \in case.ops : process'[x] = "running" => activeProcess' = x
    <3>1. PICK killed : killed = Lab(case)!Killed
      OBVIOUS
    <3>2. killed \in [case.ops -> Processes] /\ \A x \in case.ops : killed[x] # "running"
      BY <3>1, ClearedLeavesNone
    <3>3. CASE kind[o] = "stdio"
      <4>1. process' = [killed EXCEPT ![o] = "running"] /\ activeProcess' = o
        BY <1>5, <3>1, <3>3
      <4>2. QED BY <3>2, <4>1 DEF Processes
    <3>4. CASE kind[o] # "stdio"
      <4>1. process' = killed /\ activeProcess' = None
        BY <1>5, <3>1, <3>4
      <4>2. QED BY <3>2, <4>1
    <3>5. QED BY <3>3, <3>4
  <2>3. /\ client' \in [case.ops -> Clients] /\ client'[o] = "opening"
        /\ \A y \in case.ops : y # o => client'[y] = client[y]
    BY <1>2, <1>5 DEF Clients
  <2>4. LabTypes(case)'
    <3>1. \A u \in Lab(case)!Tasks : ready'[u] # None =>
            taskPc'[u] \in {"clearing", "connecting", "recovering", "disconnecting", "listing", "calling"}
      BY <1>2, <1>3, <2>1 DEF Moved, Settled, LabTypes, Lab!TypeOK
    <3>2. \A u \in case.calls : record'[u] # None <=> taskPc'[u] = "recorded"
      BY <1>1, <1>2, <2>1 DEF Moved, LabTypes, Lab!TypeOK
    <3>3. Lab(case)!TypeOK'
      BY <1>1, <1>2, <1>5, <2>2, <2>3, <3>1, <3>2 DEF LabTypes, Lab!TypeOK, Processes, Clients
    <3>4. QED BY <1>1, <1>2, <1>3, <2>1, <3>3 DEF Moved, Settled, LabTypes
  <2>5. ClosingInv(case)'
    <3>1. \A y \in case.ops : client[y] = "closing" => closer[y] # o
      BY <1>1, <1>2 DEF ClosingInv
    <3>2. \A y \in case.ops : client'[y] = "closing" => client[y] = "closing"
      BY <2>3
    <3>3. QED BY <1>1, <1>2, <1>3, <2>1, <3>1, <3>2 DEF ClosingInv, Closes, Moved, Settled
  <2>6. Lab(case)!OneServer'
    BY <2>2 DEF Lab!OneServer
  <2>7. ASSUME case.serial PROVE TurnInv(case)'
    <3>1. /\ \A p, q \in case.ops : Busy(p) /\ Busy(q) => p = q
          /\ ClientInv(case) /\ MainInv(case) /\ ViewInv(case) /\ AskInv(case)
          /\ AnswerInv(case) /\ Lab(case)!HistoryTellsServer
      BY <2>7, LabFacts
    <3>2. \A p \in case.ops : Busy(p) => p = o
      BY <1>1, <3>1 DEF Busy
    <3>3. \A p \in case.ops : Busy(p)' => p = o
      BY <1>2, <2>1, <3>2 DEF Busy, Moved
    <3>4. activeClient = None \/ client[activeClient] = "closed"
      BY <1>1, <1>3, <3>1 DEF ClientInv
    <3>5. client[o] = "none" /\ status = "connecting"
      <4>1. client[o] = "none"
        BY <1>1, <3>1 DEF ClientInv
      <4>2. status = "connecting"
        BY <1>1, <3>1 DEF ViewInv
      <4>3. QED BY <4>1, <4>2
    <3>6. \A y \in case.ops : client[y] # "closing" /\ client[y] # "opening"
      BY <1>1, <1>2, <3>1, <3>2, <3>4 DEF ClientInv, Busy
    <3>7. ClientInv(case)'
      <4>1. \A p \in case.ops : taskPc'[p] \in {"new", "clearing"} => client'[p] = "none"
        BY <1>2, <2>1, <2>3, <3>1 DEF ClientInv, Moved
      <4>2. \A p \in case.ops : ~Closes(p)'
        BY <2>1, <3>3 DEF Busy, Closes, Moved
      <4>3. \A p \in case.ops : client'[p] \in {"opening", "closing"} => p = o /\ client'[p] = "opening"
        BY <2>3, <3>6
      <4>4. taskPc'[o] = "connecting"
        BY <2>1 DEF Moved
      <4>5. QED BY <1>5, <2>3, <4>1, <4>2, <4>3, <4>4 DEF ClientInv, Closes
    <3>8. MainInv(case)'
      BY <1>5, <3>3 DEF MainInv, Busy
    <3>9. ViewInv(case)'
      <4>1. taskPc'[o] = "connecting"
        BY <2>1 DEF Moved
      <4>2. QED BY <1>5, <3>3, <3>5, <4>1 DEF ViewInv, Busy
    <3>10. AskInv(case)'
      <4>1. \A t \in Lab(case)!Tasks : Asks(t)' =>
              target[t] \in case.ops /\ target[t] # o /\ client'[target[t]] = "closed"
        BY <1>2, <2>1, <2>3, <3>1, <3>4, <3>5 DEF AskInv, Asks, Moved
      <4>2. \A c \in case.calls : taskPc'[c] = "calling" => ready'[c] # None
        BY <1>2, <1>3, <2>1, <3>1, <3>4 DEF AskInv, Asks, Moved, Settled
      <4>3. QED BY <1>1, <1>5, <4>1, <4>2 DEF AskInv, Asks
    <3>11. AnswerInv(case)'
      <4>1. \A p \in case.ops : ~(ready'[p] = "ok" /\ taskPc'[p] \in {"listing", "connecting"})
        BY <1>1, <1>2, <1>3, <2>1, <3>1 DEF AnswerInv, Moved, Settled
      <4>2. QED BY <4>1 DEF AnswerInv
    <3>12. Lab(case)!CatalogIsOfServer'
      BY <1>5, <3>5 DEF Lab!CatalogIsOfServer
    <3>13. Lab(case)!HistoryTellsServer'
      BY <1>1, <3>1 DEF Lab!HistoryTellsServer
    <3>14. (\A p, q \in case.ops : Busy(p) /\ Busy(q) => p = q)'
      BY <3>3
    <3>15. QED BY <3>7, <3>8, <3>9, <3>10, <3>11, <3>12, <3>13, <3>14 DEF TurnInv
  <2>8. QED BY <2>4, <2>5, <2>6, <2>7 DEF LabInv
<1>6. QED BY <1>4, <1>5 DEF Lab!Open

\* A connect is answered: its session is the active one.
LEMMA ConnectedKeeps ==
  ASSUME NEW case, Lab(case)!LabAssumption, LabInv(case), NEW o \in case.ops, Lab(case)!Connected(o)
  PROVE  LabInv(case)'
<1>1. /\ taskPc[o] = "connecting" /\ ready[o] = "ok" /\ ready' = [ready EXCEPT ![o] = None]
      /\ activeSession' = o /\ status' = "connected" /\ info' = o
      /\ UNCHANGED <<activeClient, activeProcess, client, process, kind, closer, record>>
  BY DEF Lab!Connected
<1>2. /\ LabTypes(case) /\ ClosingInv(case) /\ Lab(case)!OneServer
      /\ Lab(case)!Tasks = case.ops \cup case.calls /\ o \in Lab(case)!Tasks
      /\ \A c \in case.calls : c \notin case.ops
      /\ None # "ok" /\ None # "threw" /\ None \notin case.ops
      /\ activeClient = None \/ activeClient \in case.ops
  BY LabFacts
<1>3. PICK w \in {"listing", "done"} :
        /\ taskPc' = [taskPc EXCEPT ![o] = w]
        /\ w = "listing" => target' = [target EXCEPT ![o] = activeClient] /\ catalog' = catalog
        /\ w = "done" => activeClient = None /\ catalog' = None /\ target' = target
  BY <1>2 DEF Lab!Connected, Lab!List, Lab!Goto
<1>4. Moved(case, o, w) /\ Settled(case, o, None)
  <2>1. w \in TaskPcs
    BY DEF TaskPcs
  <2>2. /\ \A x \in TaskPcs : taskPc' = [taskPc EXCEPT ![o] = x] => Moved(case, o, x)
        /\ \A x \in {None, "ok", "threw"} : ready' = [ready EXCEPT ![o] = x] => Settled(case, o, x)
    BY <1>2, TaskMoves
  <2>3. QED BY <1>1, <1>3, <2>1, <2>2
<1>5. /\ target' \in [Lab(case)!Tasks -> case.ops \cup {None}] /\ catalog' \in case.ops \cup {None}
      /\ w = "listing" => target'[o] = activeClient
      /\ \A u \in Lab(case)!Tasks : u # o => target'[u] = target[u]
  BY <1>2, <1>3 DEF LabTypes, Lab!TypeOK
<1>6. LabTypes(case)'
  <2>1. \A u \in Lab(case)!Tasks : ready'[u] # None =>
          taskPc'[u] \in {"clearing", "connecting", "recovering", "disconnecting", "listing", "calling"}
    BY <1>2, <1>4 DEF Moved, Settled, LabTypes, Lab!TypeOK
  <2>2. \A u \in case.calls : record'[u] # None <=> taskPc'[u] = "recorded"
    BY <1>1, <1>2, <1>4 DEF Moved, LabTypes, Lab!TypeOK
  <2>3. Lab(case)!TypeOK'
    BY <1>1, <1>2, <1>5, <2>1, <2>2 DEF LabTypes, Lab!TypeOK
  <2>4. QED BY <1>1, <1>2, <1>3, <1>4, <1>5, <2>3 DEF Moved, Settled, LabTypes
<1>7. ClosingInv(case)'
  <2>1. \A y \in case.ops : client[y] = "closing" => closer[y] # o
    BY <1>1, <1>2 DEF ClosingInv
  <2>2. QED BY <1>1, <1>2, <1>4, <2>1 DEF ClosingInv, Closes, Moved, Settled
<1>8. Lab(case)!OneServer'
  BY <1>1, <1>2 DEF Lab!OneServer
<1>9. ASSUME case.serial PROVE TurnInv(case)'
  <2>1. /\ \A p, q \in case.ops : Busy(p) /\ Busy(q) => p = q
        /\ ClientInv(case) /\ MainInv(case) /\ ViewInv(case) /\ AskInv(case)
        /\ AnswerInv(case) /\ Lab(case)!HistoryTellsServer
    BY <1>9, LabFacts
  <2>2. \A p \in case.ops : ~Busy(p)'
    <3>1. \A p \in case.ops : Busy(p) => p = o
      BY <1>1, <2>1 DEF Busy
    <3>2. QED BY <1>2, <1>3, <1>4, <3>1 DEF Busy, Moved
  <2>3. activeClient = o /\ client[o] = "open" /\ w = "listing"
    BY <1>1, <1>2, <1>3, <2>1 DEF MainInv, AnswerInv
  <2>4. \A t \in Lab(case)!Tasks : ready'[t] = None
    BY <1>1, <1>2, <1>4, <2>1 DEF AnswerInv, Settled
  <2>5. ClientInv(case)'
    <3>1. \A p \in case.ops : p # o => taskPc'[p] = taskPc[p]
      BY <1>2, <1>4 DEF Moved
    <3>2. taskPc'[o] = "listing"
      BY <1>4, <2>3 DEF Moved
    <3>3. \A p \in case.ops : ~Closes(p)'
      BY <2>2 DEF Busy, Closes
    <3>4. QED BY <1>1, <2>1, <2>3, <3>1, <3>2, <3>3 DEF ClientInv, Closes
  <2>6. MainInv(case)'
    BY <1>1, <2>2, <2>3 DEF MainInv, Busy
  <2>7. ViewInv(case)'
    BY <1>1, <1>2, <2>2 DEF ViewInv, Busy
  <2>8. AskInv(case)'
    <3>1. \A t \in Lab(case)!Tasks : Asks(t)' =>
            /\ target'[t] \in case.ops /\ client[target'[t]] \in {"open", "closing", "closed"}
            /\ target'[t] = activeClient \/ client[target'[t]] = "closed"
      BY <1>2, <1>4, <1>5, <2>1, <2>3 DEF AskInv, Asks, Moved
    <3>2. \A d \in case.calls : taskPc'[d] = "calling" => client[target'[d]] # "closed"
      <4> SUFFICES ASSUME NEW d \in case.calls, taskPc'[d] = "calling" PROVE client[target'[d]] # "closed"
        OBVIOUS
      <4>1. d # o /\ d \in Lab(case)!Tasks /\ taskPc[d] = "calling" /\ target'[d] = target[d]
        BY <1>2, <1>4, <1>5 DEF Moved
      <4>2. ready[d] = None
        BY <1>1, <2>1, <4>1 DEF AnswerInv
      <4>3. QED BY <2>1, <4>1, <4>2 DEF AskInv
    <3>3. \A d \in case.calls : taskPc'[d] = "calling" => target'[d] = o
      <4> SUFFICES ASSUME NEW d \in case.calls, taskPc'[d] = "calling" PROVE target'[d] = o
        OBVIOUS
      <4>1. d \in Lab(case)!Tasks /\ Asks(d)'
        BY <1>2 DEF Asks
      <4>2. QED BY <2>3, <3>1, <3>2, <4>1
    <3>4. QED BY <1>1, <3>1, <3>2, <3>3 DEF AskInv, Asks
  <2>9. AnswerInv(case)'
    BY <1>2, <2>4 DEF AnswerInv
  <2>10. Lab(case)!CatalogIsOfServer'
    <3>1. taskPc'[o] = "listing"
      BY <1>4, <2>3 DEF Moved
    <3>2. QED BY <3>1 DEF Lab!CatalogIsOfServer
  <2>11. Lab(case)!HistoryTellsServer'
    BY <1>1, <1>2, <1>5, <2>1 DEF Lab!HistoryTellsServer
  <2>12. (\A p, q \in case.ops : Busy(p) /\ Busy(q) => p = q)'
    BY <2>2
  <2>13. QED BY <2>5, <2>6, <2>7, <2>8, <2>9, <2>10, <2>11, <2>12 DEF TurnInv
<1>10. QED BY <1>6, <1>7, <1>8, <1>9 DEF LabInv

LEMMA LabStands ==
  ASSUME NEW case, LabInv(case), UNCHANGED labVars
  PROVE  LabInv(case)'
<1>1. UNCHANGED <<activeClient, activeProcess, activeSession, client, process, status, info, catalog,
                  taskPc, kind, target, ready, closer, record>>
  BY DEF labVars
<1>2. LabTypes(case)' /\ ClosingInv(case)' /\ Lab(case)!OneServer'
  BY <1>1 DEF LabInv, LabTypes, Lab!TypeOK, ClosingInv, Closes, Lab!OneServer
<1>3. ASSUME case.serial PROVE TurnInv(case)'
  <2>1. TurnInv(case)
    BY <1>3 DEF LabInv
  <2>2. ClientInv(case)' /\ MainInv(case)' /\ ViewInv(case)'
    BY <1>1, <2>1 DEF TurnInv, ClientInv, MainInv, ViewInv, Closes
  <2>3. AskInv(case)' /\ AnswerInv(case)'
    BY <1>1, <2>1 DEF TurnInv, AskInv, AnswerInv, Asks
  <2>4. Lab(case)!CatalogIsOfServer' /\ Lab(case)!HistoryTellsServer'
    BY <1>1, <2>1 DEF TurnInv, Lab!CatalogIsOfServer, Lab!HistoryTellsServer
  <2>5. (\A p, q \in case.ops : Busy(p) /\ Busy(q) => p = q)'
    BY <1>1, <2>1 DEF TurnInv, Busy
  <2>6. QED BY <2>2, <2>3, <2>4, <2>5 DEF TurnInv
<1>4. QED BY <1>2, <1>3 DEF LabInv

LEMMA LabStepKeeps ==
  ASSUME NEW case, Lab(case)!LabAssumption, LabInv(case), Lab(case)!Next
  PROVE  LabInv(case)'
<1>1. Lab(case)!Tasks = case.ops \cup case.calls
  BY LabFacts
<1>2. CASE Lab(case)!Click
  BY <1>2, ConnectKeeps, HydrateKeeps DEF Lab!Click
<1>3. CASE Lab(case)!Settles
  BY <1>1, <1>3, CloseEndsKeeps, ConnectEndsKeeps, AnswerKeeps DEF Lab!Settles
<1>4. CASE Lab(case)!Resumes
  BY <1>4, OpenKeeps, ConnectKeeps, ConnectedKeeps, EndsKeep, ShowCatalogKeeps DEF Lab!Resumes
<1>5. CASE Lab(case)!ToolCalls
  BY <1>1, <1>5, CallToolKeepsLab, AnswerKeeps, RecordToolCallKeeps DEF Lab!ToolCalls
<1>6. CASE \E o \in case.ops : Lab(case)!ServerExits(o)
  BY <1>6, ServerExitsKeeps
<1>7. QED BY <1>2, <1>3, <1>4, <1>5, <1>6 DEF Lab!Next

LEMMA LabShows ==
  ASSUME NEW case, LabInv(case)
  PROVE  /\ Lab(case)!TypeOK /\ Lab(case)!OneServer
         /\ case.serial => /\ Lab(case)!RendererTellsMain /\ Lab(case)!CatalogIsOfServer
                           /\ Lab(case)!HistoryTellsServer
BY DEF LabInv, LabTypes, TurnInv, ViewInv, Lab!RendererTellsMain

--------------------------------------------------------------------------
(* The invariant of all four                                               *)

LEMMA AppsInitial ==
  ASSUME Init
  PROVE  AppsInv
<1>1. ReleaseInv /\ HubInv
  <2>1. Release!ReleaseAssumption /\ Release!Init /\ Hub!ComposerAssumption /\ Hub!Init
    BY AppsAssumption DEF Init
  <2>2. QED BY <2>1, ReleaseInitial, HubInitial
<1>2. ASSUME NEW c \in LabParts, part = c PROVE LabInv(LabCases[c])
  <2>1. CaseOf(LabCases) = LabCases[c]
    BY <1>2 DEF CaseOf, LabParts
  <2>2. PICK case \in {CaseOf(LabCases)} : Lab(case)!Init
    BY DEF Init
  <2>3. PICK d : d = LabCases[c]
    OBVIOUS
  <2>4. Lab(d)!Init
    BY <2>1, <2>2, <2>3
  <2>5. Lab(d)!LabAssumption
    BY <2>3, AppsAssumption
  <2>6. LabInv(d)
    BY <2>4, <2>5, LabInitial
  <2>7. QED BY <2>3, <2>6
<1>3. ASSUME NEW c \in WatchParts, part = c PROVE WatchInv(WatchCases[c])
  <2>1. CaseOf(WatchCases) = WatchCases[c]
    BY <1>3 DEF CaseOf, WatchParts
  <2>2. PICK case \in {CaseOf(WatchCases)} : Watch(case)!Init
    BY DEF Init
  <2>3. PICK d : d = WatchCases[c]
    OBVIOUS
  <2>4. Watch(d)!Init
    BY <2>1, <2>2, <2>3
  <2>5. Watch(d)!ObservatoryAssumption
    BY <2>3, AppsAssumption
  <2>6. WatchInv(d)
    BY <2>4, <2>5, WatchInitial
  <2>7. QED BY <2>3, <2>6
<1>4. QED BY <1>1, <1>2, <1>3 DEF AppsInv

LEMMA AppsInductive ==
  ASSUME AppsInv, [Next]_vars
  PROVE  AppsInv'
<1>1. part' = part
  BY DEF Next, ReleaseStep, LabStep, ComposerStep, WatchStep, vars
<1>2. ReleaseInv'
  <2>1. Release!Next \/ UNCHANGED releaseVars
    BY DEF Next, ReleaseStep, LabStep, ComposerStep, WatchStep, vars
  <2>2. ReleaseInv /\ Release!ReleaseAssumption
    BY AppsAssumption DEF AppsInv
  <2>3. QED BY <2>1, <2>2, ReleaseStepKeeps, ReleaseStands
<1>3. HubInv'
  <2>1. Hub!Next \/ UNCHANGED hubVars
    BY DEF Next, ReleaseStep, LabStep, ComposerStep, WatchStep, vars
  <2>2. HubInv /\ Hub!ComposerAssumption
    BY AppsAssumption DEF AppsInv
  <2>3. QED BY <2>1, <2>2, HubStepKeeps, HubStands
<1>4. ASSUME NEW c \in LabParts, part = c PROVE LabInv(LabCases[c])'
  <2>1. PICK d : d = LabCases[c]
    OBVIOUS
  <2>2. Lab(d)!Next \/ UNCHANGED labVars
    BY <1>4, <2>1 DEF Next, ReleaseStep, LabStep, ComposerStep, WatchStep, vars
  <2>3. LabInv(d)
    BY <1>4, <2>1 DEF AppsInv
  <2>4. Lab(d)!LabAssumption
    BY <2>1, AppsAssumption
  <2>5. LabInv(d)'
    BY <2>2, <2>3, <2>4, LabStepKeeps, LabStands
  <2>6. QED BY <2>1, <2>5
<1>5. ASSUME NEW c \in WatchParts, part = c PROVE WatchInv(WatchCases[c])'
  <2>1. PICK d : d = WatchCases[c]
    OBVIOUS
  <2>2. Watch(d)!Next \/ UNCHANGED watchVars
    BY <1>5, <2>1 DEF Next, ReleaseStep, LabStep, ComposerStep, WatchStep, vars
  <2>3. WatchInv(d)
    BY <1>5, <2>1 DEF AppsInv
  <2>4. Watch(d)!ObservatoryAssumption
    BY <2>1, AppsAssumption
  <2>5. WatchInv(d)'
    BY <2>2, <2>3, <2>4, WatchStepKeeps, WatchStands
  <2>6. QED BY <2>1, <2>5
<1>6. QED BY <1>1, <1>2, <1>3, <1>4, <1>5 DEF AppsInv

LEMMA AppsReached == Spec => []AppsInv
<1>1. Init => AppsInv
  BY AppsInitial
<1>2. AppsInv /\ [Next]_vars => AppsInv'
  BY AppsInductive
<1>3. QED BY <1>1, <1>2, PTL DEF Spec

--------------------------------------------------------------------------
(* Theorems                                                                *)

\* In every set of packages, along every graph of dependencies and whatever
\* directories runs are given and wherever they die: the scripts publish
\* dependencies first, only tarballs that were verified, and a run that completes
\* leaves its own build (npm-release-lib.mjs, publish-npm-artifacts.mjs).
THEOREM ReleasesKeepOrder == Spec => []ReleaseInOrder
<1>1. AppsInv => ReleaseInOrder
  BY DEF AppsInv, ReleaseInv, ReleaseTypes, RegistryInv, RunInv, ReleaseInOrder
<1>2. QED BY <1>1, AppsReached, PTL

\* However many clicks and calls there are, no server process stays behind; while
\* clicks take turns the renderer, its catalog and its history tell the server
\* that is connected, although servers die, closes are slow and calls and
\* listings outlive their session (handlers.ts, connectionStore.ts).
THEOREM LabTellsTruth == Spec => []LabTellsTheServer
<1>1. AppsInv => LabTellsTheServer
  <2> SUFFICES ASSUME AppsInv, NEW c \in LabParts, part = c
               PROVE  /\ Lab(LabCases[c])!TypeOK /\ Lab(LabCases[c])!OneServer
                      /\ LabCases[c].serial => /\ Lab(LabCases[c])!RendererTellsMain
                                               /\ Lab(LabCases[c])!CatalogIsOfServer
                                               /\ Lab(LabCases[c])!HistoryTellsServer
    BY DEF LabTellsTheServer
  <2>1. PICK d : d = LabCases[c]
    OBVIOUS
  <2>2. LabInv(d)
    BY <2>1 DEF AppsInv
  <2>3. /\ Lab(d)!TypeOK /\ Lab(d)!OneServer
        /\ d.serial => /\ Lab(d)!RendererTellsMain /\ Lab(d)!CatalogIsOfServer /\ Lab(d)!HistoryTellsServer
    BY <2>2, LabShows
  <2>4. QED BY <2>1, <2>3
<1>2. QED BY <1>1, AppsReached, PTL

\* For all backends over stdio and HTTP, whatever their names and their tools': a
\* call reaches the backend and the tool a listing showed under its name, unless
\* that backend's own name is ambiguous; a listing that is answered is whole; the
\* map keeps nothing that was killed, and an entry without an open client only
\* where its process ended or an add is about to delete it; and no backend is
\* lost unless a call fails, however adds, reconnects, failures and requests
\* overlap (BackendManager.ts, ComposerProxy.ts).
THEOREM ComposerKeeps == Spec => []ComposerKeepsBackends
<1>1. AppsInv => ComposerKeepsBackends
  BY HubShows DEF AppsInv, ComposerKeepsBackends
<1>2. QED BY <1>1, AppsReached, PTL

\* For every cool-down, period and budget window: alerts keep their distance, an
\* anomaly that lasts has one in time, and a dashboard that is read shows a budget
\* that is spent (AnomalyDetector.ts, AlertManager.ts).
THEOREM AlertsComeInTime == Spec => []AlertsAreTimely
<1>1. AppsInv => AlertsAreTimely
  <2> SUFFICES ASSUME AppsInv, NEW c \in WatchParts, part = c
               PROVE  /\ Watch(WatchCases[c])!TypeOK /\ Watch(WatchCases[c])!QuietInCoolDown
                      /\ Watch(WatchCases[c])!LastingAnomalyIsAlerted
                      /\ Watch(WatchCases[c])!SpentBudgetIsTold
    BY DEF AlertsAreTimely
  <2>1. PICK d : d = WatchCases[c]
    OBVIOUS
  <2>2. WatchInv(d) /\ Watch(d)!ObservatoryAssumption
    BY <2>1, AppsAssumption DEF AppsInv
  <2>3. /\ Watch(d)!TypeOK /\ Watch(d)!QuietInCoolDown
        /\ Watch(d)!LastingAnomalyIsAlerted /\ Watch(d)!SpentBudgetIsTold
    BY <2>2, WatchShows
  <2>4. QED BY <2>1, <2>3
<1>2. QED BY <1>1, AppsReached, PTL
=============================================================================
