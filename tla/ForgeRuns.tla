------------------------------- MODULE ForgeRuns -------------------------------
(***************************************************************************)
(* forge: runs of pipelines by the engine (ForgeEngine.ts), group by group *)
(* (Executor.ts, Pipeline.ts, dsl/compiler.ts), each step a node           *)
(* (nodes/), with the record of the runs (RunStore.ts) that outlives the   *)
(* process, and the tools the steps call, which outlive the call.          *)
(***************************************************************************)
EXTENDS Naturals, Sequences, FiniteSets

CONSTANTS
  Runs,
  Groups,        \* per run, of its pipeline: compile().groups, sequences of steps
  Kind,          \* per step: tool, typed (a tool step that says so), local, condition, loop
  MaxAttempts,   \* per step: retry.max_attempts
  Items, Children, \* a loop's items and the calls per item
  Branches,      \* of a condition: the steps on_true and on_false name
  Variables,     \* names on a data bus
  As,            \* per loop: the variable of its items
  OutputAs,      \* per step: the variable of its output, or None
  ChildOutputAs, \* per loop: the same of each of its children
  None

Members(group) == {group[i] : i \in DOMAIN group}
Steps(r) == UNION {Members(Groups[r][g]) : g \in DOMAIN Groups[r]}

\* compile() throws at two steps of one id.
RunsAssumption ==
  /\ \A r \in Runs : /\ Groups[r] \in Seq(Seq(Steps(r)))
                     /\ \A g, h \in DOMAIN Groups[r] :
                          g # h => Members(Groups[r][g]) \cap Members(Groups[r][h]) = {}
                     /\ \A s \in Steps(r) :
                          /\ Kind[s] \in {"tool", "typed", "local", "condition", "loop"}
                          /\ MaxAttempts[s] \in Nat \ {0}
                          /\ OutputAs[s] \in Variables \cup {None}
                          /\ Kind[s] = "loop" =>
                               /\ As[s] \in Variables
                               /\ ChildOutputAs[s] \in [1..Children -> Variables \cup {None}]
  /\ Items \in Nat /\ Children \in Nat \ {0} /\ None \notin Variables

VARIABLES
  phase,     \* of the process: up, stopping, closed (the store is), ended
  rows,      \* the runs table
  run,       \* per run: where execute() is
  task,      \* per run and step: the node
  bus,       \* per run: its data bus, what each variable holds
  exec       \* per run and step: calls the server got, and runs now

vars == <<phase, rows, run, task, bus, exec>>

NoRun == [pc |-> "idle", group |-> 0, dry |-> FALSE]

\* Values on a bus: the n-th item of a loop, the output of a step, neither.
Item(s, n) == <<s, n>>
Output(s) == <<s, 0>>
Unset == <<None, 0>>

NoTask == [st |-> "idle", call |-> 1, attempts |-> 0, item |-> Unset, branch |-> None]

Init ==
  /\ phase = "up"
  /\ rows = [r \in Runs |-> "none"]
  /\ run = [r \in Runs |-> NoRun]
  /\ task = [r \in Runs |-> [s \in Steps(r) |-> NoTask]]
  /\ bus = [r \in Runs |-> [v \in Variables |-> Unset]]
  /\ exec = [r \in Runs |-> [s \in Steps(r) |-> [got |-> 0, running |-> 0]]]

GroupOf(r) == Groups[r][run[r].group]
Alive == phase # "ended"

\* createRun, updateRun: a store that is closed throws, and keeps what it had.
Record(r, status) == IF phase = "closed" THEN rows ELSE [rows EXCEPT ![r] = status]

\* The end of run().
Settle(r, status) ==
  /\ run' = [run EXCEPT ![r].pc = "settled"]
  /\ rows' = Record(r, status)

--------------------------------------------------------------------------
(* The engine and the executor                                             *)

StartRun(r, dry) ==
  /\ phase = "up" /\ rows[r] = "none"
  /\ rows' = Record(r, "running")
  /\ run' = [run EXCEPT ![r] = [pc |-> "next", group |-> 0, dry |-> dry]]
  /\ UNCHANGED <<phase, task, bus, exec>>

\* The members of a group that start: createNode() throws at one whose type
\* it does not know, and those before it have started.
Startable(group) ==
  {group[i] : i \in {j \in DOMAIN group : \A k \in 1..j : Kind[group[k]] # "typed"}}

Finish(r) ==
  /\ Alive /\ run[r].pc = "next" /\ run[r].group = Len(Groups[r])
  /\ Settle(r, "success")
  /\ UNCHANGED <<phase, task, bus, exec>>

\* A dry run skips a step of its own, not the steps of a parallel group.
Skip(r) ==
  /\ Alive /\ run[r].pc = "next" /\ run[r].group < Len(Groups[r])
  /\ run[r].dry /\ Len(Groups[r][run[r].group + 1]) = 1
  /\ \A s \in Members(Groups[r][run[r].group + 1]) : Kind[s] # "typed"
  /\ run' = [run EXCEPT ![r].group = @ + 1]
  /\ UNCHANGED <<phase, rows, task, bus, exec>>

EnterGroup(r) ==
  /\ Alive /\ run[r].pc = "next" /\ run[r].group < Len(Groups[r])
  /\ LET group == Groups[r][run[r].group + 1]
     IN  /\ run[r].dry => Len(group) # 1 \/ Kind[group[1]] = "typed"
         /\ task' = [task EXCEPT ![r] = [s \in Steps(r) |->
                       IF s \in Startable(group) THEN [NoTask EXCEPT !.st = "ready"] ELSE @[s]]]
         /\ IF Startable(group) = Members(group)
              THEN run' = [run EXCEPT ![r].pc = "group", ![r].group = @ + 1] /\ UNCHANGED rows
              ELSE Settle(r, "failed")
  /\ UNCHANGED <<phase, bus, exec>>

\* Variant with a bug: the first step of a group to end ends the group.
GroupDoneByOne(r, done) == TRUE

\* Promise.all over the group.
GroupDone(r, done) == \A s \in Members(GroupOf(r)) : s = done \/ task[r][s].st = "done"

\* dataBus.set(), where there is a name.
Put(data, name, value) == IF name = None THEN data ELSE [data EXCEPT ![name] = value]

\* Calls answer with an object; the output of another node may be falsy.
WithOutput(s, data) ==
  {Put(data, OutputAs[s], Output(s))} \cup (IF Kind[s] \in {"tool", "loop"} THEN {} ELSE {data})

\* A step has ended well: its output goes on the bus, the group may be complete.
Succeeds(r, s, data) ==
  /\ \E d \in WithOutput(s, data) : bus' = [bus EXCEPT ![r] = d]
  /\ run' = IF run[r].pc = "group" /\ GroupDone(r, s) THEN [run EXCEPT ![r].pc = "next"] ELSE run
  /\ UNCHANGED rows

StepDone(r, s, data) ==
  task' = [task EXCEPT ![r][s].st = "done"] /\ Succeeds(r, s, data)

\* Variant with a bug: a failed step leaves the group waiting.
StepFailsQuietly(r, s) ==
  /\ task' = [task EXCEPT ![r][s].st = "failed"]
  /\ UNCHANGED <<run, rows, bus>>

\* The first failure of a group rejects it; its siblings go on unattended.
StepFails(r, s) ==
  /\ task' = [task EXCEPT ![r][s].st = "failed"]
  /\ IF run[r].pc = "group" THEN Settle(r, "failed") ELSE UNCHANGED <<run, rows>>
  /\ UNCHANGED bus

--------------------------------------------------------------------------
(* The nodes                                                               *)

\* log, delay, http: an outcome, some time after.
LocalNode(r, s) ==
  /\ Alive /\ Kind[s] = "local" /\ task[r][s].st = "ready"
  /\ StepDone(r, s, bus[r]) \/ StepFails(r, s)
  /\ UNCHANGED <<phase, exec>>

\* The branch is in the result, and nobody reads it.
ConditionNode(r, s) ==
  /\ Alive /\ Kind[s] = "condition" /\ task[r][s].st = "ready"
  /\ \/ StepFails(r, s)
     \/ \E b \in Branches :
          /\ task' = [task EXCEPT ![r][s].st = "done", ![r][s].branch = b]
          /\ Succeeds(r, s, bus[r])
  /\ UNCHANGED <<phase, exec>>

Calls(s) == IF Kind[s] = "loop" THEN Items * Children ELSE 1

\* The iteration a call of a loop belongs to, and the child that makes it.
Iteration(call) == ((call - 1) \div Children) + 1
ChildOf(call) == ((call - 1) % Children) + 1

\* What a child that has ended leaves on the bus.
AfterChild(s, call, data) == Put(data, ChildOutputAs[s][ChildOf(call)], Output(s))

\* A loop sets its variable as an iteration begins.
SetItem(s, call, data) ==
  IF ChildOf(call) = 1 THEN Put(data, As[s], Item(s, Iteration(call))) ELSE data

\* In one turn of the event loop the output of the last child is stored, the
\* next iteration may begin, and the next child resolves its input: with what
\* the bus holds by then under the name of the loop's variable.
BeginCall(r, s) ==
  /\ Alive /\ Kind[s] \in {"tool", "loop"} /\ task[r][s].st = "ready"
  /\ LET call == task[r][s].call
     IN  IF Calls(s) = 0 THEN StepDone(r, s, bus[r])
         ELSE /\ bus' = IF Kind[s] = "tool" THEN bus
                        ELSE [bus EXCEPT ![r] = SetItem(s, call,
                                IF call = 1 THEN @ ELSE AfterChild(s, call - 1, @))]
              /\ task' = [task EXCEPT ![r][s].st = "input",
                            ![r][s].item = IF Kind[s] = "tool" THEN @ ELSE bus'[r][As[s]]]
              /\ UNCHANGED <<run, rows>>
  /\ UNCHANGED <<phase, exec>>

\* getClient() is outside the retries.
ConnectFails(r, s) ==
  /\ Alive /\ task[r][s].st = "input" /\ StepFails(r, s)
  /\ UNCHANGED <<phase, exec>>

\* After a stop too a call may reach the server: getClient() finds no client in
\* the map and opens a new one, and one that was not in the map is not closed.
Invoke(r, s) ==
  /\ Alive /\ task[r][s].st \in {"input", "backoff"}
  /\ task' = [task EXCEPT ![r][s].st = "calling"]
  /\ exec' = [exec EXCEPT ![r][s].got = @ + 1, ![r][s].running = @ + 1]
  /\ UNCHANGED <<phase, rows, run, bus>>

\* The result; one that says isError fails the step, with no retry.
Answer(r, s) ==
  /\ Alive /\ task[r][s].st = "calling" /\ exec[r][s].running > 0
  /\ exec' = [exec EXCEPT ![r][s].running = @ - 1]
  /\ LET call == task[r][s].call
     IN  \/ StepFails(r, s)
         \/ IF call = Calls(s)
              THEN StepDone(r, s, IF Kind[s] = "loop" THEN AfterChild(s, call, bus[r]) ELSE bus[r])
              ELSE /\ task' = [task EXCEPT ![r][s].st = "ready", ![r][s].call = @ + 1,
                                           ![r][s].attempts = 0]
                   /\ UNCHANGED <<run, rows, bus>>
  /\ UNCHANGED phase

\* callTool() throws: at once where the client is not connected; else after a
\* timeout, a lost connection, an error: what the server does is not known, and
\* it may still be doing it when the next attempt starts.
CallRejected(r, s) ==
  /\ Alive /\ task[r][s].st \in {"input", "backoff", "calling"}
  /\ IF task[r][s].attempts + 1 >= MaxAttempts[s] THEN StepFails(r, s)
     ELSE /\ task' = [task EXCEPT ![r][s].st = "backoff", ![r][s].attempts = @ + 1]
          /\ UNCHANGED <<run, rows, bus>>
  /\ UNCHANGED <<phase, exec>>

\* A call nobody waits for ends.
ServerEnds(r, s) ==
  /\ exec[r][s].running > (IF Alive /\ task[r][s].st = "calling" THEN 1 ELSE 0)
  /\ exec' = [exec EXCEPT ![r][s].running = @ - 1]
  /\ UNCHANGED <<phase, rows, run, task, bus>>

--------------------------------------------------------------------------
(* The process                                                             *)

\* stop(): the connections go, then the store; runs in flight are not awaited.
Stop ==
  /\ \/ phase = "up" /\ phase' = "stopping"
     \/ phase = "stopping" /\ phase' = "closed"
  /\ UNCHANGED <<rows, run, task, bus, exec>>

\* process.exit, or a crash: the memory of the process is lost.
ProcessEnds ==
  /\ Alive /\ phase' = "ended"
  /\ run' = [r \in Runs |-> IF run[r].pc = "idle" THEN run[r] ELSE [run[r] EXCEPT !.pc = "lost"]]
  /\ UNCHANGED <<rows, task, bus, exec>>

\* Variant with a bug: a start fails the runs it finds.
RestartFailsAll ==
  /\ phase = "ended" /\ phase' = "up"
  /\ task' = [r \in Runs |-> [s \in Steps(r) |-> NoTask]]
  /\ rows' = [r \in Runs |-> IF rows[r] = "none" THEN "none" ELSE "failed"]
  /\ UNCHANGED <<run, bus, exec>>

\* start() schedules the pipelines and leaves the runs as it finds them.
Restart ==
  /\ phase = "ended" /\ phase' = "up"
  /\ task' = [r \in Runs |-> [s \in Steps(r) |-> NoTask]]
  /\ UNCHANGED <<rows, run, bus, exec>>

Step(r, s) ==
  LocalNode(r, s) \/ ConditionNode(r, s) \/ BeginCall(r, s) \/ ConnectFails(r, s) \/ Invoke(r, s)
    \/ Answer(r, s) \/ CallRejected(r, s)

Execute(r) == Finish(r) \/ Skip(r) \/ EnterGroup(r)

Next ==
  \/ \E r \in Runs : \/ \E dry \in BOOLEAN : StartRun(r, dry)
                     \/ Execute(r)
                     \/ \E s \in Steps(r) : Step(r, s) \/ ServerEnds(r, s)
  \/ Stop \/ ProcessEnds \/ Restart

\* Every call of the client ends (its timer), and so does every node.
Fairness == \A r \in Runs : WF_vars(Execute(r)) /\ \A s \in Steps(r) : WF_vars(Step(r, s))

Spec == Init /\ [][Next]_vars /\ Fairness

--------------------------------------------------------------------------
(* Properties                                                              *)

Active == {"ready", "input", "calling", "backoff"}

TypeOK ==
  /\ phase \in {"up", "stopping", "closed", "ended"}
  /\ \A r \in Runs :
       /\ rows[r] \in {"none", "running", "success", "failed"}
       /\ run[r].pc \in {"idle", "next", "group", "settled", "lost"}
       /\ run[r].group \in 0..Len(Groups[r])
       /\ \A s \in Steps(r) : task[r][s].st \in Active \cup {"idle", "done", "failed"}
                           /\ (task[r][s].call = 1 \/ task[r][s].call <= Calls(s))
                           /\ task[r][s].attempts < MaxAttempts[s]

\* A step starts only when every step of the groups before it has ended well,
\* and a run recorded as a success had no other kind (execute, executeParallel).
StepsInOrder ==
  \A r \in Runs : run[r].pc # "lost" /\ Alive =>
    LET over(g) == \A s \in Members(Groups[r][g]) :
                     task[r][s].st = "done" \/ (run[r].dry /\ Len(Groups[r][g]) = 1)
    IN  /\ \A g \in DOMAIN Groups[r] :
             (\E s \in Members(Groups[r][g]) : task[r][s].st # "idle")
               => \A h \in 1..(g - 1) : over(h)
        /\ rows[r] = "success" => \A g \in DOMAIN Groups[r] : over(g)

\* A run that has ended while the store was open is recorded as ended: only a
\* stop or a crash leaves a run 'running' behind (ForgeEngine.run).
EndedRunsAreRecorded ==
  \A r \in Runs : phase \in {"up", "stopping"} /\ run[r].pc = "settled" => rows[r] # "running"

\* A loop's variable is its own: none of its children sets it, and no step that
\* runs beside the loop does.  Nothing in the code asks for that.
Sets(s) ==
  {OutputAs[s]} \cup (IF Kind[s] # "loop" THEN {}
                      ELSE {As[s]} \cup {ChildOutputAs[s][c] : c \in 1..Children})
OwnVariable(r, s) ==
  /\ \A c \in 1..Children : ChildOutputAs[s][c] # As[s]
  /\ \A g \in DOMAIN Groups[r] : s \in Members(Groups[r][g]) =>
       \A u \in Members(Groups[r][g]) \ {s} : As[s] \notin Sets(u)

\* What a child of a loop whose variable is its own was given is the item of its
\* own iteration, although other loops of the group write the same bus between
\* its calls, and other runs theirs.
ChildrenSeeTheirItem ==
  \A r \in Runs : run[r].pc # "lost" => \A s \in Steps(r) :
    Kind[s] = "loop" /\ OwnVariable(r, s) /\ task[r][s].st \in {"input", "calling", "backoff"}
      => task[r][s].item = Item(s, Iteration(task[r][s].call))

\* Retries, late answers and siblings that go on after the run has failed
\* included, a server gets no call more often than it may be attempted.
InvocationsBounded ==
  \A r \in Runs : \A s \in Steps(r) : exec[r][s].got <= MaxAttempts[s] * Calls(s)

\* The record of an ended run is final: siblings that end later, a stop, a
\* crash and a restart leave it.
RecordStays == \A r \in Runs : rows[r] \in {"success", "failed"} => rows'[r] = rows[r]
RecordsAreFinal == [][RecordStays]_vars

\* A run that has started comes to an end, unless the process does.
NothingRuns == \A r \in Runs : run[r].pc \notin {"next", "group"}
RunsEnd == []<>NothingRuns

\* cli.ts: `--dry-run', "simulate execution without calling tools".
DryRunCallsNothing == \A r \in Runs : \A s \in Steps(r) : run[r].dry => exec[r][s].got = 0

\* ConditionNode.ts: the branch that was selected is the one that runs.
OtherBranchDoesNotRun ==
  \A r \in Runs : \A s \in Steps(r) :
    Kind[s] = "condition" /\ task[r][s].st = "done"
      => \A b \in Branches \ {task[r][s].branch} : task[r][b].st = "idle"

\* README.md: a step of type `tool' is run, so its run fails only with a step.
FailuresAreOfSteps ==
  \A r \in Runs : run[r].pc = "settled" /\ rows[r] = "failed"
                    => \E s \in Steps(r) : task[r][s].st = "failed"
=============================================================================
