-------------------------------- MODULE Apps --------------------------------
(***************************************************************************)
(* The release scripts, the lab, Composer and Observatory side by side.    *)
(* They share no state, so a behaviour is one machine's: `part' names it   *)
(* and never changes, the others stay in their initial state.  The lab and *)
(* Observatory have a part for each of their cases.                        *)
(***************************************************************************)
EXTENDS Integers, Sequences

CONSTANTS
  Packages, Graphs, Directories, Attempts, MaxRuns,   \* NpmRelease
  LabCases,        \* per part of the lab: [ops, calls, serial]
  Servers, Transports, Tools, Requests, MaxConns, MaxChanges,   \* Composer
  WatchCases,      \* per part of Observatory: its constants, and bounds
  None

VARIABLES
  part,
  deps, registry, seen, releasePc, runs, stack, artifact, order, plan, attempt,
  report,                                                                         \* NpmRelease
  activeClient, activeProcess, activeSession, client, process, status, info, catalog,
  taskPc, kind, target, ready, closer, record,                                    \* LabSession
  phase, conns, clients, add, changes, initialized, req,                          \* Composer
  now, metrics, writing, timers, due, started, last, sent, hot, reader            \* Observatory

LabParts == DOMAIN LabCases
WatchParts == DOMAIN WatchCases

--------------------------------------------------------------------------

Release == INSTANCE NpmRelease WITH pc <- releasePc
releaseVars ==
  <<deps, registry, seen, releasePc, runs, stack, order, artifact, plan, attempt, report>>

Lab(case) == INSTANCE LabSession WITH
  pc <- taskPc, Ops <- case.ops, Calls <- case.calls, Serial <- case.serial
labVars == <<activeClient, activeProcess, activeSession, client, process, status, info, catalog,
             taskPc, kind, target, ready, closer, record>>

Hub == INSTANCE Composer
hubVars == <<phase, conns, clients, add, changes, initialized, req>>

\* The unit of time is half a period of the detector's timers.
Watch(case) == INSTANCE Observatory WITH
  Channels <- case.channels, Recent <- case.recent, Days <- case.days,
  CoolDown <- case.coolDown, Hour <- case.hour, Burst <- case.burst, MaxTime <- case.time,
  MaxStarts <- case.starts, MaxBursts <- case.bursts, MaxSlow <- case.slow,
  MaxErrors <- case.errors, MaxReads <- case.reads
watchVars == <<now, metrics, writing, timers, due, started, last, sent, hot, reader>>

ASSUME AppsAssumption ==
  /\ Release!ReleaseAssumption /\ Hub!ComposerAssumption
  /\ \A c \in LabParts : Lab(LabCases[c])!LabAssumption
  /\ \A c \in WatchParts : Watch(WatchCases[c])!ObservatoryAssumption

--------------------------------------------------------------------------

\* The case of a part; one of them stands still in a part of another machine.
CaseOf(cases) == IF part \in DOMAIN cases THEN cases[part] ELSE cases[CHOOSE c \in DOMAIN cases : TRUE]

Init ==
  /\ part \in {"release", "composer"} \cup LabParts \cup WatchParts
  /\ Release!Init /\ (part # "release" => deps = CHOOSE g \in Graphs : TRUE)
  /\ Hub!Init
  /\ \E case \in {CaseOf(LabCases)} : Lab(case)!Init
  /\ \E case \in {CaseOf(WatchCases)} : Watch(case)!Init

ReleaseStep ==
  part = "release" /\ Release!Next /\ UNCHANGED <<part, labVars, hubVars, watchVars>>

LabStep ==
  /\ \E c \in LabParts : part = c /\ Lab(LabCases[c])!Next
  /\ UNCHANGED <<part, releaseVars, hubVars, watchVars>>

ComposerStep ==
  part = "composer" /\ Hub!Next /\ UNCHANGED <<part, releaseVars, labVars, watchVars>>

WatchStep ==
  /\ \E c \in WatchParts : part = c /\ Watch(WatchCases[c])!Next
  /\ UNCHANGED <<part, releaseVars, labVars, hubVars>>

Next == ReleaseStep \/ LabStep \/ ComposerStep \/ WatchStep

vars == <<part, releaseVars, labVars, hubVars, watchVars>>

Spec == Init /\ [][Next]_vars

--------------------------------------------------------------------------
(* Properties: each is that of its modules, for every part.                *)

\* Wherever runs die and whatever the next finds: dependencies are published
\* first, only tarballs that were verified are, a run that completes leaves its
\* own build, and a report of a release tells the truth (npm-release-lib.mjs,
\* publish-npm-artifacts.mjs).
ReleaseInOrder ==
  part = "release" => /\ Release!TypeOK /\ Release!DependenciesFirst /\ Release!OnlyGoodTarballs
                      /\ Release!DoneIsThisBuild /\ Release!PublishedIsTrue

\* No server process stays behind when clicks overlap; if they do not, the
\* renderer shows the session, the tools and the history of the server that is
\* connected (handlers.ts).
LabTellsTheServer ==
  \A c \in LabParts : part = c =>
    /\ Lab(LabCases[c])!TypeOK /\ Lab(LabCases[c])!OneServer
    /\ LabCases[c].serial => /\ Lab(LabCases[c])!RendererTellsMain
                             /\ Lab(LabCases[c])!CatalogIsOfServer
                             /\ Lab(LabCases[c])!HistoryTellsServer

\* Calls reach the backend and tool that were listed under their name, unless the
\* backend's own name is ambiguous; answered listings are whole; no backend in
\* the map was killed, and none is lost unless a call fails, while backends fail
\* and calls that replace them overlap (BackendManager.ts, ComposerProxy.ts).
ComposerKeepsBackends ==
  part = "composer" => /\ Hub!TypeOK /\ Hub!CallsReachWhatWasListed /\ Hub!ListingsAreWhole
                       /\ Hub!EntriesAreNotKilled /\ Hub!BackendsStay

\* Alerts come when they must and not more often, although intervals double,
\* sends fail and metrics are written between two reads (AnomalyDetector.ts,
\* AlertManager.ts, the dashboard).
AlertsAreTimely ==
  \A c \in WatchParts : part = c =>
    /\ Watch(WatchCases[c])!TypeOK /\ Watch(WatchCases[c])!QuietInCoolDown
    /\ Watch(WatchCases[c])!LastingAnomalyIsAlerted /\ Watch(WatchCases[c])!SpentBudgetIsTold
=============================================================================
