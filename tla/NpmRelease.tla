------------------------------ MODULE NpmRelease ------------------------------
(***************************************************************************)
(* scripts/: the publication of the packages of a release to the npm       *)
(* registry (npm-release-lib.mjs, publish-npm-artifacts.mjs), in a         *)
(* workflow that may be run again after any failure, and what              *)
(* release-state.mjs reports of it.  A version on the registry is          *)
(* immutable; its metadata may be read late.                               *)
(*                                                                         *)
(* sortPackages() is a recursive function; its stack of calls is a         *)
(* variable here, and each turn of its loops a step.                       *)
(***************************************************************************)
EXTENDS Naturals, Sequences, FiniteSets, SequencesExt

CONSTANTS
  Packages,     \* numbers: their names in alphabetical order
  Graphs,       \* their internal dependencies: what a release may have
  Directories,  \* what pack may leave: sets of [pkg, build, fault]
  None,
  Attempts,     \* of waitForPublishedIntegrity
  MaxRuns       \* bound of the runs of the workflow

\* What is wrong with a file: with the archive, its checksum, its manifest.
ArchiveFaults == {"link", "unsafe path", "no package.json"}
DigestFaults == {"unlisted", "digest"}
ManifestFaults == {"version", "metadata", "unbuilt", "dependency", "entrypoint", "shebang"}
Faults == ArchiveFaults \cup DigestFaults \cup ManifestFaults

ReleaseAssumption ==
  /\ Packages \subseteq Nat \ {0} /\ IsFiniteSet(Packages) /\ Graphs \subseteq [Packages -> SUBSET Packages]
  /\ None \notin Packages /\ None \notin UNION Directories
  /\ None \notin {"publish", "skip", "published"}
  /\ \A t \in UNION Directories : t.fault \in Faults \cup {"none"}
  /\ Attempts \in Nat \ {0} /\ MaxRuns \in Nat

Tarballs == UNION Directories

VARIABLES
  deps,        \* the internal dependencies of each package
  registry,    \* what npm holds of each
  seen,        \* what its metadata shows
  pc, runs,    \* the run of the workflow: where it is, how many there were
  stack,       \* the calls of visit() under way: [pkg, left], the loop over all below them
  artifact,    \* per package: the tarball that was verified in this run
  order,       \* the packages in the order of the manifest: so far, later those left
  plan,        \* per package: publish, skip, or not planned yet
  attempt,
  report       \* of release-state.mjs: [state, safe, existing]

registryVars == <<deps, registry, seen>>
sortVars == <<stack, order>>
vars == <<registryVars, pc, runs, sortVars, artifact, plan, attempt, report>>

--------------------------------------------------------------------------
(* The workflow                                                            *)

Init ==
  /\ deps \in Graphs
  /\ registry = [p \in Packages |-> None] /\ seen = [p \in Packages |-> None]
  /\ pc = "idle" /\ runs = 0
  /\ artifact = [p \in Packages |-> None]
  /\ stack = <<>> /\ order = <<>> /\ plan = [p \in Packages |-> None] /\ attempt = 0
  /\ report = [state |-> None, safe |-> FALSE, existing |-> 0]

Fail == pc' = "failed"
NothingRuns == pc \in {"idle", "failed", "done"}

\* Pack; the packages of the repository are sorted first.
StartRun ==
  /\ NothingRuns /\ runs < MaxRuns /\ runs' = runs + 1
  /\ pc' = "sorting"
  /\ stack' = <<[pkg |-> None, left |-> Packages]>> /\ order' = <<>>
  /\ artifact' = [p \in Packages |-> None] /\ plan' = [p \in Packages |-> None] /\ attempt' = 0
  /\ UNCHANGED <<registryVars, report>>

--------------------------------------------------------------------------
(* sortPackages                                                            *)

Top == stack[Len(stack)]

\* The next of a loop, in alphabetical order: permanent, temporary, or new.
Visit ==
  /\ pc = "sorting" /\ Top.left # {}
  /\ \E pkg \in Top.left :
       /\ \A other \in Top.left : pkg <= other
       /\ LET rest == [stack EXCEPT ![Len(stack)].left = @ \ {pkg}]
          IN  IF \E i \in DOMAIN order : order[i] = pkg
                THEN stack' = rest /\ UNCHANGED pc
              ELSE IF \E i \in DOMAIN stack : stack[i].pkg = pkg
                THEN Fail /\ UNCHANGED stack
              ELSE stack' = Append(rest, [pkg |-> pkg, left |-> deps[pkg]]) /\ UNCHANGED pc
  /\ UNCHANGED <<registryVars, runs, order, artifact, plan, attempt, report>>

\* Variant with a bug: a package is ordered before the dependencies it has left.
LeaveEarly ==
  /\ pc = "sorting" /\ Len(stack) > 1
  /\ stack' = SubSeq(stack, 1, Len(stack) - 1) /\ order' = Append(order, Top.pkg)
  /\ UNCHANGED <<registryVars, pc, runs, artifact, plan, attempt, report>>

\* The end of visit(): all dependencies are in the order.
Leave ==
  /\ pc = "sorting" /\ Top.left = {} /\ Len(stack) > 1
  /\ stack' = SubSeq(stack, 1, Len(stack) - 1) /\ order' = Append(order, Top.pkg)
  /\ UNCHANGED <<registryVars, pc, runs, artifact, plan, attempt, report>>

Sorted ==
  /\ pc = "sorting" /\ Top.left = {} /\ Len(stack) = 1
  /\ pc' = "verifying" /\ stack' = <<>>
  /\ UNCHANGED <<registryVars, runs, order, artifact, plan, attempt, report>>

--------------------------------------------------------------------------
(* verifyNpmArtifacts                                                      *)

\* inspectTarball: the archive itself.
InspectTarball(t) == t.fault \notin ArchiveFaults

\* readChecksums, and the digest of the file.
Listed(t) == t.fault \notin DigestFaults

ValidateArtifact(t) == t.pkg \in Packages /\ t.fault \notin ManifestFaults

\* Every file is good, one for every package.
VerifyNpmArtifacts(directory) ==
  /\ \A t \in directory : InspectTarball(t) /\ Listed(t) /\ ValidateArtifact(t)
  /\ \A t, u \in directory : t # u => t.pkg # u.pkg
  /\ Packages \subseteq {t.pkg : t \in directory}

\* validateAuthentication.
Authenticated(mode, tokens) ==
  \/ mode = "oidc" /\ "npm" \notin tokens
  \/ mode = "bootstrap" /\ "bootstrap" \in tokens

\* Verify, write the manifest, read it.
Verify(directory) ==
  /\ pc = "verifying"
  /\ \E mode \in {"oidc", "bootstrap"}, tokens \in SUBSET {"npm", "bootstrap"} :
       IF VerifyNpmArtifacts(directory) /\ Packages # {} /\ Authenticated(mode, tokens)
         THEN /\ pc' = "planning"
              /\ artifact' = [p \in Packages |-> CHOOSE t \in directory : t.pkg = p]
         ELSE Fail /\ UNCHANGED artifact
  /\ UNCHANGED <<registryVars, runs, sortVars, plan, attempt, report>>

--------------------------------------------------------------------------
(* publish-npm-artifacts.mjs                                               *)

MatchesPublishedIntegrity(published, tarball) == published = tarball

\* registryPublicationPlan, one package: its metadata is read.
Plan(p) ==
  /\ pc = "planning" /\ plan[p] = None
  /\ p = order[Cardinality({q \in Packages : plan[q] # None}) + 1]
  /\ IF seen[p] = None
       THEN plan' = [plan EXCEPT ![p] = "publish"] /\ UNCHANGED pc
     ELSE IF MatchesPublishedIntegrity(seen[p], artifact[p])
       THEN plan' = [plan EXCEPT ![p] = "skip"] /\ UNCHANGED pc
     ELSE Fail /\ UNCHANGED plan
  /\ UNCHANGED <<registryVars, runs, sortVars, artifact, attempt, report>>

Planned ==
  /\ pc = "planning" /\ \A p \in Packages : plan[p] # None
  /\ pc' = "publishing"
  /\ UNCHANGED <<registryVars, runs, sortVars, artifact, plan, attempt, report>>

Skip ==
  /\ pc = "publishing" /\ order # <<>> /\ plan[Head(order)] = "skip"
  /\ order' = Tail(order)
  /\ UNCHANGED <<registryVars, pc, runs, stack, artifact, plan, attempt, report>>

\* npm publish: refused if the version is there, and a failure does not say
\* whether the registry took the tarball.
Publish ==
  /\ pc = "publishing" /\ order # <<>> /\ plan[Head(order)] = "publish"
  /\ LET p == Head(order)
     IN  IF registry[p] # None THEN Fail /\ UNCHANGED <<registry, attempt>>
         ELSE \/ /\ registry' = [registry EXCEPT ![p] = artifact[p]]
                 /\ \/ pc' = "waiting" /\ attempt' = 1
                    \/ Fail /\ UNCHANGED attempt
              \/ Fail /\ UNCHANGED <<registry, attempt>>
  /\ UNCHANGED <<deps, seen, runs, sortVars, artifact, plan, report>>

\* One attempt of waitForPublishedIntegrity.
Poll ==
  /\ pc = "waiting"
  /\ IF MatchesPublishedIntegrity(seen[Head(order)], artifact[Head(order)])
       THEN pc' = "publishing" /\ order' = Tail(order) /\ UNCHANGED attempt
     ELSE IF attempt < Attempts
       THEN attempt' = attempt + 1 /\ UNCHANGED <<pc, order>>
     ELSE Fail /\ UNCHANGED <<order, attempt>>
  /\ UNCHANGED <<registryVars, runs, stack, artifact, plan, report>>

Complete ==
  /\ pc = "publishing" /\ order = <<>> /\ pc' = "done"
  /\ UNCHANGED <<registryVars, runs, sortVars, artifact, plan, attempt, report>>

\* A read of the registry fails, or the runner goes.
RunDies ==
  /\ ~NothingRuns /\ Fail
  /\ UNCHANGED <<registryVars, runs, sortVars, artifact, plan, attempt, report>>

\* The metadata catches up.
Replicate(p) ==
  /\ seen[p] # registry[p] /\ seen' = [seen EXCEPT ![p] = registry[p]]
  /\ UNCHANGED <<deps, registry, pc, runs, sortVars, artifact, plan, attempt, report>>

--------------------------------------------------------------------------
(* release-state.mjs                                                       *)

ResolveState(blocked, existing) ==
  IF blocked THEN "blocked"
  ELSE IF existing > 0 /\ existing = Cardinality(Packages) THEN "published"
  ELSE IF existing > 0 THEN "partial-publication"
  ELSE "ready"

\* Drift of the manifests and failed reads block.
Inspect ==
  /\ \E drift, incomplete \in BOOLEAN :
       LET existing == Cardinality({p \in Packages : seen[p] # None})
           safe == ~drift /\ ~incomplete
       IN  report' = [state |-> ResolveState(~safe, existing), safe |-> safe, existing |-> existing]
  /\ UNCHANGED <<registryVars, pc, runs, sortVars, artifact, plan, attempt>>

Sort == Visit \/ Leave \/ Sorted
Run ==
  \/ StartRun \/ Sort \/ (\E directory \in Directories : Verify(directory))
  \/ (\E p \in Packages : Plan(p)) \/ Planned \/ Skip \/ Publish \/ Poll \/ Complete

Next == Run \/ RunDies \/ Inspect \/ \E p \in Packages : Replicate(p)

\* A job that has started goes on.
Fairness == WF_vars(Run)

Spec == Init /\ [][Next]_vars /\ Fairness

--------------------------------------------------------------------------
(* Properties                                                              *)

TypeOK ==
  /\ registry \in [Packages -> Tarballs \cup {None}] /\ seen \in [Packages -> Tarballs \cup {None}]
  /\ pc \in {"idle", "sorting", "verifying", "planning", "publishing", "waiting", "failed", "done"}
  /\ artifact \in [Packages -> Tarballs \cup {None}]
  /\ plan \in [Packages -> {None, "publish", "skip"}]
  /\ order \in Seq(Packages) /\ attempt \in 0..Attempts

\* Wherever a run dies, and whatever the next one finds, a package that is on
\* the registry has all its internal dependencies there (sortPackages, and the
\* wait between two publications).
DependenciesFirst ==
  \A p \in Packages : registry[p] # None => \A d \in deps[p] : registry[d] # None

\* The registry never takes, under the name of a package, what is of another
\* or what a check would have refused, in whatever order runs and their
\* failures come (verifyNpmArtifacts is all that stands before it).
OnlyGoodTarballs ==
  \A p \in Packages : registry[p] # None => registry[p].pkg = p /\ registry[p].fault = "none"

\* A run that completes leaves, or finds, exactly its own tarballs on the
\* registry, not those of an earlier build (matchesPublishedIntegrity).
DoneIsThisBuild == pc = "done" => registry = artifact

\* A report of a published release is true, reads that lag included.
PublishedIsTrue == report.state = "published" => \A p \in Packages : registry[p] # None

\* A run ends, although the registry may never show what it took.
RunsEnd == []<>NothingRuns

\* release-state-machine.md: "If a target npm version already exists,
\* `safe_to_publish` is false".
SafeMeansNew == report.safe => report.existing = 0
=============================================================================
