------------------------------- MODULE MCApps -------------------------------
(***************************************************************************)
(* Values for Apps.                                                        *)
(***************************************************************************)
EXTENDS Apps, TLC

CONSTANTS
  o1, o2, o3, call,   \* clicks in the lab, a call of a tool
  h1, h2              \* alert channels

Tarball(p, b, f) == [pkg |-> p, build |-> b, fault |-> f]

\* Of three packages, every mixture of two builds, and what must be refused: a
\* file missing, a second one of a package, a bad one, one of a package of no
\* release.
MCDirectories ==
  LET good == {{Tarball(p, f[p], "none") : p \in 1..3} : f \in [1..3 -> 1..2]}
      first == {Tarball(p, 1, "none") : p \in 1..3}
  IN  good \cup {first \ {Tarball(1, 1, "none")}, first \cup {Tarball(1, 2, "none")},
                (first \ {Tarball(1, 1, "none")}) \cup {Tarball(1, 1, "digest")},
                first \cup {Tarball(9, 1, "none")}}

\* A chain against the order of the names, a fork, a cycle.
MCGraphs == {<<{2}, {3}, {}>>, <<{3}, {3}, {}>>, <<{2, 3}, {}, {}>>, <<{2}, {1}, {}>>}

\* One click after the other while a tool is called; clicks that overlap.
MCLabCases == [clicks |-> [ops |-> {o1, o2, o3}, calls |-> {call}, serial |-> TRUE],
               overlap |-> [ops |-> {o1, o2, o3}, calls |-> {}, serial |-> FALSE]]

\* Two backends that are replaced while they serve.  Tools hold the separator,
\* and a half of it is at the start of one, and at the end of a backend's name:
\* "a___t__u" is a name of both tools.
MCServers == <<[name |-> <<"a">>, transport |-> "http"], [name |-> <<"a", "_">>, transport |-> "stdio"]>>
MCTools == (<<"a">> :> {<<"_", "t", "_", "_", "u">>}) @@ (<<"a", "_">> :> {<<"t", "_", "_", "u">>})

\* Of Composer's requests.
Symmetry == Permutations(Requests)

\* Slow calls, with alerts that fail; failed calls, with a dashboard that is
\* read meanwhile.
MCWatchCases ==
  [alerts |-> [channels |-> {h1, h2}, recent |-> 4, days |-> 8, coolDown |-> 4, hour |-> 4,
               burst |-> 12, time |-> 8, starts |-> 2, bursts |-> 2, slow |-> 2, errors |-> 0,
               reads |-> 0],
   budget |-> [channels |-> {h1}, recent |-> 2, days |-> 8, coolDown |-> 4, hour |-> 2,
               burst |-> 1000, time |-> 3, starts |-> 0, bursts |-> 2, slow |-> 0, errors |-> 3,
               reads |-> 2]]
=============================================================================
