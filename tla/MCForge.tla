------------------------------- MODULE MCForge -------------------------------
(***************************************************************************)
(* Values for Forge: two principals, one of them with two tokens; a        *)
(* pipeline per question asked of the engine.                              *)
(***************************************************************************)
EXTENDS Forge, TLC

\* ann's tokens read everything, or runs only and not for long.
MCIdOf == [full |-> "ann", narrow |-> "ann", other |-> "bob"]
MCHubScopes ==
  [full |-> {"events:*"}, narrow |-> {"runs"}, other |-> {"events:subscribe", "runs"}]
MCHubExpiresAt == [full |-> 9, narrow |-> 2, other |-> 9]

HubOptions(categories, all, each, messages, idle) ==
  [allowedCategories |-> categories, maxConnections |-> all, maxConnectionsPerPrincipal |-> each,
   maxSubscriptions |-> 1, maxQueue |-> 1, maxMessages |-> messages, window |-> 1,
   idleTimeout |-> idle]

\* A share of one connection each; subscriptions, one connection at a time;
\* the message budget over time.
MCHubCases ==
  [limits |-> [options |-> HubOptions({"runs"}, 2, 1, 1, 9),
               tokens |-> {"full", "narrow", "other"}, time |-> 0],
   scopes |-> [options |-> HubOptions({"runs", "pipelines"}, 1, 1, 2, 9),
               tokens |-> {"full", "narrow", "other"}, time |-> 0],
   budget |-> [options |-> HubOptions({"runs"}, 2, 2, 2, 2), tokens |-> {"full"}, time |-> 2]]

\* Two steps in parallel, one of them retried, and a third; two runs of a
\* retried step; two loops of two items and two calls side by side, with outputs
\* on the bus, and a step that uses a variable of theirs after them; two loops
\* that use one variable at once; a condition with its branches, and a step of
\* type `tool'.
MCGroups ==
  [r1 |-> << <<"a", "b">>, <<"c">> >>,
   r2 |-> << <<"a">>, <<"c">> >>, r3 |-> << <<"a">>, <<"c">> >>,
   r4 |-> << <<"l", "m">>, <<"c">> >>, r5 |-> << <<"n", "m">> >>,
   r6 |-> << <<"if">>, <<"yes">>, <<"no">>, <<"t">> >>]
MCKind ==
  ("a" :> "tool") @@ ("b" :> "tool") @@ ("c" :> "local") @@ ("t" :> "typed")
    @@ ("l" :> "loop") @@ ("m" :> "loop") @@ ("n" :> "loop")
    @@ ("if" :> "condition") @@ ("yes" :> "local") @@ ("no" :> "local")
MCMaxAttempts == [s \in DOMAIN MCKind |-> IF s = "a" THEN 2 ELSE 1]
MCAs == [l |-> "item", m |-> "row", n |-> "row"]
MCOutputAs ==
  [s \in DOMAIN MCKind |-> CASE s = "c" -> "item" [] s = "m" -> "row" [] OTHER -> None]
MCChildOutputAs == [l |-> <<None, "answer">>, m |-> <<"answer", None>>, n |-> <<None, None>>]
MCRunCases ==
  [groups |-> {"r1"}, pair |-> {"r2", "r3"}, loops |-> {"r4"}, clash |-> {"r5"}, branch |-> {"r6"}]

\* A reader, a writer whose token expires, and a stranger.
MCApiScopes == [reader |-> {"api:read"}, writer |-> {"api:*"}]
MCApiExpiresAt == [reader |-> 9, writer |-> 2]
=============================================================================
