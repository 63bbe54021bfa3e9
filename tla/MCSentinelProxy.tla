-------------------------- MODULE MCSentinelProxy --------------------------
(* Instances of SentinelProxy for TLC. *)
EXTENDS SentinelProxy, TLC

CONSTANTS alice, bob, k, x, y, z, mail, chat

Ask(key, payload, channels) ==
  [requester |-> alice, approver |-> bob, key |-> key, payload |-> payload,
   channels |-> channels, timeout |-> 1, upstream |-> None, failOpen |-> FALSE]

\* x needs approval, y is denied, z is allowed by the second rule's precedence.
MCRules == <<[when |-> {x}, action |-> "require_approval"],
             [when |-> {z}, action |-> "transform"],
             [when |-> {y, z}, action |-> "deny"]>>

\* With a key the calls that need approval share a request.
MCInputs == {Ask(k, p, <<mail>>) : p \in {x, y, z}} \cup {Ask(NoKey, x, <<mail, chat>>)}
MCOneTool == {Ask(k, x, <<mail, chat>>)}

ProxySymmetry == Permutations(Calls) \cup Permutations(Requests)
==========================================================================
