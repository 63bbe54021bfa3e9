-------------------------- MODULE MCApprovalGate --------------------------
(* Instances of ApprovalGate for TLC. *)
EXTENDS ApprovalGate, TLC

CONSTANTS alice, bob, k, x, y, mail, chat

Ask(key, payload, channels, timeout, upstream, failOpen) ==
  [requester |-> alice, approver |-> bob, key |-> key, payload |-> payload,
   channels |-> channels, timeout |-> timeout, upstream |-> upstream, failOpen |-> failOpen]

\* Duplicates that share a key, one of them fail-open, one over another tool
\* call, and one that needs a second channel.
MCInputs == {Ask(k, x, <<mail>>, 2, None, FALSE), Ask(k, x, <<mail>>, 1, None, TRUE),
             Ask(k, y, <<mail>>, 2, 1, FALSE), Ask(NoKey, x, <<mail, chat>>, 2, None, FALSE)}

\* Two callers with one key and two channels.
MCTwoChannels == {Ask(k, x, <<mail, chat>>, 2, None, FALSE)}

GateSymmetry == Permutations(Calls) \cup Permutations(Requests)
==========================================================================
