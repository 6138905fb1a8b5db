-------------------------- MODULE EnergizationSpec --------------------------
(***************************************************************************)
(* What solve_energization promises, in one step: for every node id the    *)
(* network mentions, a verdict that depends on supply alone (Verdicts in   *)
(* Network), whatever traversal finds it.                                  *)
(***************************************************************************)
EXTENDS Network

CONSTANT Networks   \* the networks a caller may pass

VARIABLES
  network,   \* the caller's argument
  verdict    \* NoVerdict until the call returns

vars == <<network, verdict>>

NoVerdict == <<>>

Init ==
  /\ network \in Networks
  /\ verdict = NoVerdict

Solve ==
  /\ verdict = NoVerdict
  /\ verdict' \in [CollectNodeIds(network) -> Verdict]
  /\ \A n \in CollectNodeIds(network) : verdict'[n] \in Verdicts(network, n)
  /\ UNCHANGED network

Spec == Init /\ [][Solve]_vars

=============================================================================
