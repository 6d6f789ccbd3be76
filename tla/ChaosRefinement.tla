-------------------------- MODULE ChaosRefinement --------------------------
(***************************************************************************)
(* KubeChaos, seen through the tables of the kernel and the labels of the  *)
(* live pods, does what ChaosContract says.                                *)
(***************************************************************************)
EXTENDS ChaosProperties

\* The pods that the agent's list request returns.
Member == Selected

\* The path of p's traffic in direction d.  An ifb that is down or a redirect
\* without a filter is neither clean nor a quality.
Path(p, d) ==
  {f \in Matching(d, AddressOf[p]) : veth[p][d] /\ link[d] /\ HasClass(d, f.flowid)}

Clean == [rate |-> "none", leaf |-> "none"]
Mixed == [rate |-> "mixed", leaf |-> "mixed"]

\* A pod that is gone has no traffic, whatever is left at its address.
NetOf(p, d) ==
  IF phase[p] = "deleted" \/ (~veth[p][d] /\ Matching(d, AddressOf[p]) = {}) THEN Clean
  ELSE IF Path(p, d) = {} THEN Mixed
  ELSE LET c == (CHOOSE f \in Path(p, d) : TRUE).flowid
       IN  [rate |-> rate[d][c], leaf |-> leaf[d][c]]

Contract == INSTANCE ChaosContract
  WITH member <- Member,
       net    <- [p \in Pods |-> [d \in Dirs |-> NetOf(p, d)]]

\* Every step of the agent and its cluster is a step of the contract or none:
\* while requests are open the traffic may change, and it is acknowledged only
\* when it is as asked (the loop of main, kube-chaos.go:82-271).
ImplementsContract == Contract!Spec
=============================================================================
