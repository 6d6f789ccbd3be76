-------------------------- MODULE ChaosProperties --------------------------
(***************************************************************************)
(* What kube-chaos promises, stated over the states and steps of           *)
(* KubeChaos.  Which disruptions a promise survives is said by the runs    *)
(* that check it (README.md has the table).                                *)
(***************************************************************************)
EXTENDS KubeChaos, FiniteSets

-----------------------------------------------------------------------------
(* The tables of the kernel.                                               *)

\* No two filters of an ifb lead to one class, so every pod's traffic is
\* limited apart from the others' (findCIDRClass, nextClassID, filter add and
\* class add of Reconcile*Mirroring; doc/README.md:24).
ClassIsolation ==
  \A d \in Dirs : \A f, g \in filters[d] : f.flowid = g.flowid => f = g

\* An address has at most one filter on an ifb, whatever fails and whenever
\* the agent is killed: Reset and findCIDRClass look at the first one only.
OneFilterPerCidr ==
  \A d \in Dirs : \A f, g \in filters[d] : f.cidr = g.cidr => f = g

\* The class of which Reset has just deleted the filter.
BeingReset(d, c) == pc \in {"resetClass", "sweepClass"} /\ dir = d /\ cid = c

\* Every class is reached by a filter, but for the one that Reset is about to
\* delete: nothing else would ever delete it, and ids are finite.
NoLeakedClass ==
  \A d \in Dirs : \A c \in classes[d] :
    (\E f \in filters[d] : f.flowid = c) \/ BeingReset(d, c)

\* When a pod is to get a filter there is a class id and a handle for it: those
\* of settings that were cleared or replaced can be had again, and no pod holds
\* two (nextClassID and filter add of Reconcile*Mirroring, Reset).
RoomIsLeft ==
  pc = "addFilter" =>
    (\E n \in ClassIds : IsNextClassID(n, classes[dir])) /\ CanAddFilter(dir)

-----------------------------------------------------------------------------
(* The annotations against the kernel.                                     *)

\* The traffic of p in direction d passes through a class of its address with
\* the rate and the netem parameters of setting i.  A setting without a rate
\* means no limit (doc/README.md:178), whatever the class had before.
Applied(p, d, i) ==
  /\ veth[p][d] /\ link[d]
  /\ \E f \in Matching(d, AddressOf[p]) :
       /\ HasClass(d, f.flowid)
       /\ rate[d][f.flowid] \in (IF RateField[i] = "" THEN {FullRate} ELSE {RateField[i]})
       /\ leaf[d][f.flowid] = NetemOf(i)

\* "yes" in the done key of a labelled pod means that its current setting is
\* what its traffic goes through, unless tc refuses a field of it; a refused
\* setting before it leaves no trace (ExtractPodChaosInfo to
\* SetPodChaosUpdated; doc/README.md:139-140 and 220).
DoneMeansApplied ==
  \A p \in labelled, d \in Dirs :
    LET a == ann[p][d]
    IN  phase[p] = "ready" /\ a.done = "yes" /\ a.info # NoInfo /\ Valid(a.info)
          => Applied(p, d, a.info)

\* Once the keys of a direction are gone nothing of kube-chaos is left on that
\* traffic of the pod: no redirect, and no filter of its address
\* (Clear*Mirroring, Reset, SetPodChaosUpdated; doc/README.md:66 and 226).
AbsentMeansClean ==
  \A p \in Pods, d \in Dirs :
    phase[p] = "ready" /\ ann[p][d] = NoAnnotation =>
      ~veth[p][d] /\ Matching(d, AddressOf[p]) = {}

\* The done key says "yes" only of what users asked for last: a write that the
\* agent had not listed is never acknowledged unseen (UpdateStatus carries the
\* listed version), whatever fails.
AckIsCurrent ==
  \A p \in Pods, d \in Dirs :
    phase[p] \in Live /\ ann[p][d].done = "yes" /\ ~NeedClear(ann[p][d]) =>
      tried[p][d] = asked[p][d]

\* A setting that users asked for last is still in the annotations, or was
\* cleared by their request: no write of the agent puts an older one back
\* (UpdateStatus carries the listed version; doc/README.md:219-220), unless
\* users write it beside a clear key that is still pending.
SettingKept ==
  \A p \in Pods, d \in Dirs :
    asked[p][d] \in Infos => ann[p][d].info = asked[p][d]

\* The chaos of one pod is set up and torn down without a change to the class
\* or the filter of another pod that is in the list of the pass (the comment
\* at pkg/flow/tcshaper.go:301 and 421, doc/README.md:24).
Share(q, d) == {<<f, f.flowid \in classes[d], rate[d][f.flowid], leaf[d][f.flowid]>> :
                  f \in Matching(d, AddressOf[q])}

SeparateControl ==
  [][\A q \in Pods, d \in Dirs : Share(q, d)' # Share(q, d) /\ q \in listed => cur = q]_vars

\* In particular a listed pod does not lose its filter to another one's turn.
FiltersOfOthersKept ==
  [][\A q \in listed, d \in Dirs :
       Matching(d, AddressOf[q]) # {} /\ Matching(d, AddressOf[q])' = {} => cur = q]_vars

-----------------------------------------------------------------------------
(* The end of chaos on the node.                                           *)

\* When the agent has cleared the node nothing is left of the ifb devices'
\* configuration, though the agent may have been killed half way through an
\* earlier attempt (ClearIfb and the clear branch of main; doc/README.md:259).
ParkedIsClean ==
  pc = "parked" =>
    \A d \in Dirs : ~link[d] /\ ~root[d] /\ filters[d] = {} /\ classes[d] = {}

\* By then a labelled pod has no keys left and passes nothing on to the dead
\* devices, unless a user has asked for something since the pods were listed
\* (ClearIngressMirroring, ClearEgressMirroring and the pod's UpdateStatus,
\* kube-chaos.go:111-131; doc/README.md:72).
Released(p) == ann[p] = Unannotated /\ \A d \in Dirs : ~veth[p][d]

ParkedPodsAreReleased ==
  pc = "parked" => \A p \in Selected : Released(p) \/ Updated(ann[p]) # {}

\* The same of every pod of the node, as doc/README.md:259 has it: all settings
\* of the node are cleaned.  A pod that has lost its label is not in the list.
NothingIsMirroredToTheDead ==
  pc = "parked" =>
    \A p \in Pods : phase[p] = "ready" /\ Updated(ann[p]) = {} => \A d \in Dirs : ~veth[p][d]

-----------------------------------------------------------------------------
(* No pass goes on for ever.                                               *)

InPass == pc \in Stages \ {"linkUp", "initIfb", "list", "parked", "stopped"}

\* How many of the agent's steps are left in each stage until the pod, or the
\* pass, is done with, when there is no other direction to come.
AheadOf ==
  [reconcile |-> 16, wipe |-> 15, unredirect |-> 14, redirect |-> 13, addFilter |-> 12,
   addClass |-> 9, delNetem |-> 8, addNetem |-> 7, rate |-> 6, netem |-> 5,
   unmirror |-> 7, resetFilter |-> 6, resetClass |-> 5, update |-> 4,
   pod |-> 3, sweepClass |-> 2, sweepFilter |-> 1,
   linkDown |-> 6, resetIfb |-> 4, clearPod |-> 3, clearMirroring |-> 5, clearUpdate |-> 4]

\* A walk over the devices begins with the egress, a pod's turn with the ingress.
OtherDirection ==
  IF pc \in {"sweepFilter", "sweepClass", "linkDown", "resetIfb"}
  THEN IF dir = "egress" THEN 1 ELSE 0
  ELSE IF dir = "ingress" THEN 12 ELSE 0

PodsAhead == Cardinality(todo \ {cur})
FilterCount == Cardinality(filters["egress"]) + Cardinality(filters["ingress"])

\* At most so many commands are left of the pass: a pod takes 26, a filter to be
\* swept takes two, also one that is added meanwhile.
StepsAhead == 26 * PodsAhead + 2 * FilterCount + AheadOf[pc] + OtherDirection

\* Every pass ends, whatever fails in it and whatever users do meanwhile: each of
\* the agent's steps brings its end nearer, and nobody puts it off.  There is no
\* retry within a pass: a refused update or a failed command waits for the next
\* one (the loops over the pods and the extra filters, kube-chaos.go:156-264 and
\* DeleteExtraChaos).
EveryPassEnds ==
  [][InPass /\ InPass' =>
       StepsAhead' \in 0 .. StepsAhead /\ (Loop => StepsAhead' < StepsAhead)]_vars

-----------------------------------------------------------------------------
(* What must happen.                                                       *)

Pending(p) ==
  nodeLabel /\ p \in labelled /\ phase[p] = "ready" /\ \E d \in Dirs : NeedUpdate(ann[p][d])

\* On a node that carries the label, a request of a labelled pod with an
\* interface of its own is answered: each pass lists the pod again until an
\* update is accepted (doc/README.md:233 and 253).
RequestAnswered == \A p \in Pods \ HostNetwork : Pending(p) ~> ~Pending(p)

\* A filter whose address belongs to no labelled pod is removed in the end
\* (DeleteExtraChaos; kube-chaos.go:259).
Orphaned(d, a) ==
  /\ Matching(d, a) # {}
  /\ \A p \in labelled : AddressOf[p] # a

ExtraChaosRemoved == \A d \in Dirs, a \in Addresses : Orphaned(d, a) ~> ~Orphaned(d, a)

\* When the clearing of a node is requested, the node does not keep both the
\* request and the agent (kube-chaos.go:137-144; doc/README.md:72).
NodeClearCompletes == (nodeClear /\ nodeLabel) ~> ~(nodeClear /\ nodeLabel)
=============================================================================
