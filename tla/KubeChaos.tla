----------------------------- MODULE KubeChaos -----------------------------
(***************************************************************************)
(* One node of a cluster that runs kube-chaos: the agent's main loop       *)
(* (kube-chaos.go) with the shaper it calls (pkg/flow), the API server's   *)
(* view of the node and its pods, the users who label and annotate them,   *)
(* and the kernel's traffic-control state (TrafficControl).                *)
(*                                                                         *)
(* The agent is sequential: every command it executes is one step, and     *)
(* between two steps users, the CNI and the kubelet may move, and the      *)
(* agent may be killed.  What the environment may do to it is chosen by    *)
(* the constant Disruptions; each disruption costs one of MaxFaults.       *)
(***************************************************************************)
EXTENDS TrafficControl

CONSTANTS
  NoPod,         \* no pod is being processed
  AddressOf,     \* AddressOf[p]: the address the IPAM gives to p
  HostNetwork,   \* the pods without an interface of their own
  UserDirs,      \* the directions users annotate (bounds the model)
  Disruptions,   \* a subset of DisruptionKinds
  MaxFaults,     \* how many disruptions may happen
  MaxOps         \* how many operations the users perform

DisruptionKinds ==
  {"crash",      \* the agent is killed between two commands
   "tc",         \* a tc command fails for a reason outside the model
   "etcd",       \* etcdctl fails, the interface's name stays ""
   "list",       \* the request that gets the node, or lists the pods, fails
   "update",     \* UpdateStatus fails, or meets an unrelated newer version
   "early",      \* users annotate pods that have no address yet
   "relabel",    \* a pod loses its label and gets it back
   "clearOnly",  \* users set the clear key and leave the done key alone
   "overlap",    \* users set a new setting while a clear is pending
   "nodeClear",  \* users annotate the node with clear-chaos
   "hasty"}      \* users label the node again before its agent is gone

ASSUME KubeChaosAssumption ==
  /\ "clear" \notin Infos \cup {NoInfo}
  /\ NoPod \notin Pods
  /\ AddressOf \in [Pods -> Addresses]
  /\ HostNetwork \subseteq Pods
  /\ UserDirs \subseteq Dirs
  /\ Disruptions \subseteq DisruptionKinds
  /\ MaxFaults \in Nat
  /\ MaxOps \in Nat

VARIABLES
  \* the API server and the CNI's store
  phase,      \* phase[p]: how far p's life has come
  labelled,   \* the pods that carry the agent's label
  ann,        \* ann[p][d]: p's annotations for direction d
  nodeClear,  \* the node is annotated with clear-chaos
  nodeLabel,  \* the node carries the label that schedules the agent on it
  \* the agent
  pc,         \* the command the agent executes next
  todo,       \* the listed pods that the pass still has to process
  listed,     \* the pods whose address is in the list of this pass
  snap,       \* the annotations of the pods of todo and cur, as listed
  stale,      \* the pods of todo and cur that were written since they were listed
  cur,        \* the pod being processed
  iface,      \* the name of cur's interface is known
  dir,        \* the direction being processed
  cid,        \* the shaper's class id for dir, 0 for ""
  \* bounds
  faults,     \* disruptions so far
  ops,        \* user operations so far
  \* history, read by no action
  asked,      \* asked[p][d]: what users last asked for
  tried       \* tried[p][d]: what the agent last executed

bounds      == <<faults, ops>>
clusterVars == <<phase, labelled, ann, nodeClear, nodeLabel, ops, asked>>
heldVars    == <<todo, listed, snap, stale, cur, iface>>
agentVars   == <<pc, heldVars, dir, cid>>
vars        == <<tcVars, clusterVars, agentVars, faults, tried>>

Phases   == {"none", "created", "wired", "ready", "deleted"}
Live     == {"created", "wired", "ready"}
Stages   == {"linkUp", "initIfb",                             \* InitIfbModule
             "list", "pod",
             "reconcile", "wipe", "unredirect", "redirect",
             "addFilter", "addClass",                         \* Reconcile*Mirroring
             "delNetem", "addNetem", "rate", "netem",
             "unmirror", "resetFilter", "resetClass",         \* clear a direction
             "update",
             "sweepFilter", "sweepClass",                     \* DeleteExtraChaos
             "linkDown", "resetIfb",                          \* ClearIfb
             "clearPod", "clearMirroring", "clearUpdate",
             "parked", "stopped"}
Requests == Infos \cup {NoInfo, "clear"}

ClusterTypeOK ==
  /\ phase \in [Pods -> Phases]
  /\ labelled \subseteq Pods
  /\ ann \in [Pods -> [Dirs -> Annotation]]
  /\ nodeClear \in BOOLEAN /\ nodeLabel \in BOOLEAN
  /\ ops \in Nat
  /\ asked \in [Pods -> [Dirs -> Requests]]

AgentTypeOK ==
  /\ pc \in Stages
  /\ todo \subseteq Pods /\ listed \subseteq Pods /\ stale \subseteq Pods
  /\ snap \in [Pods -> [Dirs -> Annotation]]
  /\ cur \in Pods \cup {NoPod}
  /\ iface \in BOOLEAN
  /\ dir \in Dirs
  /\ cid \in ClassIds \cup {0}

TypeOK ==
  /\ TcTypeOK /\ ClusterTypeOK /\ AgentTypeOK
  /\ faults \in Nat
  /\ tried \in [Pods -> [Dirs -> Requests]]

Init ==
  /\ TcInit
  /\ phase = [p \in Pods |-> "none"]
  /\ labelled = {}
  /\ ann = [p \in Pods |-> Unannotated]
  /\ nodeClear = FALSE /\ nodeLabel = TRUE
  /\ pc = "linkUp"
  /\ todo = {} /\ listed = {} /\ stale = {}
  /\ snap = [p \in Pods |-> Unannotated]
  /\ cur = NoPod /\ iface = FALSE /\ dir = "egress" /\ cid = 0
  /\ faults = 0 /\ ops = 0
  /\ asked = [p \in Pods |-> [d \in Dirs |-> NoInfo]]
  /\ tried = [p \in Pods |-> [d \in Dirs |-> NoInfo]]

-----------------------------------------------------------------------------
(* Disruptions, and the outcome of a command.                              *)

Fault(kind) == kind \in Disruptions /\ faults < MaxFaults /\ faults' = faults + 1
Calm == UNCHANGED faults

\* The command takes effect if it can; if it cannot, or tc fails for a reason
\* of its own, the kernel stays as it is.
Run(can, effect, next, onError) ==
  \/ can /\ Calm /\ effect /\ next
  \/ ((~can /\ Calm) \/ Fault("tc")) /\ UNCHANGED tcVars /\ onError

\* A command whose error the code ignores, or logs and forgets.
Exec(can, effect, next) == Run(can, effect, next, next)

Goto(stage) == pc' = stage /\ UNCHANGED <<dir, cid>>

\* firstIFB, the device of the egress, is served before secondIFB.
NextIfb(stage) ==
  /\ IF dir = "egress" THEN dir' = "ingress" /\ UNCHANGED pc
                       ELSE dir' = "egress" /\ pc' = stage
  /\ UNCHANGED cid

\* Out of the middle of a walk over the devices.
Leap(stage) == pc' = stage /\ dir' = "egress" /\ UNCHANGED cid

At(stage) == pc = stage /\ UNCHANGED clusterVars

\* A step that belongs to the pod being processed.
On(stage) == At(stage) /\ UNCHANGED heldVars

\* The agent's local state at the start of a pass.
Forget ==
  /\ todo' = {} /\ listed' = {} /\ stale' = {}
  /\ snap' = [p \in Pods |-> Unannotated]
  /\ cur' = NoPod /\ iface' = FALSE /\ dir' = "egress" /\ cid' = 0

EndPass == pc' = "list" /\ Forget
Restart == pc' = "linkUp" /\ Forget

HasVeth(p) == phase[p] \in {"wired", "ready"} /\ p \notin HostNetwork

\* The interface of the pod being processed can be addressed.
Reachable == iface /\ HasVeth(cur)

-----------------------------------------------------------------------------
(* InitIfbModule: both devices up, then the root queue of each that lacks  *)
(* it.  The first error ends it, and the main loop starts all the same.    *)

LinkUp ==
  /\ On("linkUp") /\ UNCHANGED tried
  /\ Run(TRUE, LinkSet(dir, TRUE), NextIfb("initIfb"), Leap("list"))

InitIfb ==
  /\ On("initIfb") /\ UNCHANGED tried
  /\ Run(TRUE, IF root[dir] THEN UNCHANGED tcVars ELSE RootAdd(dir),
         NextIfb("list"), Leap("list"))

-----------------------------------------------------------------------------
(* The start of a pass: the node and its labelled pods are requested.  An  *)
(* error yields an empty node, or an empty list, and the pass goes on.     *)

Selected == {p \in labelled : phase[p] \in Live}

StartPass(items, clear) ==
  LET due == IF clear THEN items ELSE {p \in items : Updated(ann[p]) # {}}
  IN  /\ pc' = IF clear THEN "linkDown" ELSE "pod"
      /\ todo' = due
      /\ snap' = [p \in Pods |-> IF p \in due THEN ann[p] ELSE Unannotated]
      /\ listed' = IF clear THEN {} ELSE {p \in items : phase[p] = "ready"}
      /\ stale' = {}

List ==
  /\ At("list") /\ UNCHANGED <<tcVars, tried, cur, iface, dir, cid>>
  /\ \/ Calm /\ StartPass(Selected, nodeClear)
     \/ /\ Fault("list")
        /\ \E items \in {Selected, {}}, clear \in {nodeClear, FALSE} :
             StartPass(items, clear)

\* GetWorkload: the record is the second line of what etcdctl prints.  Without
\* a second line the agent panics: the CNI's store has no record of the pod, or
\* etcdctl fails and says so in one line.  When it fails in more words the
\* interface's name stays empty.  `found` is what follows when it returns.
GetWorkload(p, found) ==
  /\ UNCHANGED <<tcVars, tried>>
  /\ \/ HasVeth(p) /\ Calm /\ iface' = TRUE /\ cur' = p /\ found
     \/ ~HasVeth(p) /\ Calm /\ Restart
     \/ Fault("etcd") /\ Restart
     \/ Fault("etcd") /\ iface' = FALSE /\ cur' = p /\ found

\* A bug one could write: the clear key is not looked at.
BeginIgnoringClear(p, d) == pc' = "reconcile" /\ dir' = d /\ cid' = 0

\* The processing of direction d of pod p begins; the shaper has no class yet.
Begin(p, d) ==
  /\ pc' = IF NeedClear(snap[p][d]) THEN "unmirror" ELSE "reconcile"
  /\ dir' = d /\ cid' = 0

Pod(p) ==
  /\ At("pod") /\ p \in todo
  /\ GetWorkload(p, /\ Begin(p, IF "ingress" \in Updated(snap[p]) THEN "ingress" ELSE "egress")
                    /\ UNCHANGED <<todo, listed, snap, stale>>)

\* A bug one could write: one direction of the pod is executed, and whatever it
\* asks for is acknowledged.
LeaveAtOnce == pc' = "update" /\ cid' = 0 /\ UNCHANGED dir

\* Ingress is processed before egress.
Leave ==
  IF dir = "ingress" /\ "egress" \in Updated(snap[cur])
  THEN Begin(cur, "egress")
  ELSE pc' = "update" /\ cid' = 0 /\ UNCHANGED dir

-----------------------------------------------------------------------------
(* Chaos on a direction of the pod: ReconcileIngressMirroring and its twin *)
(* find or make the class of the pod's address, then the class gets a      *)
(* fresh netem queue, then ExecTcChaos sets its rate and the parameters.   *)

\* findCIDRClass fails when the pod had no address when it was listed.
HasCidr == cur \in listed

Found(f) == HasCidr /\ Finds(f, dir, AddressOf[cur])

\* A bug one could write: the filters are not looked through.
NotFoundUnlooked == HasCidr

NotFound == HasCidr /\ Matching(dir, AddressOf[cur]) = {}

Reconcile ==
  /\ On("reconcile") /\ UNCHANGED <<tcVars, tried>>
  /\ \/ /\ Calm
        /\ \E f \in filters[dir] :
             /\ Found(f)
             /\ IF HasClass(dir, f.flowid)
                THEN pc' = "delNetem" /\ cid' = f.flowid /\ UNCHANGED dir
                ELSE Goto("wipe")
     \/ NotFound /\ Calm /\ Goto("unredirect")
     \/ ((~HasCidr /\ Calm) \/ Fault("tc")) /\ Goto("delNetem")

\* A bug one could write: the useless filter stays.
WipeNothing ==
  /\ On("wipe") /\ UNCHANGED <<tcVars, faults, tried>>
  /\ Goto("unredirect")

\* "Delete the useless filter": the command names no handle.
Wipe ==
  /\ On("wipe") /\ UNCHANGED tried
  /\ Run(TRUE, FilterDelAll(dir), Goto("unredirect"), Goto("delNetem"))

Unredirect ==
  /\ On("unredirect") /\ UNCHANGED tried
  /\ Exec(Reachable, VethSet(cur, dir, FALSE), Goto("redirect"))

\* The queues of the veth and, as the last command, the filter that redirects.
\* The first of them is refused as long as the old queue is there.
Redirect ==
  /\ On("redirect") /\ UNCHANGED tried
  /\ Run(Reachable /\ ~veth[cur][dir], VethSet(cur, dir, TRUE), Goto("addFilter"), Goto("delNetem"))

\* nextClassID, then the filter; the shaper keeps the id if the filter fails.
AddFilter ==
  /\ On("addFilter") /\ UNCHANGED tried
  /\ \/ \E n \in ClassIds :
          /\ IsNextClassID(n, classes[dir])
          /\ cid' = n /\ UNCHANGED dir
          /\ Run(CanAddFilter(dir), FilterAdd(dir, AddressOf[cur], n),
                 pc' = "addClass", pc' = "delNetem")
     \/ /\ (ClassIds \subseteq classes[dir] /\ Calm) \/ Fault("tc")
        /\ UNCHANGED tcVars /\ Goto("delNetem")

AddClass ==
  /\ On("addClass") /\ UNCHANGED tried
  /\ Exec(CanAddClass(dir, cid), ClassAdd(dir, cid), Goto("delNetem"))

DelNetem ==
  /\ On("delNetem") /\ UNCHANGED tried
  /\ Exec(HasLeaf(dir, cid), LeafSet(dir, cid, Pfifo), Goto("addNetem"))

AddNetem ==
  /\ On("addNetem") /\ UNCHANGED tried
  /\ Exec(LacksLeaf(dir, cid), LeafSet(dir, cid, Netem), Goto("rate"))

\* ExecTcChaos: nothing to do without a setting; when tc refuses the rate the
\* error is lost and the netem parameters are set all the same.
Setting == snap[cur][dir].info

Rate ==
  /\ On("rate")
  /\ \/ /\ Setting = NoInfo
        /\ Calm /\ UNCHANGED tcVars /\ Leave
        /\ tried' = [tried EXCEPT ![cur][dir] = NoInfo]
     \/ /\ Setting # NoInfo /\ UNCHANGED tried
        /\ Exec(HasClass(dir, cid) /\ Accepts(RateOf(Setting)),
                ClassChange(dir, cid, RateOf(Setting)), Goto("netem"))

SetNetem ==
  /\ On("netem") /\ Setting # NoInfo
  /\ Exec(HasLeaf(dir, cid) /\ Accepts(NetemOf(Setting)),
          LeafSet(dir, cid, NetemOf(Setting)), Leave)
  /\ tried' = [tried EXCEPT ![cur][dir] = Setting]

-----------------------------------------------------------------------------
(* The end of chaos on a direction of the pod, and the acknowledgement.    *)

Unmirror ==
  /\ On("unmirror")
  /\ Exec(Reachable, VethSet(cur, dir, FALSE), Goto("resetFilter"))
  /\ tried' = [tried EXCEPT ![cur][dir] = "clear"]

\* Reset: the filter, then the class it led to.
ResetFilter ==
  /\ On("resetFilter") /\ UNCHANGED tried
  /\ \/ \E f \in filters[dir] :
          /\ Found(f) /\ Calm
          /\ FilterDel(dir, f)
          /\ pc' = "resetClass" /\ cid' = f.flowid /\ UNCHANGED dir
     \/ /\ ((NotFound \/ ~HasCidr) /\ Calm) \/ Fault("tc")
        /\ UNCHANGED tcVars /\ Leave

\* A bug one could write: the class is left behind.
ResetClassNever ==
  /\ On("resetClass") /\ UNCHANGED <<tcVars, faults, tried>>
  /\ Leave

ResetClass ==
  /\ On("resetClass") /\ UNCHANGED tried
  /\ Exec(HasClass(dir, cid), ClassDel(dir, cid), Leave)

\* The API server refuses a pod that is gone, and one that was written since
\* the agent listed it.
UpdateAccepted == cur \notin stale /\ phase[cur] \in Live

\* The turn of cur is over.
NextPod(stage) ==
  /\ pc' = stage
  /\ todo' = todo \ {cur} /\ stale' = stale \ {cur}
  /\ snap' = [snap EXCEPT ![cur] = Unannotated]
  /\ cur' = NoPod /\ iface' = FALSE /\ dir' = "egress" /\ cid' = 0
  /\ UNCHANGED <<tcVars, tried, phase, labelled, nodeClear, nodeLabel, ops, asked, listed>>

\* A bug one could write: the pod is sent without its listed version.
UpdateStatusForced(stage, anns) ==
  /\ \/ phase[cur] \in Live /\ Calm /\ ann' = [ann EXCEPT ![cur] = anns]
     \/ ((phase[cur] \notin Live /\ Calm) \/ Fault("update")) /\ UNCHANGED ann
  /\ NextPod(stage)

\* A bug one could write: a pod whose update is refused is taken again.
UpdateStatusRetried(stage, anns) ==
  \/ UpdateAccepted /\ Calm /\ ann' = [ann EXCEPT ![cur] = anns] /\ NextPod(stage)
  \/ /\ ((~UpdateAccepted /\ Calm) \/ Fault("update")) /\ UNCHANGED clusterVars
     /\ Leap(stage) /\ cur' = NoPod /\ iface' = FALSE
     /\ UNCHANGED <<tcVars, tried, todo, listed, snap, stale>>

\* UpdateStatus sends the listed copy of the pod, and its error is ignored.
UpdateStatus(stage, anns) ==
  /\ \/ UpdateAccepted /\ Calm /\ ann' = [ann EXCEPT ![cur] = anns]
     \/ ((~UpdateAccepted /\ Calm) \/ Fault("update")) /\ UNCHANGED ann
  /\ NextPod(stage)

Update ==
  /\ pc = "update"
  /\ UpdateStatus("pod",
       SetPodChaosUpdated(snap[cur], Updated(snap[cur]), Cleared(snap[cur])))

-----------------------------------------------------------------------------
(* DeleteExtraChaos: the filters of the addresses that are not in the list *)
(* of the pass, and their classes.  The first error ends it.               *)

StartSweep ==
  /\ On("pod") /\ UNCHANGED <<tcVars, faults, tried>>
  /\ todo = {} /\ Goto("sweepFilter")

\* Bugs one could write: the list of the pass is not looked at, or secondIFB is
\* forgotten.
ExtraIgnoringList(d) == filters[d]
ExtraFirstOnly(d) ==
  {f \in filters[d] : d = "egress" /\ f.cidr \notin {AddressOf[p] : p \in listed}}

Extra(d) == {f \in filters[d] : f.cidr \notin {AddressOf[p] : p \in listed}}

SweepFilter ==
  /\ At("sweepFilter") /\ UNCHANGED tried
  /\ \/ \E f \in Extra(dir) :
          /\ Calm /\ FilterDel(dir, f)
          /\ pc' = "sweepClass" /\ cid' = f.flowid /\ UNCHANGED <<heldVars, dir>>
     \/ /\ Extra(dir) = {} /\ Calm /\ UNCHANGED tcVars
        /\ IF dir = "egress" THEN NextIfb("list") /\ UNCHANGED heldVars ELSE EndPass
     \/ Fault("tc") /\ UNCHANGED tcVars /\ EndPass

SweepClass ==
  /\ At("sweepClass") /\ UNCHANGED tried
  /\ Run(HasClass(dir, cid), ClassDel(dir, cid),
         pc' = "sweepFilter" /\ cid' = 0 /\ UNCHANGED <<heldVars, dir>>,
         EndPass)

-----------------------------------------------------------------------------
(* The node is being cleared: ClearIfb, then every labelled pod, then the  *)
(* node's annotation and its label; after that the agent only sleeps.      *)

\* A bug one could write: only firstIFB is set down.
LinkDownFirstOnly ==
  /\ On("linkDown") /\ UNCHANGED tried
  /\ Run(TRUE, LinkSet(dir, FALSE), Leap("resetIfb"), Leap("clearPod"))

LinkDown ==
  /\ On("linkDown") /\ UNCHANGED tried
  /\ Run(TRUE, LinkSet(dir, FALSE), NextIfb("resetIfb"), Leap("clearPod"))

ResetIfb ==
  /\ On("resetIfb") /\ UNCHANGED tried
  /\ Run(root[dir], RootDel(dir), NextIfb("clearPod"), Leap("clearPod"))

ClearPod(p) ==
  /\ At("clearPod") /\ p \in todo
  /\ GetWorkload(p, /\ pc' = "clearMirroring" /\ dir' = "ingress"
                    /\ UNCHANGED <<todo, listed, snap, stale, cid>>)

\* A bug one could write: the pod's turn ends with its ingress.
ClearMirroringIngressOnly ==
  /\ On("clearMirroring") /\ UNCHANGED tried
  /\ Exec(Reachable, VethSet(cur, dir, FALSE), Goto("clearUpdate"))

ClearMirroring ==
  /\ On("clearMirroring") /\ UNCHANGED tried
  /\ Exec(Reachable, VethSet(cur, dir, FALSE),
          IF dir = "ingress" THEN dir' = "egress" /\ UNCHANGED <<pc, cid>>
                             ELSE Goto("clearUpdate"))

ClearUpdate ==
  /\ pc = "clearUpdate"
  /\ UpdateStatus("clearPod", SetPodChaosUpdated(snap[cur], {}, Dirs))

\* A bug one could write: the changed node is not sent.
ClearNodeUnsent ==
  /\ pc = "clearPod" /\ todo = {} /\ Calm
  /\ Goto("parked") /\ UNCHANGED <<tcVars, clusterVars, heldVars, tried>>

ClearNode ==
  /\ pc = "clearPod" /\ todo = {}
  /\ \/ Calm /\ nodeClear' = FALSE /\ nodeLabel' = FALSE
     \/ Fault("update") /\ UNCHANGED <<nodeClear, nodeLabel>>
  /\ Goto("parked") /\ UNCHANGED heldVars
  /\ UNCHANGED <<tcVars, tried, phase, labelled, ann, ops, asked>>

-----------------------------------------------------------------------------
(* The agent's life: it runs on the nodes that carry its label.            *)

Loop ==
  \/ LinkUp \/ InitIfb \/ List
  \/ \E p \in Pods : Pod(p)
  \/ Reconcile \/ Wipe \/ Unredirect \/ Redirect \/ AddFilter \/ AddClass
  \/ DelNetem \/ AddNetem \/ Rate \/ SetNetem
  \/ Unmirror \/ ResetFilter \/ ResetClass \/ Update
  \/ StartSweep \/ SweepFilter \/ SweepClass
  \/ LinkDown \/ ResetIfb
  \/ \E p \in Pods : ClearPod(p)
  \/ ClearMirroring \/ ClearUpdate \/ ClearNode

Crash ==
  /\ pc # "stopped" /\ Fault("crash") /\ Restart
  /\ UNCHANGED <<tcVars, clusterVars, tried>>

Kill ==
  /\ pc # "stopped" /\ ~nodeLabel
  /\ pc' = "stopped" /\ Forget
  /\ UNCHANGED <<tcVars, clusterVars, faults, tried>>

Start ==
  /\ pc = "stopped" /\ nodeLabel /\ Restart
  /\ UNCHANGED <<tcVars, clusterVars, faults, tried>>

-----------------------------------------------------------------------------
(* The cluster around the agent: pods come, are wired by the CNI, get      *)
(* their address into the API server and go; users label and annotate.     *)

AroundAgent == UNCHANGED <<pc, todo, listed, snap, cur, iface, dir, cid, faults>>

\* p is written: the version the agent listed is no longer the current one.
Touch(p) == stale' = IF p \in todo \cup {cur} THEN stale \cup {p} ELSE stale

Operate == ops < MaxOps /\ ops' = ops + 1

CreatePod(p) ==
  /\ phase[p] = "none" /\ Operate
  /\ phase' = [phase EXCEPT ![p] = "created"]
  /\ labelled' \in {labelled, labelled \cup {p}}
  /\ AroundAgent
  /\ UNCHANGED <<tcVars, ann, nodeClear, nodeLabel, asked, tried, stale>>

\* The CNI makes the interface and its record; an address is in use once.
Wire(p) ==
  /\ phase[p] = "created" /\ p \notin HostNetwork
  /\ \A q \in Pods \ {p} : HasVeth(q) => AddressOf[q] # AddressOf[p]
  /\ phase' = [phase EXCEPT ![p] = "wired"]
  /\ AroundAgent
  /\ UNCHANGED <<tcVars, labelled, ann, nodeClear, nodeLabel, ops, asked, tried, stale>>

\* The kubelet reports the address.
AssignIP(p) ==
  /\ phase[p] = IF p \in HostNetwork THEN "created" ELSE "wired"
  /\ phase' = [phase EXCEPT ![p] = "ready"]
  /\ Touch(p) /\ AroundAgent
  /\ UNCHANGED <<tcVars, labelled, ann, nodeClear, nodeLabel, ops, asked, tried>>

DeletePod(p) ==
  /\ phase[p] \in Live /\ Operate
  /\ phase' = [phase EXCEPT ![p] = "deleted"]
  /\ labelled' = labelled \ {p}
  /\ ann' = [ann EXCEPT ![p] = Unannotated]
  /\ asked' = [asked EXCEPT ![p] = [d \in Dirs |-> NoInfo]]
  /\ tried' = [tried EXCEPT ![p] = [d \in Dirs |-> NoInfo]]
  /\ VethGone(p)
  /\ AroundAgent /\ UNCHANGED <<nodeClear, nodeLabel, stale>>

\* A user writes annotations of direction d.
Annotate(p, d, a, wish) ==
  /\ phase[p] = "ready" \/ (phase[p] \in Live /\ "early" \in Disruptions)
  /\ d \in UserDirs /\ Operate
  /\ ann' = [ann EXCEPT ![p][d] = a]
  /\ asked' = [asked EXCEPT ![p][d] = wish]
  /\ Touch(p) /\ AroundAgent
  /\ UNCHANGED <<tcVars, phase, labelled, nodeClear, nodeLabel, tried>>

UserSet(p, d, i) ==
  /\ ann[p][d].clear => "overlap" \in Disruptions
  /\ Annotate(p, d, [ann[p][d] EXCEPT !.info = i, !.done = "no"], i)

UserRetry(p, d) ==
  /\ ann[p][d].done # "no"
  /\ Annotate(p, d, [ann[p][d] EXCEPT !.done = "no"],
              IF ann[p][d].clear THEN asked[p][d] ELSE ann[p][d].info)

UserClear(p, d) ==
  Annotate(p, d, [ann[p][d] EXCEPT !.clear = TRUE, !.done = "no"], "clear")

UserClearOnly(p, d) ==
  /\ "clearOnly" \in Disruptions /\ ann[p][d].done = "yes"
  /\ Annotate(p, d, [ann[p][d] EXCEPT !.clear = TRUE], "clear")

Acked(p) == \E d \in Dirs : ann[p][d].done = "yes"

SetLabel(p) ==
  /\ phase[p] \in Live /\ Operate
  /\ \/ p \in labelled /\ labelled' = labelled \ {p}
     \/ /\ p \notin labelled /\ labelled' = labelled \cup {p}
        /\ Acked(p) => "relabel" \in Disruptions
  /\ Touch(p) /\ AroundAgent
  /\ UNCHANGED <<tcVars, phase, ann, nodeClear, nodeLabel, asked, tried>>

UserClearNode ==
  /\ "nodeClear" \in Disruptions /\ ~nodeClear /\ Operate
  /\ nodeClear' = TRUE
  /\ AroundAgent
  /\ UNCHANGED <<tcVars, phase, labelled, ann, nodeLabel, asked, tried, stale>>

LabelNode ==
  /\ ~nodeLabel /\ Operate
  /\ pc = "stopped" \/ "hasty" \in Disruptions
  /\ nodeLabel' = TRUE
  /\ AroundAgent
  /\ UNCHANGED <<tcVars, phase, labelled, ann, nodeClear, asked, tried, stale>>

-----------------------------------------------------------------------------

Cluster ==
  \/ \E p \in Pods :
       \/ CreatePod(p) \/ Wire(p) \/ AssignIP(p) \/ DeletePod(p) \/ SetLabel(p)
       \/ \E d \in UserDirs :
            \/ \E i \in Infos : UserSet(p, d, i)
            \/ UserRetry(p, d) \/ UserClear(p, d) \/ UserClearOnly(p, d)
  \/ UserClearNode \/ LabelNode

Next == Loop \/ Crash \/ Kill \/ Start \/ Cluster

Spec == Init /\ [][Next]_vars

\* The agent's process runs whenever it can; so do the CNI, the kubelet and
\* the DaemonSet controller.  Users owe nothing, and nothing has to fail.
Fairness ==
  /\ WF_vars(Loop) /\ WF_vars(Kill) /\ WF_vars(Start)
  /\ \A p \in Pods : WF_vars(Wire(p)) /\ WF_vars(AssignIP(p))

FairSpec == Spec /\ Fairness
=============================================================================
