-------------------------- MODULE KubeChaosProofs --------------------------
(***************************************************************************)
(* Proofs about KubeChaos for all pods, addresses, settings, class ids and *)
(* bounds: type correctness, that the tables of the kernel stay in order,  *)
(* and that each pod has its own share of them.                            *)
(***************************************************************************)
EXTENDS ChaosProperties, TLAPS

-----------------------------------------------------------------------------
(* Why the tables stay in order: the inductive invariants behind           *)
(* OneFilterPerCidr, ClassIsolation and NoLeakedClass.                     *)

\* The stages in which the agent works on a pod.
PodStages == {"reconcile", "wipe", "unredirect", "redirect", "addFilter", "addClass",
              "delNetem", "addNetem", "rate", "netem", "unmirror", "resetFilter",
              "resetClass", "update", "clearMirroring", "clearUpdate"}

\* Chaos is set up, or ended, for a direction of a pod; the node is cleared.
ChaosStages == {"reconcile", "wipe", "unredirect", "redirect", "addFilter", "addClass",
                "delNetem", "addNetem", "rate", "netem"}
ResetStages == {"unmirror", "resetFilter", "resetClass"}
ClearStages == {"linkDown", "resetIfb", "clearPod", "clearMirroring", "clearUpdate"}

CurIsPod == pc \in PodStages => cur \in Pods

TypeInv == TypeOK /\ CurIsPod

\* Between the search that finds no filter of the pod's address, or the wipe,
\* and the command that adds one, there is none.
AddressIsFree ==
  pc \in {"unredirect", "redirect", "addFilter"} => Matching(dir, AddressOf[cur]) = {}

CidrInv == TypeInv /\ AddressIsFree /\ OneFilterPerCidr

\* A filter leads to a class, or to the id the agent is about to make one of.
FiltersLead ==
  \A d \in Dirs : \A f \in filters[d] :
    f.flowid \in classes[d] \/ (pc = "addClass" /\ dir = d /\ cid = f.flowid)

\* The id chosen by nextClassID is still free when the class is added, and a
\* filter waits for it.
ClassIsDue ==
  pc = "addClass" =>
    /\ root[dir] /\ cid \in ClassIds \ classes[dir]
    /\ \E f \in filters[dir] : f.flowid = cid

\* The class that is about to be deleted has lost its filter.
ClassIsFree ==
  pc \in {"resetClass", "sweepClass"} => \A f \in filters[dir] : f.flowid # cid

\* The agent is not killed half way: its label goes only once it is parked,
\* and a filter without a class is never met.
NotInterrupted == pc # "wipe" /\ (nodeLabel \/ pc \in {"parked", "stopped"})

ClassInv ==
  /\ TypeInv /\ NotInterrupted
  /\ FiltersLead /\ ClassIsDue /\ ClassIsFree
  /\ ClassIsolation /\ NoLeakedClass

-----------------------------------------------------------------------------
(* The commands keep the types of the kernel's tables.                     *)

LEMMA FilterAddType ==
  ASSUME TcTypeOK, NEW d \in Dirs, NEW a \in Addresses, NEW c \in ClassIds,
         FilterAdd(d, a, c)
  PROVE  TcTypeOK'
<1>1. PICK h \in Handles :
        filters' = [filters EXCEPT ![d] = @ \cup {[cidr |-> a, flowid |-> c, handle |-> h]}]
  BY DEF FilterAdd
<1>2. [cidr |-> a, flowid |-> c, handle |-> h] \in Filter
  BY DEF Filter
<1> QED
  BY <1>1, <1>2 DEF TcTypeOK, FilterAdd

LEMMA FilterDelType ==
  ASSUME TcTypeOK, NEW d \in Dirs, NEW f, FilterDel(d, f)
  PROVE  TcTypeOK'
BY DEF TcTypeOK, FilterDel

LEMMA FilterDelAllType ==
  ASSUME TcTypeOK, NEW d \in Dirs, FilterDelAll(d)
  PROVE  TcTypeOK'
BY DEF TcTypeOK, FilterDelAll

LEMMA ClassAddType ==
  ASSUME TcTypeOK, NEW d \in Dirs, NEW c \in ClassIds, ClassAdd(d, c)
  PROVE  TcTypeOK'
BY DEF TcTypeOK, ClassAdd

LEMMA ClassDelType ==
  ASSUME TcTypeOK, NEW d \in Dirs, NEW c, ClassDel(d, c)
  PROVE  TcTypeOK'
BY DEF TcTypeOK, ClassDel, Rates, Leaves

LEMMA ClassChangeType ==
  ASSUME TcTypeOK, NEW d \in Dirs, NEW c, NEW r \in Rates, ClassChange(d, c, r)
  PROVE  TcTypeOK'
BY DEF TcTypeOK, ClassChange

LEMMA LeafSetType ==
  ASSUME TcTypeOK, NEW d \in Dirs, NEW c, NEW q \in Leaves, LeafSet(d, c, q)
  PROVE  TcTypeOK'
BY DEF TcTypeOK, LeafSet

LEMMA VethSetType ==
  ASSUME TcTypeOK, NEW p, NEW d \in Dirs, NEW on \in BOOLEAN, VethSet(p, d, on)
  PROVE  TcTypeOK'
BY DEF TcTypeOK, VethSet

LEMMA VethGoneType ==
  ASSUME TcTypeOK, NEW p, VethGone(p)
  PROVE  TcTypeOK'
BY DEF TcTypeOK, VethGone

LEMMA LinkSetType ==
  ASSUME TcTypeOK, NEW d \in Dirs, NEW on \in BOOLEAN, LinkSet(d, on)
  PROVE  TcTypeOK'
BY DEF TcTypeOK, LinkSet

LEMMA RootAddType ==
  ASSUME TcTypeOK, NEW d \in Dirs, RootAdd(d)
  PROVE  TcTypeOK'
BY DEF TcTypeOK, RootAdd

LEMMA RootDelType ==
  ASSUME TcTypeOK, NEW d \in Dirs, RootDel(d)
  PROVE  TcTypeOK'
BY DEF TcTypeOK, RootDel, Rates, Leaves

LEMMA TcIdle ==
  ASSUME TcTypeOK, UNCHANGED tcVars
  PROVE  TcTypeOK'
BY DEF TcTypeOK, tcVars

-----------------------------------------------------------------------------
(* The parts of a step.                                                    *)

LEMMA FaultsType ==
  ASSUME faults \in Nat, NEW kind, Calm \/ Fault(kind)
  PROVE  faults' \in Nat
BY DEF Calm, Fault

\* A step on the pod being processed keeps the types if the kernel's tables
\* and the variables it may change do.
LEMMA OnType ==
  ASSUME TypeInv, UNCHANGED <<clusterVars, heldVars>>,
         TcTypeOK', faults' \in Nat, tried' \in [Pods -> [Dirs -> Requests]],
         pc' \in Stages, pc' \in PodStages => cur \in Pods,
         dir' \in Dirs, cid' \in ClassIds \cup {0}
  PROVE  TypeInv'
BY DEF TypeInv, TypeOK, ClusterTypeOK, AgentTypeOK, CurIsPod, clusterVars, heldVars

LEMMA AnnotationOfCur ==
  ASSUME TypeInv, NEW p \in Pods, NEW d \in Dirs
  PROVE  snap[p][d] \in Annotation /\ snap[p][d].info \in Infos \cup {NoInfo}
BY DEF TypeInv, TypeOK, AgentTypeOK, Annotation

LEMMA LeaveType ==
  ASSUME TypeInv, Leave
  PROVE  pc' \in {"reconcile", "unmirror", "update"} /\ dir' \in Dirs /\ cid' = 0
BY DEF Leave, Begin, TypeInv, TypeOK, AgentTypeOK, Dirs

LEMMA ForgetType ==
  ASSUME Forget
  PROVE  /\ todo' \subseteq Pods /\ listed' \subseteq Pods /\ stale' \subseteq Pods
         /\ snap' \in [Pods -> [Dirs -> Annotation]]
         /\ cur' = NoPod /\ iface' \in BOOLEAN /\ dir' \in Dirs /\ cid' = 0
BY DEF Forget, Unannotated, NoAnnotation, Annotation, DoneFlag, Dirs

LEMMA InPodStage ==
  ASSUME TypeInv, pc \in PodStages
  PROVE  cur \in Pods
BY DEF TypeInv, CurIsPod

LEMMA AgentTypes ==
  ASSUME TypeInv
  PROVE  /\ TcTypeOK /\ faults \in Nat /\ tried \in [Pods -> [Dirs -> Requests]]
         /\ dir \in Dirs /\ cid \in ClassIds \cup {0} /\ pc \in Stages
BY DEF TypeInv, TypeOK, AgentTypeOK

LEMMA FlowidType ==
  ASSUME TcTypeOK, NEW d \in Dirs, NEW f \in filters[d]
  PROVE  f.flowid \in ClassIds
BY DEF TcTypeOK, Filter

-----------------------------------------------------------------------------
(* Every step keeps the types.                                             *)

LEMMA SetUpType ==
  ASSUME TypeInv, LinkUp \/ InitIfb \/ LinkDown \/ ResetIfb
  PROVE  TypeInv'
<1>1. dir \in Dirs /\ cid \in ClassIds \cup {0} /\ TcTypeOK
  BY AgentTypes
<1>2. TcTypeOK'
  BY <1>1, LinkSetType, RootAddType, RootDelType, TcIdle
     DEF LinkUp, InitIfb, LinkDown, ResetIfb, Run
<1>3. faults' \in Nat
  BY AgentTypes, FaultsType DEF LinkUp, InitIfb, LinkDown, ResetIfb, Run
<1>4. pc' \in {"linkUp", "initIfb", "list", "linkDown", "resetIfb", "clearPod"}
      /\ dir' \in Dirs /\ cid' = cid
  BY DEF LinkUp, InitIfb, LinkDown, ResetIfb, Run, On, At, NextIfb, Leap, Dirs
<1>5. UNCHANGED <<clusterVars, heldVars>> /\ UNCHANGED tried
  BY DEF LinkUp, InitIfb, LinkDown, ResetIfb, On, At
<1> QED
  BY <1>1, <1>2, <1>3, <1>4, <1>5, AgentTypes, OnType DEF Stages, PodStages

LEMMA ReconcileType ==
  ASSUME TypeInv, Reconcile
  PROVE  TypeInv'
<1>1. TcTypeOK' /\ faults' \in Nat /\ UNCHANGED tried
  BY AgentTypes, TcIdle, FaultsType DEF Reconcile
<1>2. pc' \in {"wipe", "unredirect", "delNetem"} /\ dir' = dir /\ cid' \in ClassIds \cup {0}
  BY AgentTypes, FlowidType DEF Reconcile, Goto
<1> QED
  BY <1>1, <1>2, InPodStage, AgentTypes, OnType DEF Reconcile, On, At, Stages, PodStages

LEMMA MirrorType ==
  ASSUME TypeInv, Wipe \/ Unredirect \/ Redirect
  PROVE  TypeInv'
<1>1. TcTypeOK'
  BY AgentTypes, FilterDelAllType, VethSetType, TcIdle
     DEF Wipe, Unredirect, Redirect, Exec, Run
<1>2. faults' \in Nat
  BY AgentTypes, FaultsType DEF Wipe, Unredirect, Redirect, Exec, Run
<1>3. pc' \in {"unredirect", "redirect", "addFilter", "delNetem"} /\ UNCHANGED <<dir, cid>>
  BY DEF Wipe, Unredirect, Redirect, Exec, Run, Goto
<1> QED
  BY <1>1, <1>2, <1>3, InPodStage, AgentTypes, OnType
     DEF Wipe, Unredirect, Redirect, On, At, Stages, PodStages

LEMMA AddFilterType ==
  ASSUME TypeInv, AddFilter
  PROVE  TypeInv'
<1>1. cur \in Pods /\ AddressOf[cur] \in Addresses
  BY InPodStage, KubeChaosAssumption DEF AddFilter, On, At, PodStages
<1>2. TcTypeOK'
  BY <1>1, AgentTypes, FilterAddType, TcIdle DEF AddFilter, Run
<1>3. faults' \in Nat
  BY AgentTypes, FaultsType DEF AddFilter, Run
<1>4. pc' \in {"addClass", "delNetem"} /\ dir' = dir /\ cid' \in ClassIds \cup {0}
  BY AgentTypes DEF AddFilter, Run, Goto
<1> QED
  BY <1>1, <1>2, <1>3, <1>4, AgentTypes, OnType DEF AddFilter, On, At, Stages, PodStages

LEMMA AddClassType ==
  ASSUME TypeInv, AddClass
  PROVE  TypeInv'
<1>1. TcTypeOK'
  BY AgentTypes, ClassAddType, TcIdle DEF AddClass, Exec, Run, CanAddClass
<1>2. faults' \in Nat
  BY AgentTypes, FaultsType DEF AddClass, Exec, Run
<1> QED
  BY <1>1, <1>2, InPodStage, AgentTypes, OnType
     DEF AddClass, Exec, Run, Goto, On, At, Stages, PodStages

LEMMA NetemType ==
  ASSUME TypeInv, DelNetem \/ AddNetem
  PROVE  TypeInv'
<1>1. TcTypeOK'
  BY AgentTypes, LeafSetType, TcIdle DEF DelNetem, AddNetem, Exec, Run, Leaves
<1>2. faults' \in Nat
  BY AgentTypes, FaultsType DEF DelNetem, AddNetem, Exec, Run
<1> QED
  BY <1>1, <1>2, InPodStage, AgentTypes, OnType
     DEF DelNetem, AddNetem, Exec, Run, Goto, On, At, Stages, PodStages

LEMMA SettingType ==
  ASSUME TypeInv, pc \in PodStages
  PROVE  Setting \in Infos \cup {NoInfo} /\ Setting \in Requests
BY InPodStage, AgentTypes, AnnotationOfCur DEF Setting, Requests

\* The fields of a setting are a rate and a leaf; what tc does not take is not
\* among them.
LEMMA FieldsType ==
  ASSUME NEW i \in Infos
  PROVE  RateOf(i) \in Rates /\ NetemOf(i) \in Leaves
BY DEF RateOf, NetemOf, Rates, Leaves

LEMMA PassedSettingType ==
  ASSUME NEW i \in Infos \cup {NoInfo}, i # NoInfo
  PROVE  i \in Infos
OBVIOUS

LEMMA RateType ==
  ASSUME TypeInv, Rate
  PROVE  TypeInv'
<1>1. cur \in Pods /\ (Setting # NoInfo => RateOf(Setting) \in Rates)
  BY InPodStage, SettingType, FieldsType, PassedSettingType DEF Rate, On, At, PodStages
<1>2. TcTypeOK' /\ tried' \in [Pods -> [Dirs -> Requests]]
  BY <1>1, AgentTypes, ClassChangeType, TcIdle DEF Rate, Exec, Run, Requests
<1>3. faults' \in Nat
  BY AgentTypes, FaultsType DEF Rate, Exec, Run
<1>4. /\ pc' \in {"reconcile", "unmirror", "update", "netem"}
      /\ dir' \in Dirs /\ cid' \in ClassIds \cup {0}
  BY AgentTypes, LeaveType DEF Rate, Exec, Run, Goto
<1> QED
  BY <1>1, <1>2, <1>3, <1>4, OnType DEF Rate, On, At, Stages, PodStages

LEMMA SetNetemType ==
  ASSUME TypeInv, SetNetem
  PROVE  TypeInv'
<1>1. cur \in Pods /\ NetemOf(Setting) \in Leaves /\ Setting \in Requests
  BY InPodStage, SettingType, FieldsType, PassedSettingType DEF SetNetem, On, At, PodStages
<1>2. TcTypeOK' /\ tried' \in [Pods -> [Dirs -> Requests]]
  BY <1>1, AgentTypes, LeafSetType, TcIdle DEF SetNetem, Exec, Run
<1>3. faults' \in Nat
  BY AgentTypes, FaultsType DEF SetNetem, Exec, Run
<1> QED
  BY <1>1, <1>2, <1>3, LeaveType, OnType DEF SetNetem, Exec, Run, On, At, Stages, PodStages

LEMMA UnmirrorType ==
  ASSUME TypeInv, Unmirror
  PROVE  TypeInv'
<1>1. TcTypeOK' /\ tried' \in [Pods -> [Dirs -> Requests]]
  BY AgentTypes, VethSetType, TcIdle DEF Unmirror, Exec, Run, Requests
<1>2. faults' \in Nat
  BY AgentTypes, FaultsType DEF Unmirror, Exec, Run
<1> QED
  BY <1>1, <1>2, InPodStage, AgentTypes, OnType
     DEF Unmirror, Exec, Run, Goto, On, At, Stages, PodStages

LEMMA ResetFilterType ==
  ASSUME TypeInv, ResetFilter
  PROVE  TypeInv'
<1>1. TcTypeOK'
  BY AgentTypes, FilterDelType, TcIdle DEF ResetFilter
<1>2. faults' \in Nat
  BY AgentTypes, FaultsType DEF ResetFilter
<1>3. /\ pc' \in {"reconcile", "unmirror", "update", "resetClass"}
      /\ dir' \in Dirs /\ cid' \in ClassIds \cup {0}
  BY AgentTypes, LeaveType, FlowidType DEF ResetFilter
<1> QED
  BY <1>1, <1>2, <1>3, InPodStage, AgentTypes, OnType
     DEF ResetFilter, On, At, Stages, PodStages

LEMMA ResetClassType ==
  ASSUME TypeInv, ResetClass
  PROVE  TypeInv'
<1>1. TcTypeOK'
  BY AgentTypes, ClassDelType, TcIdle DEF ResetClass, Exec, Run
<1>2. faults' \in Nat
  BY AgentTypes, FaultsType DEF ResetClass, Exec, Run
<1> QED
  BY <1>1, <1>2, LeaveType, InPodStage, AgentTypes, OnType
     DEF ResetClass, Exec, Run, On, At, Stages, PodStages

LEMMA AckType ==
  ASSUME NEW anns \in [Dirs -> Annotation], NEW upd, NEW clr
  PROVE  SetPodChaosUpdated(anns, upd, clr) \in [Dirs -> Annotation]
<1>1. NoAnnotation \in Annotation
  BY DEF NoAnnotation, Annotation, DoneFlag
<1>2. ASSUME NEW d \in Dirs
      PROVE  [anns[d] EXCEPT !.done = "yes"] \in Annotation
  <2>1. anns[d] \in [info : Infos \cup {NoInfo}, done : DoneFlag, clear : BOOLEAN]
    BY DEF Annotation
  <2> QED
    BY <2>1 DEF Annotation, DoneFlag
<1> QED
  BY <1>1, <1>2 DEF SetPodChaosUpdated

LEMMA NoAnnotationType == Unannotated \in [Dirs -> Annotation]
BY DEF Unannotated, NoAnnotation, Annotation, DoneFlag

LEMMA UpdateStatusType ==
  ASSUME TypeInv, NEW stage \in {"pod", "clearPod"}, NEW anns \in [Dirs -> Annotation],
         UpdateStatus(stage, anns)
  PROVE  TypeInv'
<1>1. ClusterTypeOK'
  BY DEF UpdateStatus, NextPod, TypeInv, TypeOK, ClusterTypeOK
<1>2. AgentTypeOK' /\ CurIsPod'
  BY NoAnnotationType
     DEF UpdateStatus, NextPod, TypeInv, TypeOK, AgentTypeOK, CurIsPod, Stages, PodStages, Dirs
<1>3. TcTypeOK' /\ faults' \in Nat /\ UNCHANGED tried
  BY AgentTypes, TcIdle, FaultsType DEF UpdateStatus, NextPod
<1> QED
  BY <1>1, <1>2, <1>3 DEF TypeInv, TypeOK

LEMMA UpdateType ==
  ASSUME TypeInv, Update \/ ClearUpdate
  PROVE  TypeInv'
<1>1. cur \in Pods
  BY InPodStage DEF Update, ClearUpdate, PodStages
<1>2. snap[cur] \in [Dirs -> Annotation]
  BY <1>1 DEF TypeInv, TypeOK, AgentTypeOK
<1> QED
  BY <1>2, AckType, UpdateStatusType DEF Update, ClearUpdate

LEMMA StartPassType ==
  ASSUME TypeInv, NEW items \in SUBSET Pods, NEW clear, StartPass(items, clear)
  PROVE  /\ todo' \subseteq Pods /\ listed' \subseteq Pods /\ stale' \subseteq Pods
         /\ snap' \in [Pods -> [Dirs -> Annotation]]
         /\ pc' \in {"linkDown", "pod"}
<1>1. /\ todo' \subseteq Pods /\ listed' \subseteq Pods /\ stale' \subseteq Pods
      /\ pc' \in {"linkDown", "pod"}
  BY DEF StartPass
<1>2. snap' \in [Pods -> [Dirs -> Annotation]]
  BY NoAnnotationType DEF StartPass, TypeInv, TypeOK, ClusterTypeOK
<1> QED
  BY <1>1, <1>2

LEMMA ListType ==
  ASSUME TypeInv, List
  PROVE  TypeInv'
<1>1. Selected \in SUBSET Pods /\ {} \in SUBSET Pods
  BY DEF Selected, TypeInv, TypeOK, ClusterTypeOK
<1>2. /\ todo' \subseteq Pods /\ listed' \subseteq Pods /\ stale' \subseteq Pods
      /\ snap' \in [Pods -> [Dirs -> Annotation]]
      /\ pc' \in {"linkDown", "pod"}
  <2>1. CASE StartPass(Selected, nodeClear)
    BY <1>1, <2>1, StartPassType
  <2>2. CASE \E items \in {Selected, {}}, clear \in {nodeClear, FALSE} :
               StartPass(items, clear)
    <3>1. PICK items \in {Selected, {}}, clear \in {nodeClear, FALSE} :
            StartPass(items, clear)
      BY <2>2
    <3>2. items \in SUBSET Pods
      BY <1>1, <3>1
    <3> QED
      BY <3>1, <3>2, StartPassType
  <2> QED
    BY <2>1, <2>2 DEF List
<1>3. AgentTypeOK' /\ CurIsPod'
  BY <1>2 DEF List, TypeInv, TypeOK, AgentTypeOK, CurIsPod, Stages, PodStages
<1>4. TcTypeOK' /\ faults' \in Nat /\ UNCHANGED tried
  BY AgentTypes, TcIdle, FaultsType DEF List
<1>5. ClusterTypeOK'
  BY DEF List, At, clusterVars, TypeInv, TypeOK, ClusterTypeOK
<1> QED
  BY <1>3, <1>4, <1>5 DEF TypeInv, TypeOK

\* The steps that leave the cluster alone and start the agent's state afresh.
LEMMA ForgottenType ==
  ASSUME TypeInv, UNCHANGED <<clusterVars, tried>>, TcTypeOK', faults' \in Nat,
         pc' \in {"list", "linkUp", "stopped"}, Forget
  PROVE  TypeInv'
BY ForgetType DEF TypeInv, TypeOK, ClusterTypeOK, AgentTypeOK, CurIsPod,
                  clusterVars, Stages, PodStages

LEMMA PodType ==
  ASSUME TypeInv, NEW p \in Pods, Pod(p) \/ ClearPod(p)
  PROVE  TypeInv'
<1>1. TcTypeOK' /\ faults' \in Nat /\ UNCHANGED <<clusterVars, tried>>
  BY AgentTypes, TcIdle, FaultsType DEF Pod, ClearPod, GetWorkload, At
<1>2. CASE Restart
  BY <1>1, <1>2, ForgottenType DEF Restart
<1>3. CASE ~Restart
  <2>1. /\ cur' = p /\ iface' \in BOOLEAN
        /\ UNCHANGED <<todo, listed, snap, stale>>
        /\ pc' \in {"reconcile", "unmirror", "clearMirroring"}
        /\ dir' \in Dirs /\ cid' \in ClassIds \cup {0}
    BY <1>3, AgentTypes DEF Pod, ClearPod, GetWorkload, Begin, Dirs
  <2> QED
    BY <1>1, <2>1 DEF TypeInv, TypeOK, ClusterTypeOK, AgentTypeOK, CurIsPod,
                      clusterVars, Stages, PodStages
<1> QED
  BY <1>2, <1>3

LEMMA SweepType ==
  ASSUME TypeInv, StartSweep \/ SweepFilter \/ SweepClass
  PROVE  TypeInv'
<1>1. TcTypeOK'
  BY AgentTypes, FilterDelType, ClassDelType, TcIdle
     DEF StartSweep, SweepFilter, SweepClass, Run
<1>2. faults' \in Nat /\ UNCHANGED <<clusterVars, tried>>
  BY AgentTypes, FaultsType DEF StartSweep, SweepFilter, SweepClass, Run, On, At
<1>3. CASE EndPass
  BY <1>1, <1>2, <1>3, ForgottenType DEF EndPass
<1>4. CASE ~EndPass
  <2>1. /\ pc' \in {"list", "sweepFilter", "sweepClass"}
        /\ dir' \in Dirs /\ cid' \in ClassIds \cup {0} /\ UNCHANGED heldVars
    BY <1>4, AgentTypes, FlowidType
       DEF StartSweep, SweepFilter, SweepClass, Run, On, At, Goto, NextIfb, Extra, Dirs
  <2> QED
    BY <1>1, <1>2, <2>1, AgentTypes, OnType DEF Stages, PodStages
<1> QED
  BY <1>3, <1>4

LEMMA ClearMirroringType ==
  ASSUME TypeInv, ClearMirroring
  PROVE  TypeInv'
<1>1. TcTypeOK'
  BY AgentTypes, VethSetType, TcIdle DEF ClearMirroring, Exec, Run
<1>2. faults' \in Nat
  BY AgentTypes, FaultsType DEF ClearMirroring, Exec, Run
<1>3. pc' \in {"clearMirroring", "clearUpdate"} /\ dir' \in Dirs /\ cid' = cid
  BY AgentTypes DEF ClearMirroring, Exec, Run, Goto, On, At, Dirs
<1> QED
  BY <1>1, <1>2, <1>3, InPodStage, AgentTypes, OnType
     DEF ClearMirroring, On, At, Stages, PodStages

LEMMA ClearNodeType ==
  ASSUME TypeInv, ClearNode
  PROVE  TypeInv'
<1>1. TcTypeOK' /\ faults' \in Nat
  BY AgentTypes, TcIdle, FaultsType DEF ClearNode
<1> QED
  BY <1>1 DEF ClearNode, Goto, heldVars, TypeInv, TypeOK, ClusterTypeOK, AgentTypeOK,
              CurIsPod, Stages, PodStages

LEMMA LifeType ==
  ASSUME TypeInv, Crash \/ Kill \/ Start
  PROVE  TypeInv'
<1>1. TcTypeOK' /\ faults' \in Nat
  BY AgentTypes, TcIdle, FaultsType DEF Crash, Kill, Start, Calm
<1> QED
  BY <1>1, ForgottenType DEF Crash, Kill, Start, Restart

\* What happens around the agent keeps the types of its state.
LEMMA AroundType ==
  ASSUME TypeInv, AroundAgent, stale' \subseteq Pods,
         TcTypeOK', ClusterTypeOK', tried' \in [Pods -> [Dirs -> Requests]]
  PROVE  TypeInv'
BY DEF AroundAgent, TypeInv, TypeOK, AgentTypeOK, CurIsPod

LEMMA TouchType ==
  ASSUME TypeInv, NEW p \in Pods, Touch(p)
  PROVE  stale' \subseteq Pods
BY DEF Touch, TypeInv, TypeOK, AgentTypeOK

LEMMA OperateType ==
  ASSUME ops \in Nat, Operate
  PROVE  ops' \in Nat
BY DEF Operate

LEMMA LivesType ==
  ASSUME TypeInv, NEW p \in Pods, CreatePod(p) \/ Wire(p) \/ AssignIP(p) \/ SetLabel(p)
  PROVE  TypeInv'
<1>1. TcTypeOK' /\ tried' \in [Pods -> [Dirs -> Requests]]
  BY AgentTypes, TcIdle DEF CreatePod, Wire, AssignIP, SetLabel
<1>2. ClusterTypeOK'
  BY OperateType DEF CreatePod, Wire, AssignIP, SetLabel, TypeInv, TypeOK, ClusterTypeOK, Phases
<1>3. stale' \subseteq Pods
  BY TouchType DEF CreatePod, Wire, AssignIP, SetLabel, TypeInv, TypeOK, AgentTypeOK
<1> QED
  BY <1>1, <1>2, <1>3, AroundType DEF CreatePod, Wire, AssignIP, SetLabel

LEMMA DeletePodType ==
  ASSUME TypeInv, NEW p \in Pods, DeletePod(p)
  PROVE  TypeInv'
<1>1. TcTypeOK'
  BY AgentTypes, VethGoneType DEF DeletePod
<1>2. [d \in Dirs |-> NoInfo] \in [Dirs -> Requests]
  BY DEF Requests
<1>3. ClusterTypeOK'
  BY <1>2, OperateType, NoAnnotationType
     DEF DeletePod, TypeInv, TypeOK, ClusterTypeOK, Phases
<1>4. tried' \in [Pods -> [Dirs -> Requests]] /\ stale' \subseteq Pods
  BY <1>2 DEF DeletePod, TypeInv, TypeOK, AgentTypeOK
<1> QED
  BY <1>1, <1>3, <1>4, AroundType DEF DeletePod

LEMMA AnnotateType ==
  ASSUME TypeInv, NEW p \in Pods, NEW d \in UserDirs,
         NEW a \in Annotation, NEW wish \in Requests, Annotate(p, d, a, wish)
  PROVE  TypeInv'
<1>1. d \in Dirs
  BY KubeChaosAssumption
<1>2. TcTypeOK' /\ tried' \in [Pods -> [Dirs -> Requests]]
  BY AgentTypes, TcIdle DEF Annotate
<1>3. ClusterTypeOK'
  BY <1>1, OperateType DEF Annotate, TypeInv, TypeOK, ClusterTypeOK
<1>4. stale' \subseteq Pods
  BY TouchType DEF Annotate
<1> QED
  BY <1>2, <1>3, <1>4, AroundType DEF Annotate

LEMMA UserType ==
  ASSUME TypeInv, NEW p \in Pods, NEW d \in UserDirs,
         \/ \E i \in Infos : UserSet(p, d, i)
         \/ UserRetry(p, d) \/ UserClear(p, d) \/ UserClearOnly(p, d)
  PROVE  TypeInv'
<1>1. /\ ann[p][d] \in [info : Infos \cup {NoInfo}, done : DoneFlag, clear : BOOLEAN]
      /\ asked[p][d] \in Requests
  BY KubeChaosAssumption DEF TypeInv, TypeOK, ClusterTypeOK, Annotation
<1>2. CASE \E i \in Infos : UserSet(p, d, i)
  <2>1. PICK i \in Infos : UserSet(p, d, i)
    BY <1>2
  <2>2. [ann[p][d] EXCEPT !.info = i, !.done = "no"] \in Annotation /\ i \in Requests
    BY <1>1 DEF Annotation, DoneFlag, Requests
  <2> QED
    BY <2>1, <2>2, AnnotateType DEF UserSet
<1>3. CASE UserRetry(p, d)
  <2>1. [ann[p][d] EXCEPT !.done = "no"] \in Annotation
    BY <1>1 DEF Annotation, DoneFlag
  <2>2. (IF ann[p][d].clear THEN asked[p][d] ELSE ann[p][d].info) \in Requests
    BY <1>1 DEF Requests
  <2> QED
    BY <1>3, <2>1, <2>2, AnnotateType DEF UserRetry
<1>4. CASE UserClear(p, d)
  <2>1. [ann[p][d] EXCEPT !.clear = TRUE, !.done = "no"] \in Annotation
    BY <1>1 DEF Annotation, DoneFlag
  <2> QED
    BY <1>4, <2>1, AnnotateType DEF UserClear, Requests
<1>5. CASE UserClearOnly(p, d)
  <2>1. [ann[p][d] EXCEPT !.clear = TRUE] \in Annotation
    BY <1>1 DEF Annotation
  <2> QED
    BY <1>5, <2>1, AnnotateType DEF UserClearOnly, Requests
<1> QED
  BY <1>2, <1>3, <1>4, <1>5

LEMMA NodeType ==
  ASSUME TypeInv, UserClearNode \/ LabelNode
  PROVE  TypeInv'
<1>1. TcTypeOK' /\ tried' \in [Pods -> [Dirs -> Requests]] /\ stale' \subseteq Pods
  BY AgentTypes, TcIdle DEF UserClearNode, LabelNode, TypeInv, TypeOK, AgentTypeOK
<1>2. ClusterTypeOK'
  BY OperateType DEF UserClearNode, LabelNode, TypeInv, TypeOK, ClusterTypeOK
<1> QED
  BY <1>1, <1>2, AroundType DEF UserClearNode, LabelNode

-----------------------------------------------------------------------------
(* Type correctness.                                                       *)

LEMMA InitType == Init => TypeInv
<1> SUFFICES ASSUME Init PROVE TypeInv
  OBVIOUS
<1>1. TcTypeOK
  BY DEF Init, TcInit, TcTypeOK, Rates, Leaves
<1>2. ClusterTypeOK
  BY NoAnnotationType DEF Init, ClusterTypeOK, Phases, Requests
<1>3. AgentTypeOK /\ CurIsPod
  BY NoAnnotationType DEF Init, AgentTypeOK, CurIsPod, Stages, PodStages, Dirs
<1> QED
  BY <1>1, <1>2, <1>3 DEF Init, TypeInv, TypeOK, Requests

LEMMA NextType == TypeInv /\ [Next]_vars => TypeInv'
<1> SUFFICES ASSUME TypeInv, [Next]_vars PROVE TypeInv'
  OBVIOUS
<1>1. CASE Loop
  BY <1>1, SetUpType, ListType, PodType, ReconcileType, MirrorType, AddFilterType,
     AddClassType, NetemType, RateType, SetNetemType, UnmirrorType, ResetFilterType,
     ResetClassType, UpdateType, SweepType, ClearMirroringType, ClearNodeType
     DEF Loop
<1>2. CASE Crash \/ Kill \/ Start
  BY <1>2, LifeType
<1>3. CASE Cluster
  BY <1>3, LivesType, DeletePodType, UserType, NodeType DEF Cluster
<1>4. CASE UNCHANGED vars
  BY <1>4 DEF vars, tcVars, clusterVars, agentVars, heldVars,
             TypeInv, TypeOK, TcTypeOK, ClusterTypeOK, AgentTypeOK, CurIsPod
<1> QED
  BY <1>1, <1>2, <1>3, <1>4 DEF Next

\* Every variable keeps its type in every step of the agent and its cluster.
THEOREM TypeCorrect == Spec => []TypeOK
<1>1. TypeInv => TypeOK
  BY DEF TypeInv
<1> QED
  BY <1>1, InitType, NextType, PTL DEF Spec

-----------------------------------------------------------------------------
(* One filter per address, whatever fails.                                 *)

Searched == {"unredirect", "redirect", "addFilter"}

\* A step that adds no filter and does not end between the search and the add.
Quiet == (\A d \in Dirs : filters'[d] \subseteq filters[d]) /\ pc' \notin Searched

LEMMA QuietKeeps ==
  ASSUME OneFilterPerCidr, Quiet
  PROVE  OneFilterPerCidr' /\ AddressIsFree'
BY DEF OneFilterPerCidr, Quiet, AddressIsFree, Searched

LEMMA SetUpQuiet ==
  ASSUME TypeInv, LinkUp \/ InitIfb \/ LinkDown \/ ResetIfb
  PROVE  Quiet
<1>1. \A d \in Dirs : filters'[d] \subseteq filters[d]
  BY DEF LinkUp, InitIfb, LinkDown, ResetIfb, Run, LinkSet, RootAdd, RootDel, tcVars,
         TypeInv, TypeOK, TcTypeOK
<1>2. pc' \in {"linkUp", "initIfb", "list", "linkDown", "resetIfb", "clearPod"}
  BY DEF LinkUp, InitIfb, LinkDown, ResetIfb, Run, On, At, NextIfb, Leap
<1> QED
  BY <1>1, <1>2 DEF Quiet, Searched

LEMMA PassQuiet ==
  ASSUME TypeInv,
         \/ List \/ StartSweep \/ Update \/ ClearUpdate \/ ClearNode
         \/ \E p \in Pods : Pod(p) \/ ClearPod(p)
  PROVE  Quiet
<1>1. UNCHANGED filters
  BY DEF List, StartSweep, Update, ClearUpdate, ClearNode, Pod, ClearPod,
         GetWorkload, UpdateStatus, NextPod, tcVars
<1>2. pc' \notin Searched
  BY DEF List, StartPass, StartSweep, Update, ClearUpdate, ClearNode, Pod, ClearPod,
         GetWorkload, Begin, Restart, UpdateStatus, NextPod, Goto, Searched
<1> QED
  BY <1>1, <1>2 DEF Quiet

LEMMA ChaosQuiet ==
  ASSUME TypeInv,
         \/ AddClass \/ DelNetem \/ AddNetem \/ Rate \/ SetNetem
         \/ Unmirror \/ ResetClass \/ ClearMirroring
  PROVE  Quiet
<1>1. UNCHANGED filters
  BY DEF AddClass, DelNetem, AddNetem, Rate, SetNetem, Unmirror, ResetClass,
         ClearMirroring, Exec, Run, ClassAdd, LeafSet, ClassChange, VethSet,
         ClassDel, tcVars
<1>2. pc' \notin Searched
  BY LeaveType
     DEF AddClass, DelNetem, AddNetem, Rate, SetNetem, Unmirror, ResetClass,
         ClearMirroring, Exec, Run, Goto, On, At, Searched
<1> QED
  BY <1>1, <1>2 DEF Quiet

LEMMA FilterDelShrinks ==
  ASSUME TcTypeOK, NEW d \in Dirs, NEW f, FilterDel(d, f)
  PROVE  \A e \in Dirs : filters'[e] \subseteq filters[e]
BY DEF TcTypeOK, FilterDel

LEMMA RemovalQuiet ==
  ASSUME TypeInv, ResetFilter \/ SweepFilter \/ SweepClass
  PROVE  Quiet
<1>1. \A d \in Dirs : filters'[d] \subseteq filters[d]
  <2>1. CASE UNCHANGED filters
    BY <2>1
  <2>2. CASE \E f : FilterDel(dir, f)
    BY <2>2, AgentTypes, FilterDelShrinks
  <2> QED
    BY <2>1, <2>2 DEF ResetFilter, SweepFilter, SweepClass, Run, ClassDel, tcVars
<1>2. pc' \notin Searched
  BY LeaveType
     DEF ResetFilter, SweepFilter, SweepClass, Run, EndPass, NextIfb, At, Searched
<1> QED
  BY <1>1, <1>2 DEF Quiet

LEMMA LifeQuiet ==
  ASSUME Crash \/ Kill \/ Start
  PROVE  Quiet
BY DEF Crash, Kill, Start, Restart, Quiet, Searched, tcVars

LEMMA ReconcileKeepsCidr ==
  ASSUME CidrInv, Reconcile
  PROVE  OneFilterPerCidr' /\ AddressIsFree'
<1>1. UNCHANGED <<filters, cur>>
  BY DEF Reconcile, On, At, tcVars, heldVars
<1>2. pc' \in Searched => Matching(dir, AddressOf[cur]) = {} /\ dir' = dir
  BY DEF Reconcile, Goto, NotFound, Searched
<1> QED
  BY <1>1, <1>2 DEF CidrInv, OneFilterPerCidr, AddressIsFree, Matching, Searched

LEMMA WipeKeepsCidr ==
  ASSUME CidrInv, Wipe
  PROVE  OneFilterPerCidr' /\ AddressIsFree'
<1>1. UNCHANGED <<cur, dir>>
  BY DEF Wipe, On, At, heldVars, Run, Goto
<1>2. CASE FilterDelAll(dir)
  <2>1. filters'[dir] = {} /\ \A d \in Dirs : filters'[d] \subseteq filters[d]
    BY <1>2, AgentTypes DEF FilterDelAll, TcTypeOK, CidrInv
  <2> QED
    BY <1>1, <2>1 DEF CidrInv, OneFilterPerCidr, AddressIsFree, Matching
<1>3. CASE ~FilterDelAll(dir)
  <2>1. UNCHANGED filters /\ pc' = "delNetem"
    BY <1>3 DEF Wipe, Run, Goto, tcVars
  <2> QED
    BY <2>1 DEF CidrInv, OneFilterPerCidr, AddressIsFree
<1> QED
  BY <1>2, <1>3

LEMMA RedirectKeepsCidr ==
  ASSUME CidrInv, Unredirect \/ Redirect
  PROVE  OneFilterPerCidr' /\ AddressIsFree'
<1>1. UNCHANGED <<filters, cur, dir>> /\ pc \in Searched
  BY DEF Unredirect, Redirect, On, At, heldVars, Exec, Run, Goto, VethSet, tcVars, Searched
<1> QED
  BY <1>1 DEF CidrInv, OneFilterPerCidr, AddressIsFree, Matching, Searched

LEMMA AddFilterKeepsCidr ==
  ASSUME CidrInv, AddFilter
  PROVE  OneFilterPerCidr' /\ AddressIsFree'
<1>1. pc' \in {"addClass", "delNetem"}
  BY DEF AddFilter, Run, Goto
<1>2. Matching(dir, AddressOf[cur]) = {}
  BY DEF CidrInv, AddressIsFree, AddFilter, On, At
<1>3. CASE UNCHANGED filters
  BY <1>1, <1>3 DEF CidrInv, OneFilterPerCidr, AddressIsFree
<1>4. CASE \E n \in ClassIds : FilterAdd(dir, AddressOf[cur], n)
  <2>1. PICK n \in ClassIds, h \in Handles :
          filters' = [filters EXCEPT ![dir] =
            @ \cup {[cidr |-> AddressOf[cur], flowid |-> n, handle |-> h]}]
    BY <1>4 DEF FilterAdd
  <2>2. \A d \in Dirs : \A f \in filters'[d] :
          f \in filters[d] \/ (d = dir /\ f = [cidr |-> AddressOf[cur], flowid |-> n, handle |-> h])
    BY <2>1, AgentTypes DEF TcTypeOK, CidrInv
  <2>3. \A f \in filters[dir] : f.cidr # AddressOf[cur]
    BY <1>2 DEF Matching
  <2>4. OneFilterPerCidr'
    BY <2>2, <2>3 DEF CidrInv, OneFilterPerCidr
  <2> QED
    BY <1>1, <2>4 DEF AddressIsFree
<1> QED
  BY <1>3, <1>4 DEF AddFilter, Run, tcVars

\* What a user annotates changes neither the kernel nor the agent.
LEMMA UsersAnnotate ==
  ASSUME \E p \in Pods, d \in UserDirs :
           \/ \E i \in Infos : UserSet(p, d, i)
           \/ UserRetry(p, d) \/ UserClear(p, d) \/ UserClearOnly(p, d)
  PROVE  /\ UNCHANGED <<tcVars, phase, labelled, nodeClear, nodeLabel, tried>>
         /\ AroundAgent
<1>1. PICK p \in Pods, d \in UserDirs :
         \/ \E i \in Infos : UserSet(p, d, i)
         \/ UserRetry(p, d) \/ UserClear(p, d) \/ UserClearOnly(p, d)
  OBVIOUS
<1>2. \E a, wish : Annotate(p, d, a, wish)
  BY <1>1 DEF UserSet, UserRetry, UserClear, UserClearOnly
<1> QED
  BY <1>2 DEF Annotate

\* Users, the CNI and the kubelet touch neither the tables of the ifb devices
\* nor the agent's place in its code.
LEMMA AroundChangesLittle ==
  ASSUME Cluster \/ UNCHANGED vars
  PROVE  UNCHANGED <<filters, classes, root, pc, dir, cid, cur>>
<1>1. CASE UNCHANGED vars
  BY <1>1 DEF vars, tcVars, agentVars, heldVars
<1>2. CASE \E p \in Pods : CreatePod(p) \/ Wire(p) \/ AssignIP(p) \/ SetLabel(p)
  BY <1>2 DEF CreatePod, Wire, AssignIP, SetLabel, AroundAgent, tcVars
<1>3. CASE \E p \in Pods : DeletePod(p)
  BY <1>3 DEF DeletePod, VethGone, AroundAgent
<1>4. ASSUME NEW p, NEW d, NEW a, NEW wish, Annotate(p, d, a, wish)
      PROVE  UNCHANGED <<filters, classes, root, pc, dir, cid, cur>>
  BY <1>4 DEF Annotate, AroundAgent, tcVars
<1>5. CASE \E p \in Pods, d \in UserDirs :
             \/ \E i \in Infos : UserSet(p, d, i)
             \/ UserRetry(p, d) \/ UserClear(p, d) \/ UserClearOnly(p, d)
  BY <1>4, <1>5 DEF UserSet, UserRetry, UserClear, UserClearOnly
<1>6. CASE UserClearNode \/ LabelNode
  BY <1>6 DEF UserClearNode, LabelNode, AroundAgent, tcVars
<1> QED
  BY <1>1, <1>2, <1>3, <1>5, <1>6 DEF Cluster

\* Nor do they change what the pass has to process.
LEMMA AroundKeepsPlace ==
  ASSUME Cluster \/ UNCHANGED vars
  PROVE  UNCHANGED <<todo, snap, cur, listed, iface, faults>>
<1>1. CASE UNCHANGED vars
  BY <1>1 DEF vars, agentVars, heldVars
<1>2. CASE \E p \in Pods : CreatePod(p) \/ Wire(p) \/ AssignIP(p) \/ DeletePod(p) \/ SetLabel(p)
  BY <1>2 DEF CreatePod, Wire, AssignIP, DeletePod, SetLabel, AroundAgent
<1>3. CASE \E p \in Pods, d \in UserDirs :
             \/ \E i \in Infos : UserSet(p, d, i)
             \/ UserRetry(p, d) \/ UserClear(p, d) \/ UserClearOnly(p, d)
  BY <1>3, UsersAnnotate DEF AroundAgent
<1>4. CASE UserClearNode \/ LabelNode
  BY <1>4 DEF UserClearNode, LabelNode, AroundAgent
<1> QED
  BY <1>1, <1>2, <1>3, <1>4 DEF Cluster

LEMMA AroundKeepsCidr ==
  ASSUME CidrInv, Cluster \/ UNCHANGED vars
  PROVE  OneFilterPerCidr' /\ AddressIsFree'
<1>1. UNCHANGED <<filters, pc, dir, cur>>
  BY AroundChangesLittle
<1> QED
  BY <1>1 DEF CidrInv, OneFilterPerCidr, AddressIsFree, Matching

LEMMA NextCidr == CidrInv /\ [Next]_vars => CidrInv'
<1> SUFFICES ASSUME CidrInv, [Next]_vars PROVE OneFilterPerCidr' /\ AddressIsFree'
  BY NextType DEF CidrInv
<1>1. TypeInv /\ OneFilterPerCidr
  BY DEF CidrInv
<1>2. CASE Loop
  <2>1. CASE Reconcile \/ Wipe \/ Unredirect \/ Redirect \/ AddFilter
    BY <2>1, ReconcileKeepsCidr, WipeKeepsCidr, RedirectKeepsCidr, AddFilterKeepsCidr
  <2>2. CASE ~(Reconcile \/ Wipe \/ Unredirect \/ Redirect \/ AddFilter)
    <3>1. Quiet
      BY <1>1, <1>2, <2>2, SetUpQuiet, PassQuiet, ChaosQuiet, RemovalQuiet DEF Loop
    <3> QED
      BY <1>1, <3>1, QuietKeeps
  <2> QED
    BY <2>1, <2>2
<1>3. CASE Crash \/ Kill \/ Start
  BY <1>1, <1>3, LifeQuiet, QuietKeeps
<1>4. CASE Cluster \/ UNCHANGED vars
  BY <1>4, AroundKeepsCidr
<1> QED
  BY <1>2, <1>3, <1>4 DEF Next

\* No crash, failed command or interleaving gives an address two filters.
THEOREM CidrsStayUnique == Spec => []OneFilterPerCidr
<1>1. Init => CidrInv
  BY InitType DEF Init, TcInit, CidrInv, AddressIsFree, OneFilterPerCidr
<1>2. CidrInv => OneFilterPerCidr
  BY DEF CidrInv
<1> QED
  BY <1>1, <1>2, NextCidr, PTL DEF Spec

-----------------------------------------------------------------------------
(* Classes apart and none leaked, as long as no command fails by itself    *)
(* and the agent is not killed.                                            *)

Uninterrupted == Disruptions \cap {"crash", "tc"} = {}

LEMMA NoFault ==
  ASSUME Uninterrupted
  PROVE  ~Fault("tc") /\ ~Fault("crash")
BY DEF Uninterrupted, Fault

Delicate == {"addClass", "resetClass", "sweepClass"}

\* A step that touches neither filters nor classes and is not one of the
\* delicate ones.
LEMMA IdleKeepsClasses ==
  ASSUME ClassInv, UNCHANGED <<filters, classes>>,
         pc \notin Delicate, pc' \notin Delicate
  PROVE  FiltersLead' /\ ClassIsDue' /\ ClassIsFree' /\ ClassIsolation' /\ NoLeakedClass'
BY DEF ClassInv, FiltersLead, ClassIsDue, ClassIsFree, ClassIsolation, NoLeakedClass,
       BeingReset, Delicate

LEMMA SetUpKeepsClasses ==
  ASSUME ClassInv, LinkUp \/ InitIfb \/ LinkDown
  PROVE  FiltersLead' /\ ClassIsDue' /\ ClassIsFree' /\ ClassIsolation' /\ NoLeakedClass'
<1>1. UNCHANGED <<filters, classes>>
  BY DEF LinkUp, InitIfb, LinkDown, Run, LinkSet, RootAdd, tcVars
<1>2. pc \notin Delicate /\ pc' \notin Delicate
  BY DEF LinkUp, InitIfb, LinkDown, Run, On, At, NextIfb, Leap, Delicate
<1> QED
  BY <1>1, <1>2, IdleKeepsClasses

LEMMA ResetIfbKeepsClasses ==
  ASSUME ClassInv, ResetIfb
  PROVE  FiltersLead' /\ ClassIsDue' /\ ClassIsFree' /\ ClassIsolation' /\ NoLeakedClass'
<1>1. pc \notin Delicate /\ pc' \notin Delicate
  BY DEF ResetIfb, Run, On, At, NextIfb, Leap, Delicate
<1>2. CASE RootDel(dir)
  <2>1. \A d \in Dirs : \/ filters'[d] = {} /\ classes'[d] = {}
                        \/ filters'[d] = filters[d] /\ classes'[d] = classes[d]
    BY <1>2, AgentTypes DEF RootDel, TcTypeOK, ClassInv
  <2> QED
    BY <1>1, <2>1 DEF ClassInv, FiltersLead, ClassIsDue, ClassIsFree, ClassIsolation,
                      NoLeakedClass, BeingReset, Delicate
<1>3. CASE ~RootDel(dir)
  BY <1>1, <1>3, IdleKeepsClasses DEF ResetIfb, Run, tcVars
<1> QED
  BY <1>2, <1>3

LEMMA PassKeepsClasses ==
  ASSUME ClassInv,
         \/ List \/ StartSweep \/ Update \/ ClearUpdate \/ ClearNode
         \/ \E p \in Pods : Pod(p) \/ ClearPod(p)
  PROVE  FiltersLead' /\ ClassIsDue' /\ ClassIsFree' /\ ClassIsolation' /\ NoLeakedClass'
<1>1. UNCHANGED <<filters, classes>>
  BY DEF List, StartSweep, Update, ClearUpdate, ClearNode, Pod, ClearPod,
         GetWorkload, UpdateStatus, NextPod, tcVars
<1>2. pc \notin Delicate /\ pc' \notin Delicate
  BY DEF List, StartPass, StartSweep, Update, ClearUpdate, ClearNode, Pod, ClearPod,
         GetWorkload, Begin, Restart, UpdateStatus, NextPod, Goto, On, At, Delicate
<1> QED
  BY <1>1, <1>2, IdleKeepsClasses

LEMMA ChaosKeepsClasses ==
  ASSUME ClassInv,
         \/ Reconcile \/ Unredirect \/ Redirect \/ DelNetem \/ AddNetem
         \/ Rate \/ SetNetem \/ Unmirror \/ ClearMirroring
  PROVE  FiltersLead' /\ ClassIsDue' /\ ClassIsFree' /\ ClassIsolation' /\ NoLeakedClass'
<1>1. UNCHANGED <<filters, classes>>
  BY DEF Reconcile, Unredirect, Redirect, DelNetem, AddNetem, Rate, SetNetem,
         Unmirror, ClearMirroring, Exec, Run, LeafSet, ClassChange, VethSet, tcVars
<1>2. pc \notin Delicate /\ pc' \notin Delicate
  BY LeaveType
     DEF Reconcile, Unredirect, Redirect, DelNetem, AddNetem, Rate, SetNetem,
         Unmirror, ClearMirroring, Exec, Run, Goto, On, At, Delicate,
         ClassInv
<1> QED
  BY <1>1, <1>2, IdleKeepsClasses

LEMMA AddFilterKeepsClasses ==
  ASSUME ClassInv, AddFilter
  PROVE  FiltersLead' /\ ClassIsDue' /\ ClassIsFree' /\ ClassIsolation' /\ NoLeakedClass'
<1>1. pc = "addFilter" /\ TcTypeOK /\ dir \in Dirs
  BY AgentTypes DEF AddFilter, On, At, ClassInv
<1>2. CASE UNCHANGED tcVars /\ pc' = "delNetem"
  BY <1>1, <1>2, IdleKeepsClasses DEF tcVars, Delicate
<1>3. CASE \E n \in ClassIds :
             /\ IsNextClassID(n, classes[dir]) /\ cid' = n /\ dir' = dir
             /\ CanAddFilter(dir) /\ FilterAdd(dir, AddressOf[cur], n) /\ pc' = "addClass"
  <2>1. PICK n \in ClassIds :
             /\ IsNextClassID(n, classes[dir]) /\ cid' = n /\ dir' = dir
             /\ CanAddFilter(dir) /\ FilterAdd(dir, AddressOf[cur], n) /\ pc' = "addClass"
    BY <1>3
  <2>2. PICK h \in Handles :
          filters' = [filters EXCEPT ![dir] =
            @ \cup {[cidr |-> AddressOf[cur], flowid |-> n, handle |-> h]}]
    BY <2>1 DEF FilterAdd
  <2> DEFINE new == [cidr |-> AddressOf[cur], flowid |-> n, handle |-> h]
  <2>3. /\ filters'[dir] = filters[dir] \cup {new}
        /\ \A d \in Dirs \ {dir} : filters'[d] = filters[d]
    BY <1>1, <2>2 DEF TcTypeOK
  <2>4. n \notin classes[dir] /\ root[dir] /\ UNCHANGED <<classes, root>> /\ new.flowid = n
    BY <2>1 DEF IsNextClassID, CanAddFilter, FilterAdd
  <2>5. \A d \in Dirs : \A f \in filters[d] : f.flowid \in classes[d]
    BY <1>1 DEF ClassInv, FiltersLead
  <2>6. FiltersLead'
    BY <2>1, <2>3, <2>4, <2>5 DEF FiltersLead
  <2>7. ClassIsDue'
    BY <2>1, <2>3, <2>4 DEF ClassIsDue
  <2>8. ClassIsolation'
    <3>1. \A f \in filters[dir] : f.flowid # n
      BY <1>1, <2>4, <2>5
    <3> QED
      BY <2>3, <2>4, <3>1 DEF ClassInv, ClassIsolation
  <2>9. ClassIsFree' /\ NoLeakedClass'
    BY <1>1, <2>1, <2>3, <2>4 DEF ClassIsFree, ClassInv, NoLeakedClass, BeingReset
  <2> QED
    BY <2>6, <2>7, <2>8, <2>9
<1> QED
  BY <1>2, <1>3 DEF AddFilter, Run, Goto

LEMMA AddClassKeepsClasses ==
  ASSUME ClassInv, AddClass, Uninterrupted
  PROVE  FiltersLead' /\ ClassIsDue' /\ ClassIsFree' /\ ClassIsolation' /\ NoLeakedClass'
<1>1. pc = "addClass" /\ TcTypeOK /\ dir \in Dirs
  BY AgentTypes DEF AddClass, On, At, ClassInv
<1>2. ClassAdd(dir, cid) /\ Goto("delNetem")
  BY <1>1, NoFault DEF AddClass, Exec, Run, CanAddClass, ClassInv, ClassIsDue
<1>3. /\ classes'[dir] = classes[dir] \cup {cid} /\ UNCHANGED filters
      /\ \A d \in Dirs \ {dir} : classes'[d] = classes[d]
      /\ pc' = "delNetem"
  BY <1>1, <1>2 DEF ClassAdd, TcTypeOK, Goto
<1> QED
  BY <1>1, <1>3 DEF ClassInv, FiltersLead, ClassIsDue, ClassIsFree, ClassIsolation,
                    NoLeakedClass, BeingReset

\* Reset and DeleteExtraChaos: the filter goes, and its class is due to go.
LEMMA RemovalKeepsClasses ==
  ASSUME ClassInv, pc \notin Delicate,
         NEW f \in filters[dir], FilterDel(dir, f),
         pc' \in {"resetClass", "sweepClass"}, cid' = f.flowid, dir' = dir
  PROVE  FiltersLead' /\ ClassIsDue' /\ ClassIsFree' /\ ClassIsolation' /\ NoLeakedClass'
<1>1. /\ filters'[dir] = filters[dir] \ {f} /\ UNCHANGED <<classes, root>>
      /\ \A d \in Dirs \ {dir} : filters'[d] = filters[d]
      /\ dir \in Dirs
  BY AgentTypes DEF FilterDel, TcTypeOK, ClassInv
<1>2. \A g \in filters'[dir] : g.flowid # f.flowid
  BY <1>1 DEF ClassInv, ClassIsolation
<1>3. FiltersLead' /\ ClassIsDue' /\ ClassIsFree' /\ ClassIsolation'
  BY <1>1, <1>2 DEF ClassInv, FiltersLead, ClassIsDue, ClassIsFree, ClassIsolation, Delicate
<1>4. NoLeakedClass'
  <2> SUFFICES ASSUME NEW d \in Dirs, NEW c \in classes[d]
               PROVE  (\E g \in filters'[d] : g.flowid = c) \/ BeingReset(d, c)'
    BY <1>1 DEF NoLeakedClass
  <2>1. PICK g \in filters[d] : g.flowid = c
    BY DEF ClassInv, NoLeakedClass, BeingReset, Delicate
  <2> QED
    BY <1>1, <2>1 DEF BeingReset
<1> QED
  BY <1>3, <1>4

LEMMA ClassDelKeepsClasses ==
  ASSUME ClassInv, pc \in {"resetClass", "sweepClass"}, pc' \notin Delicate,
         ClassDel(dir, cid) \/ (cid \notin classes[dir] /\ UNCHANGED tcVars)
  PROVE  FiltersLead' /\ ClassIsDue' /\ ClassIsFree' /\ ClassIsolation' /\ NoLeakedClass'
<1>1. /\ classes'[dir] = classes[dir] \ {cid} /\ UNCHANGED filters
      /\ \A d \in Dirs \ {dir} : classes'[d] = classes[d]
      /\ dir \in Dirs
  BY AgentTypes DEF ClassDel, tcVars, TcTypeOK, ClassInv
<1> QED
  BY <1>1 DEF ClassInv, FiltersLead, ClassIsDue, ClassIsFree, ClassIsolation,
              NoLeakedClass, BeingReset, Delicate

LEMMA ResetKeepsClasses ==
  ASSUME ClassInv, Uninterrupted, ResetFilter \/ ResetClass \/ SweepFilter \/ SweepClass
  PROVE  FiltersLead' /\ ClassIsDue' /\ ClassIsFree' /\ ClassIsolation' /\ NoLeakedClass'
<1>1. CASE ResetFilter
  <2>1. pc = "resetFilter"
    BY <1>1 DEF ResetFilter, On, At
  <2>2. CASE \E f \in filters[dir] : /\ FilterDel(dir, f) /\ pc' = "resetClass"
                                     /\ cid' = f.flowid /\ dir' = dir
    BY <2>1, <2>2, RemovalKeepsClasses DEF Delicate
  <2>3. CASE UNCHANGED tcVars /\ Leave
    BY <2>1, <2>3, LeaveType, IdleKeepsClasses DEF tcVars, Delicate, ClassInv
  <2> QED
    BY <1>1, <2>2, <2>3 DEF ResetFilter
<1>2. CASE SweepFilter
  <2>1. pc = "sweepFilter"
    BY <1>2 DEF SweepFilter, At
  <2>2. CASE \E f \in filters[dir] : /\ FilterDel(dir, f) /\ pc' = "sweepClass"
                                     /\ cid' = f.flowid /\ dir' = dir
    BY <2>1, <2>2, RemovalKeepsClasses DEF Delicate
  <2>3. CASE UNCHANGED tcVars /\ (NextIfb("list") \/ EndPass)
    BY <2>1, <2>3, IdleKeepsClasses DEF tcVars, Delicate, NextIfb, EndPass
  <2> QED
    BY <1>2, <2>2, <2>3 DEF SweepFilter, Extra
<1>3. CASE ResetClass
  <2>1. pc = "resetClass" /\ pc' \notin Delicate
    BY <1>3, LeaveType DEF ResetClass, Exec, Run, On, At, Delicate, ClassInv
  <2> QED
    BY <1>3, <2>1, NoFault, ClassDelKeepsClasses DEF ResetClass, Exec, Run, HasClass
<1>4. CASE SweepClass
  <2>1. pc = "sweepClass" /\ pc' \notin Delicate
    BY <1>4 DEF SweepClass, Run, At, EndPass, Delicate
  <2> QED
    BY <1>4, <2>1, NoFault, ClassDelKeepsClasses DEF SweepClass, Run, HasClass
<1> QED
  BY <1>1, <1>2, <1>3, <1>4

\* Only the agent takes the node's label away.
LEMMA LabelStays ==
  ASSUME Cluster \/ UNCHANGED vars
  PROVE  nodeLabel => nodeLabel'
<1>1. CASE UNCHANGED vars
  BY <1>1 DEF vars, clusterVars
<1>2. CASE \E p \in Pods : CreatePod(p) \/ Wire(p) \/ AssignIP(p) \/ DeletePod(p) \/ SetLabel(p)
  BY <1>2 DEF CreatePod, Wire, AssignIP, DeletePod, SetLabel
<1>3. CASE \E p \in Pods, d \in UserDirs :
             \/ \E i \in Infos : UserSet(p, d, i)
             \/ UserRetry(p, d) \/ UserClear(p, d) \/ UserClearOnly(p, d)
  BY <1>3, UsersAnnotate
<1>4. CASE UserClearNode \/ LabelNode
  BY <1>4 DEF UserClearNode, LabelNode
<1> QED
  BY <1>1, <1>2, <1>3, <1>4 DEF Cluster

\* The agent reaches neither "wipe" nor the end of its life in mid-pass.
LEMMA StaysUninterrupted ==
  ASSUME ClassInv, Uninterrupted, [Next]_vars
  PROVE  NotInterrupted'
<1>1. CASE Loop
  <2>1. nodeLabel /\ pc \notin {"wipe", "parked", "stopped"}
    BY <1>1 DEF ClassInv, NotInterrupted, Loop, LinkUp, InitIfb, List, Pod, Reconcile,
                Wipe, Unredirect, Redirect, AddFilter, AddClass, DelNetem, AddNetem, Rate,
                SetNetem, Unmirror, ResetFilter, ResetClass, Update, StartSweep,
                SweepFilter, SweepClass, LinkDown, ResetIfb, ClearPod, ClearMirroring,
                ClearUpdate, ClearNode, On, At
  <2>2. CASE Reconcile
    <3>1. dir \in Dirs /\ pc # "addClass" /\ UNCHANGED nodeLabel
      BY <2>2, AgentTypes DEF Reconcile, On, At, ClassInv, clusterVars
    <3>2. \A f \in filters[dir] : HasClass(dir, f.flowid)
      BY <3>1 DEF ClassInv, FiltersLead, HasClass
    <3>3. pc' # "wipe"
      BY <2>2, <3>2 DEF Reconcile, Goto
    <3> QED
      BY <2>1, <3>1, <3>3 DEF NotInterrupted
  <2>3. CASE ClearNode
    BY <2>3 DEF ClearNode, Goto, NotInterrupted
  <2>4. CASE ~(Reconcile \/ ClearNode \/ Wipe)
    <3>1. CASE Update \/ ClearUpdate
      BY <2>1, <3>1 DEF Update, ClearUpdate, UpdateStatus, NextPod, NotInterrupted
    <3>2. CASE LinkUp \/ InitIfb \/ LinkDown \/ ResetIfb
      BY <2>1, <3>2 DEF LinkUp, InitIfb, LinkDown, ResetIfb, Run, On, At, NextIfb, Leap,
                        clusterVars, NotInterrupted
    <3>3. CASE List \/ StartSweep \/ \E p \in Pods : Pod(p) \/ ClearPod(p)
      BY <2>1, <3>3 DEF List, StartPass, StartSweep, Pod, ClearPod, GetWorkload, Begin,
                        Restart, Goto, On, At, clusterVars, NotInterrupted
    <3>4. CASE Unredirect \/ Redirect \/ AddFilter \/ AddClass \/ DelNetem \/ AddNetem
      BY <2>1, <3>4 DEF Unredirect, Redirect, AddFilter, AddClass, DelNetem, AddNetem,
                        Exec, Run, Goto, On, At, clusterVars, NotInterrupted
    <3>5. CASE Rate \/ SetNetem \/ Unmirror \/ ResetFilter \/ ResetClass \/ ClearMirroring
      BY <2>1, <3>5, LeaveType
         DEF Rate, SetNetem, Unmirror, ResetFilter, ResetClass, ClearMirroring,
             Exec, Run, Goto, On, At, clusterVars, NotInterrupted, ClassInv
    <3>6. CASE SweepFilter \/ SweepClass
      BY <2>1, <3>6 DEF SweepFilter, SweepClass, Run, NextIfb, EndPass, At, clusterVars,
                        NotInterrupted
    <3> QED
      BY <1>1, <2>4, <3>1, <3>2, <3>3, <3>4, <3>5, <3>6 DEF Loop
  <2>5. ~Wipe
    BY <2>1 DEF Wipe, On, At
  <2> QED
    BY <2>2, <2>3, <2>4, <2>5
<1>2. CASE Crash
  BY <1>2, NoFault DEF Crash
<1>3. CASE Kill \/ Start
  BY <1>3 DEF Kill, Start, Restart, clusterVars, NotInterrupted
<1>4. CASE Cluster \/ UNCHANGED vars
  <2>1. UNCHANGED pc
    BY <1>4, AroundChangesLittle
  <2>2. nodeLabel => nodeLabel'
    BY <1>4, LabelStays
  <2> QED
    BY <2>1, <2>2 DEF ClassInv, NotInterrupted
<1> QED
  BY <1>1, <1>2, <1>3, <1>4 DEF Next

\* Every step keeps the tables in order.
LEMMA NextClasses == ClassInv /\ Uninterrupted /\ [Next]_vars => ClassInv'
<1> SUFFICES ASSUME ClassInv, Uninterrupted, [Next]_vars
             PROVE  FiltersLead' /\ ClassIsDue' /\ ClassIsFree' /\ ClassIsolation' /\ NoLeakedClass'
  BY NextType, StaysUninterrupted DEF ClassInv
<1>1. CASE Loop
  <2>1. ~Wipe
    BY DEF Wipe, On, At, ClassInv, NotInterrupted
  <2> QED
    BY <1>1, <2>1, SetUpKeepsClasses, ResetIfbKeepsClasses, PassKeepsClasses,
       ChaosKeepsClasses, AddFilterKeepsClasses, AddClassKeepsClasses, ResetKeepsClasses
       DEF Loop
<1>2. CASE Crash
  BY <1>2, NoFault DEF Crash
<1>3. CASE Kill \/ Start
  <2>1. UNCHANGED <<filters, classes>>
    BY <1>3 DEF Kill, Start, tcVars
  <2>2. pc \notin Delicate /\ pc' \notin Delicate
    BY <1>3 DEF Kill, Start, Restart, ClassInv, NotInterrupted, Delicate
  <2> QED
    BY <2>1, <2>2, IdleKeepsClasses
<1>4. CASE Cluster \/ UNCHANGED vars
  <2>1. UNCHANGED <<filters, classes, root, pc, dir, cid>>
    BY <1>4, AroundChangesLittle
  <2> QED
    BY <2>1 DEF ClassInv, FiltersLead, ClassIsDue, ClassIsFree, ClassIsolation,
                NoLeakedClass, BeingReset
<1> QED
  BY <1>1, <1>2, <1>3, <1>4 DEF Next

LEMMA InitClasses == Init => ClassInv
BY InitType DEF Init, TcInit, ClassInv, NotInterrupted, FiltersLead, ClassIsDue, ClassIsFree,
                ClassIsolation, NoLeakedClass

\* Where the agent is not killed and no command fails by itself, two pods
\* never share a class: neither users, nor the CNI, nor a failing API server
\* or etcd, nor the clearing of the node can make them.
THEOREM ClassesStayApart == Uninterrupted => (Spec => []ClassIsolation)
<1> SUFFICES ASSUME Uninterrupted PROVE Spec => []ClassIsolation
  OBVIOUS
<1>1. ClassInv /\ [Next]_vars => ClassInv'
  BY NextClasses
<1>2. ClassInv => ClassIsolation
  BY DEF ClassInv
<1> QED
  BY <1>1, <1>2, InitClasses, PTL DEF Spec

\* ... and no class is left that no filter leads to, so that ids do not run out.
THEOREM ClassesDoNotLeak == Uninterrupted => (Spec => []NoLeakedClass)
<1> SUFFICES ASSUME Uninterrupted PROVE Spec => []NoLeakedClass
  OBVIOUS
<1>1. ClassInv /\ [Next]_vars => ClassInv'
  BY NextClasses
<1>2. ClassInv => NoLeakedClass
  BY DEF ClassInv
<1> QED
  BY <1>1, <1>2, InitClasses, PTL DEF Spec

-----------------------------------------------------------------------------
(* Why pods are controlled apart: the inductive invariant behind           *)
(* SeparateControl.                                                        *)

\* Outside of the turns and the sweep of a pass no pod is in its list.
NothingListed ==
  pc \in {"linkUp", "initIfb", "list", "parked", "stopped"} \cup ClearStages => listed = {}

\* The class that the shaper holds is no other address's.
OwnClass ==
  pc \in ChaosStages => \A f \in filters[dir] : f.flowid = cid => f.cidr = AddressOf[cur]

ApartInv == ClassInv /\ NothingListed /\ OwnClass

-----------------------------------------------------------------------------
(* One pod's chaos is none of the others'.                                 *)

\* No two pods ever have the same address.
Distinct == \A p, q \in Pods : AddressOf[p] = AddressOf[q] => p = q

\* What q has of the tables stays as it is.
Same(q) == \A d \in Dirs : Share(q, d)' = Share(q, d)

-----------------------------------------------------------------------------
(* What a command does to the share of a pod.                              *)

LEMMA SameTables ==
  ASSUME UNCHANGED <<filters, classes, rate, leaf>>, NEW q
  PROVE  Same(q)
BY DEF Same, Share, Matching

\* A filter of another address comes or goes.
LEMMA ForeignFilter ==
  ASSUME TcTypeOK, NEW q, NEW d \in Dirs, NEW f, f.cidr # AddressOf[q],
         UNCHANGED <<classes, rate, leaf>>,
         \/ filters' = [filters EXCEPT ![d] = filters[d] \ {f}]
         \/ filters' = [filters EXCEPT ![d] = filters[d] \cup {f}]
  PROVE  Same(q)
<1>1. ASSUME NEW e \in Dirs PROVE Matching(e, AddressOf[q])' = Matching(e, AddressOf[q])
  BY DEF TcTypeOK, Matching
<1> QED
  BY <1>1 DEF Same, Share

\* A class changes that no filter of the pod leads to.
LEMMA ForeignClass ==
  ASSUME TcTypeOK, NEW q, NEW d \in Dirs, NEW c, UNCHANGED filters,
         \A f \in Matching(d, AddressOf[q]) : f.flowid # c,
         \A e \in Dirs, n \in ClassIds : e # d \/ n # c =>
           /\ (n \in classes[e])' = (n \in classes[e])
           /\ rate'[e][n] = rate[e][n] /\ leaf'[e][n] = leaf[e][n]
  PROVE  Same(q)
<1> SUFFICES ASSUME NEW e \in Dirs PROVE Share(q, e)' = Share(q, e)
  BY DEF Same
<1>1. Matching(e, AddressOf[q])' = Matching(e, AddressOf[q])
  BY DEF Matching
<1>2. ASSUME NEW f \in Matching(e, AddressOf[q])
      PROVE  /\ (f.flowid \in classes[e])' = (f.flowid \in classes[e])
             /\ rate'[e][f.flowid] = rate[e][f.flowid]
             /\ leaf'[e][f.flowid] = leaf[e][f.flowid]
  <2>1. f.flowid \in ClassIds /\ (e # d \/ f.flowid # c)
    BY DEF Matching, TcTypeOK, Filter
  <2> QED
    BY <2>1
<1> QED
  BY <1>1, <1>2 DEF Share

LEMMA ClassCommand ==
  ASSUME TcTypeOK, NEW q, NEW d \in Dirs, NEW c,
         \/ ClassAdd(d, c) \/ ClassDel(d, c)
         \/ (\E r : ClassChange(d, c, r)) \/ (\E l : LeafSet(d, c, l)),
         \A f \in Matching(d, AddressOf[q]) : f.flowid # c
  PROVE  Same(q)
<1>1. UNCHANGED filters
  BY DEF ClassAdd, ClassDel, ClassChange, LeafSet
<1>2. ASSUME NEW e \in Dirs, NEW n \in ClassIds, e # d \/ n # c
      PROVE  /\ (n \in classes[e])' = (n \in classes[e])
             /\ rate'[e][n] = rate[e][n] /\ leaf'[e][n] = leaf[e][n]
  BY <1>2 DEF TcTypeOK, ClassAdd, ClassDel, ClassChange, LeafSet
<1> QED
  BY <1>1, <1>2, ForeignClass

-----------------------------------------------------------------------------
(* The invariant.                                                          *)

Tables == <<filters, classes, rate, leaf>>

\* The pod being processed has an address of its own.
LEMMA OtherAddress ==
  ASSUME ApartInv, Distinct, NEW q \in Pods, q # cur, pc \in PodStages
  PROVE  AddressOf[cur] # AddressOf[q]
BY DEF ApartInv, ClassInv, TypeInv, TypeOK, AgentTypeOK, CurIsPod, Distinct

LEMMA TableTypes ==
  ASSUME ApartInv
  PROVE  TypeInv /\ TcTypeOK /\ dir \in Dirs /\ listed \subseteq Pods
BY DEF ApartInv, ClassInv, TypeInv, TypeOK, AgentTypeOK

\* The agent works for the pod being processed, and others' shares stay.
LEMMA SetUpApart ==
  ASSUME ApartInv, LinkUp \/ InitIfb \/ LinkDown \/ ResetIfb, NEW q \in listed
  PROVE  FALSE
BY DEF ApartInv, NothingListed, ClearStages, LinkUp, InitIfb, LinkDown, ResetIfb, On, At

LEMMA IdleApart ==
  ASSUME NEW q,
         \/ List \/ StartSweep \/ Update \/ ClearUpdate \/ ClearNode
         \/ \E p \in Pods : Pod(p) \/ ClearPod(p)
         \/ Reconcile \/ Unredirect \/ Redirect \/ Unmirror \/ ClearMirroring
         \/ Kill \/ Start \/ Crash
  PROVE  Same(q)
<1>1. UNCHANGED <<filters, classes, rate, leaf>>
  BY DEF List, StartSweep, Update, ClearUpdate, ClearNode, Pod, ClearPod, GetWorkload,
         UpdateStatus, NextPod, Reconcile, Unredirect, Redirect, Unmirror, ClearMirroring,
         Exec, Run, VethSet, Kill, Start, Crash, tcVars
<1> QED
  BY <1>1, SameTables

LEMMA ClusterApart ==
  ASSUME Cluster \/ UNCHANGED vars, NEW q
  PROVE  Same(q)
<1>1. CASE UNCHANGED vars
  BY <1>1, SameTables DEF vars, tcVars
<1>2. CASE \E p \in Pods : CreatePod(p) \/ Wire(p) \/ AssignIP(p) \/ SetLabel(p)
  BY <1>2, SameTables DEF CreatePod, Wire, AssignIP, SetLabel, tcVars
<1>3. CASE \E p \in Pods : DeletePod(p)
  BY <1>3, SameTables DEF DeletePod, VethGone
<1>4. CASE \E p \in Pods, d \in UserDirs :
             \/ \E i \in Infos : UserSet(p, d, i)
             \/ UserRetry(p, d) \/ UserClear(p, d) \/ UserClearOnly(p, d)
  BY <1>4, UsersAnnotate, SameTables DEF tcVars
<1>5. CASE UserClearNode \/ LabelNode
  BY <1>5, SameTables DEF UserClearNode, LabelNode, tcVars
<1> QED
  BY <1>1, <1>2, <1>3, <1>4, <1>5 DEF Cluster

LEMMA AddFilterApart ==
  ASSUME ApartInv, Distinct, AddFilter, NEW q \in Pods, q # cur
  PROVE  Same(q)
<1>1. TcTypeOK /\ dir \in Dirs /\ AddressOf[cur] # AddressOf[q]
  BY TableTypes, OtherAddress DEF AddFilter, On, At, PodStages
<1>2. CASE \E n \in ClassIds : FilterAdd(dir, AddressOf[cur], n)
  <2>1. PICK n \in ClassIds : FilterAdd(dir, AddressOf[cur], n)
    BY <1>2
  <2>2. PICK h \in Handles :
          filters' = [filters EXCEPT ![dir] =
            filters[dir] \cup {[cidr |-> AddressOf[cur], flowid |-> n, handle |-> h]}]
    BY <2>1 DEF FilterAdd
  <2>3. UNCHANGED <<classes, rate, leaf>>
    BY <2>1 DEF FilterAdd
  <2> DEFINE f == [cidr |-> AddressOf[cur], flowid |-> n, handle |-> h]
  <2>4. f.cidr # AddressOf[q]
    BY <1>1
  <2> HIDE DEF f
  <2>5. filters' = [filters EXCEPT ![dir] = filters[dir] \cup {f}]
    BY <2>2 DEF f
  <2> QED
    BY <1>1, <2>3, <2>4, <2>5, ForeignFilter
<1>3. CASE UNCHANGED tcVars
  BY <1>3, SameTables DEF tcVars
<1> QED
  BY <1>2, <1>3 DEF AddFilter, Run

\* The class of the shaper is reached by no filter of another pod.
LEMMA OtherClass ==
  ASSUME ApartInv, Distinct, pc \in ChaosStages, NEW q \in Pods, q # cur
  PROVE  \A f \in Matching(dir, AddressOf[q]) : f.flowid # cid
<1>1. AddressOf[cur] # AddressOf[q]
  BY OtherAddress DEF ChaosStages, PodStages
<1> QED
  BY <1>1 DEF ApartInv, OwnClass, Matching

LEMMA ClassApart ==
  ASSUME ApartInv, Distinct, AddClass \/ DelNetem \/ AddNetem \/ Rate \/ SetNetem,
         NEW q \in Pods, q # cur
  PROVE  Same(q)
<1>1. pc \in ChaosStages /\ TcTypeOK /\ dir \in Dirs
  BY TableTypes DEF AddClass, DelNetem, AddNetem, Rate, SetNetem, On, At, ChaosStages
<1>2. \/ ClassAdd(dir, cid) \/ (\E r : ClassChange(dir, cid, r))
      \/ (\E l : LeafSet(dir, cid, l)) \/ UNCHANGED tcVars
  BY DEF AddClass, DelNetem, AddNetem, Rate, SetNetem, Exec, Run
<1> QED
  BY <1>1, <1>2, OtherClass, ClassCommand, SameTables DEF tcVars

LEMMA ResetApart ==
  ASSUME ApartInv, Distinct, NEW q \in Pods, q # cur,
         ResetFilter \/ (SweepFilter /\ q \in listed) \/ ResetClass \/ SweepClass
  PROVE  Same(q)
<1>1. TcTypeOK /\ dir \in Dirs
  BY TableTypes
<1>2. CASE UNCHANGED tcVars
  BY <1>2, SameTables DEF tcVars
<1>3. CASE \E f \in filters[dir] : FilterDel(dir, f) /\ f.cidr # AddressOf[q]
  <2>1. PICK f \in filters[dir] : FilterDel(dir, f) /\ f.cidr # AddressOf[q]
    BY <1>3
  <2>2. filters' = [filters EXCEPT ![dir] = filters[dir] \ {f}] /\ UNCHANGED <<classes, rate, leaf>>
    BY <2>1 DEF FilterDel
  <2> QED
    BY <1>1, <2>1, <2>2, ForeignFilter
<1>4. CASE ResetFilter
  <2>1. AddressOf[cur] # AddressOf[q]
    BY <1>4, OtherAddress DEF ResetFilter, On, At, PodStages
  <2>2. \A f \in filters[dir] : Found(f) => f.cidr # AddressOf[q]
    BY <2>1 DEF Found, Finds, Matching
  <2> QED
    BY <1>2, <1>3, <1>4, <2>2 DEF ResetFilter
<1>5. CASE SweepFilter /\ q \in listed
  <2>1. \A f \in Extra(dir) : f \in filters[dir] /\ f.cidr # AddressOf[q]
    BY <1>5 DEF Extra
  <2> QED
    BY <1>2, <1>3, <1>5, <2>1 DEF SweepFilter
<1>6. CASE (ResetClass \/ SweepClass) /\ ClassDel(dir, cid)
  <2>1. \A f \in Matching(dir, AddressOf[q]) : f.flowid # cid
    BY <1>6 DEF ResetClass, SweepClass, On, At, ApartInv, ClassInv, ClassIsFree, Matching
  <2> QED
    BY <1>1, <1>6, <2>1, ClassCommand
<1> QED
  BY <1>2, <1>4, <1>5, <1>6 DEF ResetClass, SweepClass, Exec, Run

LEMMA NextApart ==
  ASSUME ApartInv, Distinct, [Next]_vars, NEW q \in listed, q # cur
  PROVE  Same(q)
<1>1. CASE Loop
  <2>1. ~Wipe /\ q \in Pods
    BY TableTypes DEF Wipe, On, At, ApartInv, ClassInv, NotInterrupted
  <2> QED
    BY <1>1, <2>1, SetUpApart, IdleApart, AddFilterApart, ClassApart, ResetApart DEF Loop
<1>2. CASE Crash \/ Kill \/ Start
  BY <1>2, IdleApart
<1>3. CASE Cluster \/ UNCHANGED vars
  BY <1>3, ClusterApart
<1> QED
  BY <1>1, <1>2, <1>3 DEF Next

-----------------------------------------------------------------------------
(* The invariant is kept.                                                  *)

Unlisted == {"linkUp", "initIfb", "list", "parked", "stopped"} \cup ClearStages

\* The list is filled by the request alone, and emptied when the pass ends.
LEMMA NextListed ==
  ASSUME ApartInv, [Next]_vars
  PROVE  NothingListed'
<1> SUFFICES listed' = {} \/ pc' \notin Unlisted
  BY DEF NothingListed, Unlisted
<1>1. pc \in Unlisted => listed = {}
  BY DEF ApartInv, NothingListed, Unlisted
<1>2. CASE LinkUp \/ InitIfb \/ LinkDown \/ ResetIfb
  BY <1>1, <1>2 DEF LinkUp, InitIfb, LinkDown, ResetIfb, On, At, heldVars, Unlisted, ClearStages
<1>3. CASE List
  BY <1>3 DEF List, StartPass, Unlisted, ClearStages
<1>4. CASE \E p \in Pods : Pod(p) \/ ClearPod(p)
  <2>1. PICK p \in Pods : Pod(p) \/ ClearPod(p)
    BY <1>4
  <2>2. CASE Restart
    BY <2>2 DEF Restart, Forget
  <2>3. CASE Pod(p) /\ ~Restart
    BY <2>3 DEF Pod, GetWorkload, Begin, Unlisted, ClearStages
  <2>4. CASE ClearPod(p) /\ ~Restart
    BY <1>1, <2>4 DEF ClearPod, GetWorkload, At, Unlisted, ClearStages
  <2> QED
    BY <2>1, <2>2, <2>3, <2>4
<1>5. CASE Reconcile \/ Wipe \/ Unredirect \/ Redirect \/ AddFilter \/ AddClass
           \/ DelNetem \/ AddNetem
  BY <1>5 DEF Reconcile, Wipe, Unredirect, Redirect, AddFilter, AddClass, DelNetem, AddNetem,
              Exec, Run, Goto, Unlisted, ClearStages
<1>6. CASE Rate \/ SetNetem \/ Unmirror \/ ResetFilter \/ ResetClass
  <2>1. CASE Leave
    BY <2>1, TableTypes, LeaveType DEF Unlisted, ClearStages
  <2>2. CASE ~Leave
    BY <1>6, <2>2 DEF Rate, SetNetem, Unmirror, ResetFilter, ResetClass, Exec, Run, Goto,
                      Unlisted, ClearStages
  <2> QED
    BY <2>1, <2>2
<1>7. CASE ClearMirroring \/ ClearNode
  BY <1>1, <1>7 DEF ClearMirroring, ClearNode, On, At, heldVars, Unlisted, ClearStages
<1>8. CASE Update \/ ClearUpdate
  BY <1>1, <1>8 DEF Update, ClearUpdate, UpdateStatus, NextPod, Unlisted, ClearStages
<1>9. CASE StartSweep \/ SweepFilter \/ SweepClass
  <2>1. CASE EndPass
    BY <2>1 DEF EndPass, Forget
  <2>2. CASE ~EndPass
    BY <1>9, <2>2 DEF StartSweep, SweepFilter, SweepClass, Run, Goto, NextIfb, At,
                      Unlisted, ClearStages
  <2> QED
    BY <2>1, <2>2
<1>10. CASE Crash \/ Kill \/ Start
  BY <1>10 DEF Crash, Kill, Start, Restart, Forget
<1>11. CASE Cluster \/ UNCHANGED vars
  <2>1. UNCHANGED <<pc, listed>>
    <3>1. CASE UNCHANGED vars
      BY <3>1 DEF vars, agentVars, heldVars
    <3>2. CASE \E p \in Pods :
                 CreatePod(p) \/ Wire(p) \/ AssignIP(p) \/ DeletePod(p) \/ SetLabel(p)
      BY <3>2 DEF CreatePod, Wire, AssignIP, DeletePod, SetLabel, AroundAgent
    <3>3. CASE \E p \in Pods, d \in UserDirs :
                 \/ \E i \in Infos : UserSet(p, d, i)
                 \/ UserRetry(p, d) \/ UserClear(p, d) \/ UserClearOnly(p, d)
      <4>1. ASSUME NEW p, NEW d, NEW a, NEW wish, Annotate(p, d, a, wish)
            PROVE  UNCHANGED <<pc, listed>>
        BY <4>1 DEF Annotate, AroundAgent
      <4> QED
        BY <3>3, <4>1, Zenon DEF UserSet, UserRetry, UserClear, UserClearOnly
    <3>4. CASE UserClearNode \/ LabelNode
      BY <3>4 DEF UserClearNode, LabelNode, AroundAgent
    <3> QED
      BY <1>11, <3>1, <3>2, <3>3, <3>4 DEF Cluster
  <2> QED
    BY <1>1, <2>1
<1> QED
  BY <1>2, <1>3, <1>4, <1>5, <1>6, <1>7, <1>8, <1>9, <1>10, <1>11 DEF Next, Loop

\* A turn, or its part for one direction, begins without a class.
LEMMA NoClassYet ==
  ASSUME TcTypeOK', dir' \in Dirs, cid' = 0
  PROVE  OwnClass'
<1>1. \A f \in filters'[dir'] : f.flowid \in ClassIds
  BY DEF TcTypeOK, Filter
<1> QED
  BY <1>1 DEF OwnClass, ClassIds

\* The stages of a turn that keep to the shaper's class.
LEMMA ClassIsKept ==
  ASSUME ApartInv, pc \in ChaosStages, UNCHANGED <<filters, dir, cid, cur>>
  PROVE  OwnClass'
BY DEF ApartInv, OwnClass

LEMMA NextOwn ==
  ASSUME ApartInv, [Next]_vars
  PROVE  OwnClass'
<1>1. TypeInv /\ TcTypeOK /\ dir \in Dirs /\ TcTypeOK' /\ dir' \in Dirs
  BY TableTypes, NextType DEF TypeInv, TypeOK, AgentTypeOK
<1>2. CASE pc' \notin ChaosStages
  BY <1>2 DEF OwnClass
<1>3. CASE LinkUp \/ InitIfb \/ LinkDown \/ ResetIfb
  BY <1>2, <1>3 DEF LinkUp, InitIfb, LinkDown, ResetIfb, Run, On, At, NextIfb, Leap, ChaosStages
<1>4. CASE List \/ StartSweep \/ ClearNode \/ Update \/ ClearUpdate
  BY <1>2, <1>4 DEF List, StartPass, StartSweep, ClearNode, Update, ClearUpdate, UpdateStatus,
                    NextPod, Goto, ChaosStages
<1>5. CASE \E p \in Pods : Pod(p) \/ ClearPod(p)
  BY <1>1, <1>2, <1>5, NoClassYet
     DEF Pod, ClearPod, GetWorkload, Begin, Restart, ChaosStages
<1>6. CASE Reconcile
  <2>1. pc \in ChaosStages /\ UNCHANGED <<filters, cur>>
    BY <1>6 DEF Reconcile, On, At, heldVars, tcVars, ChaosStages
  <2>2. CASE UNCHANGED <<dir, cid>>
    BY <2>1, <2>2, ClassIsKept
  <2>3. CASE \E f \in filters[dir] : Found(f) /\ cid' = f.flowid /\ UNCHANGED dir
    BY <1>1, <2>1, <2>3
       DEF OwnClass, Found, Finds, Matching, ApartInv, ClassInv, ClassIsolation
  <2> QED
    BY <1>6, <2>2, <2>3 DEF Reconcile, Goto
<1>7. CASE Unredirect \/ Redirect \/ DelNetem \/ AddNetem
  BY <1>7, ClassIsKept
     DEF Unredirect, Redirect, DelNetem, AddNetem, Exec, Run, VethSet, LeafSet, Goto, On, At,
         heldVars, tcVars, ChaosStages
<1>8. CASE AddClass
  <2>1. UNCHANGED <<filters, dir, cid, cur>> /\ pc \in ChaosStages
    BY <1>8 DEF AddClass, Exec, Run, ClassAdd, Goto, On, At, heldVars, tcVars, ChaosStages
  <2> QED
    BY <2>1, ClassIsKept
<1>9. CASE AddFilter
  <2>1. pc = "addFilter" /\ UNCHANGED cur
    BY <1>9 DEF AddFilter, On, At, heldVars
  <2>2. CASE UNCHANGED tcVars /\ Goto("delNetem")
    BY <2>1, <2>2, ClassIsKept DEF tcVars, Goto, ChaosStages
  <2>3. CASE \E n \in ClassIds : /\ IsNextClassID(n, classes[dir]) /\ cid' = n /\ UNCHANGED dir
                                 /\ UNCHANGED tcVars \/ FilterAdd(dir, AddressOf[cur], n)
    <3>1. PICK n \in ClassIds : /\ IsNextClassID(n, classes[dir]) /\ cid' = n /\ UNCHANGED dir
                                /\ UNCHANGED tcVars \/ FilterAdd(dir, AddressOf[cur], n)
      BY <2>3
    <3>2. \A f \in filters[dir] : f.flowid # n
      BY <1>1, <2>1, <3>1 DEF ApartInv, ClassInv, FiltersLead, IsNextClassID
    <3>3. ASSUME NEW f \in filters'[dir], f \notin filters[dir] PROVE f.cidr = AddressOf[cur]
      <4>1. FilterAdd(dir, AddressOf[cur], n)
        BY <1>1, <3>1, <3>3 DEF tcVars
      <4>2. PICK h \in Handles :
              filters' = [filters EXCEPT ![dir] =
                filters[dir] \cup {[cidr |-> AddressOf[cur], flowid |-> n, handle |-> h]}]
        BY <4>1 DEF FilterAdd
      <4>3. f = [cidr |-> AddressOf[cur], flowid |-> n, handle |-> h]
        BY <1>1, <3>1, <3>3, <4>2 DEF TcTypeOK
      <4> QED
        BY <4>3
    <3> QED
      BY <2>1, <3>1, <3>2, <3>3 DEF OwnClass
  <2> QED
    BY <1>9, <2>2, <2>3 DEF AddFilter, Run
<1>10. CASE Rate \/ SetNetem \/ Unmirror \/ ResetFilter \/ ResetClass \/ ClearMirroring
  <2>1. CASE Leave
    BY <1>1, <2>1, LeaveType, NoClassYet
  <2>2. CASE ~Leave /\ Rate
    BY <2>2, ClassIsKept DEF Rate, Exec, Run, ClassChange, Goto, On, At, heldVars, tcVars,
                             ChaosStages
  <2>3. CASE ~Leave /\ ~Rate
    BY <1>2, <1>10, <2>3 DEF SetNetem, Unmirror, ResetFilter, ResetClass, ClearMirroring,
                             Exec, Run, Goto, On, At, ChaosStages
  <2> QED
    BY <2>1, <2>2, <2>3
<1>11. CASE SweepFilter \/ SweepClass
  BY <1>2, <1>11 DEF SweepFilter, SweepClass, Run, NextIfb, EndPass, At, ChaosStages
<1>12. CASE Crash \/ Kill \/ Start
  BY <1>2, <1>12 DEF Crash, Kill, Start, Restart, ChaosStages
<1>13. CASE Cluster \/ UNCHANGED vars
  <2>1. UNCHANGED <<filters, pc, dir, cid, cur>>
    BY <1>13, AroundChangesLittle
  <2> QED
    BY <2>1 DEF ApartInv, OwnClass
<1>14. ~Wipe
  BY DEF Wipe, On, At, ApartInv, ClassInv, NotInterrupted
<1> QED
  BY <1>3, <1>4, <1>5, <1>6, <1>7, <1>8, <1>9, <1>10, <1>11, <1>12, <1>13, <1>14 DEF Next, Loop

LEMMA InitApart == Init => ApartInv
BY InitClasses DEF Init, ApartInv, NothingListed, OwnClass, ChaosStages

\* Where no two pods have one address, the agent is not killed and no command
\* fails by itself, a pod's turn and the sweep leave the filter and the class of
\* every other pod of the pass as they are, and so does everything else.
THEOREM PodsAreControlledApart == Uninterrupted /\ Distinct => (Spec => SeparateControl)
<1> SUFFICES ASSUME Uninterrupted, Distinct PROVE Spec => SeparateControl
  OBVIOUS
<1>1. ApartInv /\ [Next]_vars => ApartInv'
  BY NextClasses, NextListed, NextOwn DEF ApartInv
<1>2. ApartInv /\ [Next]_vars =>
        [\A q \in Pods, d \in Dirs : Share(q, d)' # Share(q, d) /\ q \in listed => cur = q]_vars
  BY NextApart DEF Same
<1> QED
  BY <1>1, <1>2, InitApart, PTL DEF Spec, SeparateControl
=============================================================================
