---------------------------- MODULE CleanProofs ----------------------------
(***************************************************************************)
(* Where chaos has ended nothing of it is left: on the devices of a node   *)
(* that has been cleared, on a pod whose keys are gone, and on the pods of *)
(* the cleared node.                                                       *)
(***************************************************************************)
EXTENDS AckProofs

-----------------------------------------------------------------------------
(* Why the clearing of the node is complete: the inductive invariant       *)
(* behind ParkedIsClean.                                                   *)

\* A device without its root queue has nothing that hangs on it.
RootlessIsBare == \A d \in Dirs : ~root[d] => filters[d] = {} /\ classes[d] = {}

\* The stages before InitIfbModule has made both root queues, and those after
\* ClearIfb has deleted them.
EarlyStages == {"linkUp", "initIfb", "stopped"}
LateStages  == {"clearPod", "clearMirroring", "clearUpdate", "parked"}

\* While the agent works both devices have their root queues, so that ClearIfb
\* has one of each to delete: the deletion of one that is missing would end it.
RootsFollow ==
  /\ pc = "initIfb" /\ dir = "ingress" => root["egress"]
  /\ pc \notin EarlyStages \cup LateStages \cup {"resetIfb"} => \A d \in Dirs : root[d]
  /\ pc = "resetIfb" => root["ingress"] /\ (dir = "ingress" <=> ~root["egress"])
  /\ pc \in LateStages => \A d \in Dirs : ~root[d]

\* ClearIfb takes both devices down before it deletes anything.
LinksFollow ==
  /\ pc = "list" => dir = "egress"
  /\ pc = "linkDown" /\ dir = "ingress" => ~link["egress"]
  /\ pc \in LateStages \cup {"resetIfb"} => \A d \in Dirs : ~link[d]

ClearInv == TypeInv /\ RootlessIsBare /\ RootsFollow /\ LinksFollow

-----------------------------------------------------------------------------
(* When the agent has cleared its node both devices are down and bare,     *)
(* though it may be killed at any point, requests may fail and users may   *)
(* do what they like, as long as tc fails only for the reasons modelled.   *)

TcIsSound == "tc" \notin Disruptions

LEMMA NoTcFault ==
  ASSUME TcIsSound
  PROVE  ~Fault("tc")
BY DEF TcIsSound, Fault

\* The stages between InitIfbModule and ClearIfb.
Working == Stages \ (EarlyStages \cup LateStages \cup {"resetIfb"})

\* A step from a working stage to another one, but for the one that lists.
LEMMA WorkKeepsClear ==
  ASSUME ClearInv, UNCHANGED <<root, link>>, RootlessIsBare',
         pc \in Working \ {"list", "linkDown"}, pc' \in Working \ {"list", "linkDown"}
  PROVE  RootsFollow' /\ LinksFollow'
BY DEF ClearInv, RootsFollow, LinksFollow, Working, EarlyStages, LateStages

\* A step to the start of the agent, the end of its life, or a new pass.
LEMMA AnewKeepsClear ==
  ASSUME ClearInv, UNCHANGED <<root, link>>,
         \/ pc' \in {"linkUp", "stopped"}
         \/ pc \in Working /\ pc' = "list" /\ dir' = "egress"
  PROVE  RootsFollow' /\ LinksFollow'
BY DEF ClearInv, RootsFollow, LinksFollow, Working, EarlyStages, LateStages

\* A step within the last stages.
LEMMA LateKeepsClear ==
  ASSUME ClearInv, UNCHANGED <<root, link>>, pc \in LateStages, pc' \in LateStages
  PROVE  RootsFollow' /\ LinksFollow'
BY DEF ClearInv, RootsFollow, LinksFollow, EarlyStages, LateStages

-----------------------------------------------------------------------------
(* Only three commands touch the root queues or add something to them.     *)

LEMMA BareStays ==
  ASSUME RootlessIsBare, UNCHANGED root,
         \A d \in Dirs : filters'[d] \subseteq filters[d] /\ classes'[d] \subseteq classes[d]
  PROVE  RootlessIsBare'
BY DEF RootlessIsBare

\* What is added needs the root queue.
LEMMA AdditionKeepsBare ==
  ASSUME TypeInv, RootlessIsBare, AddFilter \/ AddClass
  PROVE  RootlessIsBare' /\ UNCHANGED <<root, link>>
<1>1. TcTypeOK /\ dir \in Dirs
  BY AgentTypes
<1>2. CASE UNCHANGED tcVars
  BY <1>2 DEF tcVars, RootlessIsBare
<1>3. CASE \E n \in ClassIds : CanAddFilter(dir) /\ FilterAdd(dir, AddressOf[cur], n)
  BY <1>1, <1>3 DEF CanAddFilter, FilterAdd, TcTypeOK, RootlessIsBare
<1>4. CASE CanAddClass(dir, cid) /\ ClassAdd(dir, cid)
  BY <1>1, <1>4 DEF CanAddClass, ClassAdd, TcTypeOK, RootlessIsBare
<1> QED
  BY <1>2, <1>3, <1>4 DEF AddFilter, AddClass, Exec, Run

LEMMA RemovalKeepsBare ==
  ASSUME TypeInv, RootlessIsBare,
         \/ Wipe \/ ResetFilter \/ ResetClass \/ SweepFilter \/ SweepClass
  PROVE  RootlessIsBare' /\ UNCHANGED <<root, link>>
<1>1. TcTypeOK /\ dir \in Dirs
  BY AgentTypes
<1>2. CASE UNCHANGED tcVars
  BY <1>2 DEF tcVars, RootlessIsBare
<1>3. CASE FilterDelAll(dir)
  BY <1>1, <1>3 DEF FilterDelAll, TcTypeOK, RootlessIsBare
<1>4. CASE \E f : FilterDel(dir, f)
  BY <1>1, <1>4 DEF FilterDel, TcTypeOK, RootlessIsBare
<1>5. CASE ClassDel(dir, cid)
  BY <1>1, <1>5 DEF ClassDel, TcTypeOK, RootlessIsBare
<1> QED
  BY <1>2, <1>3, <1>4, <1>5
     DEF Wipe, ResetFilter, ResetClass, SweepFilter, SweepClass, Exec, Run

-----------------------------------------------------------------------------
(* The walks over the devices.                                             *)

LEMMA LinkUpKeepsClear ==
  ASSUME ClearInv, TcIsSound, LinkUp
  PROVE  RootlessIsBare' /\ RootsFollow' /\ LinksFollow'
<1>1. pc = "linkUp" /\ LinkSet(dir, TRUE) /\ NextIfb("initIfb")
  BY NoTcFault DEF LinkUp, Run, On, At
<1>2. UNCHANGED <<root, filters, classes>>
  BY <1>1 DEF LinkSet
<1>3. pc' = "linkUp" \/ (pc' = "initIfb" /\ dir' = "egress")
  BY <1>1 DEF NextIfb
<1> QED
  BY <1>2, <1>3 DEF ClearInv, RootlessIsBare, RootsFollow, LinksFollow, EarlyStages, LateStages

LEMMA InitIfbKeepsClear ==
  ASSUME ClearInv, TcIsSound, InitIfb
  PROVE  RootlessIsBare' /\ RootsFollow' /\ LinksFollow'
<1>1. /\ pc = "initIfb" /\ NextIfb("list") /\ TcTypeOK /\ dir \in Dirs
      /\ IF root[dir] THEN UNCHANGED tcVars ELSE RootAdd(dir)
  BY NoTcFault, AgentTypes DEF InitIfb, Run, On, At, ClearInv
<1>2. /\ root' = [root EXCEPT ![dir] = TRUE] /\ UNCHANGED <<link, filters, classes>>
  BY <1>1 DEF RootAdd, TcTypeOK, tcVars
<1>3. RootlessIsBare'
  BY <1>1, <1>2 DEF ClearInv, RootlessIsBare, TcTypeOK
<1>4. root'[dir] /\ \A d \in Dirs \ {dir} : root'[d] = root[d]
  BY <1>1, <1>2 DEF TcTypeOK
<1>5. CASE dir = "egress"
  <2>1. pc' = "initIfb" /\ dir' = "ingress" /\ root'["egress"]
    BY <1>1, <1>4, <1>5 DEF NextIfb
  <2> QED
    BY <1>3, <2>1 DEF RootsFollow, LinksFollow, EarlyStages, LateStages
<1>6. CASE dir = "ingress"
  <2>1. pc' = "list" /\ dir' = "egress"
    BY <1>1, <1>6 DEF NextIfb
  <2>2. \A d \in Dirs : root'[d]
    BY <1>1, <1>4, <1>6 DEF ClearInv, RootsFollow, Dirs
  <2> QED
    BY <1>3, <2>1, <2>2 DEF RootsFollow, LinksFollow, EarlyStages, LateStages
<1> QED
  BY <1>1, <1>5, <1>6 DEF Dirs

LEMMA LinkDownKeepsClear ==
  ASSUME ClearInv, TcIsSound, LinkDown
  PROVE  RootlessIsBare' /\ RootsFollow' /\ LinksFollow'
<1>1. /\ pc = "linkDown" /\ NextIfb("resetIfb") /\ LinkSet(dir, FALSE)
      /\ TcTypeOK /\ dir \in Dirs
  BY NoTcFault, AgentTypes DEF LinkDown, Run, On, At, ClearInv
<1>2. link' = [link EXCEPT ![dir] = FALSE] /\ UNCHANGED <<root, filters, classes>>
  BY <1>1 DEF LinkSet
<1>3. \A d \in Dirs : root'[d]
  BY <1>1, <1>2 DEF ClearInv, RootsFollow, EarlyStages, LateStages
<1>4. RootsFollow' /\ RootlessIsBare'
  BY <1>1, <1>2, <1>3
     DEF ClearInv, RootlessIsBare, NextIfb, RootsFollow, EarlyStages, LateStages, Dirs
<1>5. LinksFollow'
  BY <1>1, <1>2 DEF ClearInv, NextIfb, LinksFollow, LateStages, TcTypeOK, Dirs
<1> QED
  BY <1>4, <1>5

LEMMA ResetIfbKeepsClear ==
  ASSUME ClearInv, TcIsSound, ResetIfb
  PROVE  RootlessIsBare' /\ RootsFollow' /\ LinksFollow'
<1>1. pc = "resetIfb" /\ TcTypeOK /\ dir \in Dirs
  BY AgentTypes DEF ResetIfb, On, At, ClearInv
<1>2. root[dir]
  BY <1>1 DEF ClearInv, RootsFollow, Dirs
<1>3. RootDel(dir) /\ NextIfb("clearPod")
  BY <1>2, NoTcFault DEF ResetIfb, Run
<1>4. /\ root' = [root EXCEPT ![dir] = FALSE] /\ UNCHANGED link
      /\ filters' = [filters EXCEPT ![dir] = {}] /\ classes' = [classes EXCEPT ![dir] = {}]
  BY <1>3 DEF RootDel
<1>5. RootlessIsBare'
  BY <1>1, <1>4 DEF ClearInv, RootlessIsBare, TcTypeOK
<1>6. LinksFollow'
  BY <1>1, <1>3, <1>4 DEF ClearInv, NextIfb, LinksFollow, LateStages
<1>7. ~root'[dir] /\ \A d \in Dirs \ {dir} : root'[d] = root[d]
  BY <1>1, <1>4 DEF TcTypeOK
<1>8. CASE dir = "egress"
  <2>1. pc' = "resetIfb" /\ dir' = "ingress" /\ ~root'["egress"] /\ root'["ingress"]
    BY <1>1, <1>3, <1>7, <1>8 DEF NextIfb, ClearInv, RootsFollow, Dirs
  <2> QED
    BY <1>5, <1>6, <2>1 DEF RootsFollow, EarlyStages, LateStages
<1>9. CASE dir = "ingress"
  <2>1. pc' = "clearPod" /\ dir' = "egress"
    BY <1>3, <1>9 DEF NextIfb
  <2>2. \A d \in Dirs : ~root'[d]
    BY <1>1, <1>7, <1>9 DEF ClearInv, RootsFollow, Dirs
  <2> QED
    BY <1>5, <1>6, <2>1, <2>2 DEF RootsFollow, EarlyStages, LateStages
<1> QED
  BY <1>1, <1>8, <1>9 DEF Dirs

-----------------------------------------------------------------------------
(* The passes.                                                             *)

LEMMA ListKeepsClear ==
  ASSUME ClearInv, List
  PROVE  RootlessIsBare' /\ RootsFollow' /\ LinksFollow'
<1>1. /\ pc = "list" /\ pc' \in {"linkDown", "pod"}
      /\ UNCHANGED <<root, link, filters, classes, dir>>
  BY DEF List, StartPass, At, tcVars
<1> QED
  BY <1>1 DEF ClearInv, RootlessIsBare, RootsFollow, LinksFollow, EarlyStages, LateStages

LEMMA PodKeepsClear ==
  ASSUME ClearInv,
         \/ StartSweep \/ Update \/ ClearUpdate \/ ClearNode
         \/ \E p \in Pods : Pod(p) \/ ClearPod(p)
  PROVE  RootlessIsBare' /\ RootsFollow' /\ LinksFollow'
<1>1. UNCHANGED <<root, link, filters, classes>>
  BY DEF StartSweep, Update, ClearUpdate, ClearNode, Pod, ClearPod,
         GetWorkload, UpdateStatus, NextPod, tcVars
<1>2. RootlessIsBare'
  BY <1>1 DEF ClearInv, RootlessIsBare
<1>3. CASE StartSweep \/ Update \/ \E p \in Pods : Pod(p)
  <2>1. pc \in {"pod", "update"} /\ pc' \in {"sweepFilter", "pod", "reconcile", "unmirror", "linkUp"}
    BY <1>3 DEF StartSweep, Update, Pod, GetWorkload, Begin, Restart, UpdateStatus,
                NextPod, Goto, On, At
  <2> QED
    BY <1>1, <1>2, <2>1, WorkKeepsClear, AnewKeepsClear DEF Working, Stages, EarlyStages, LateStages
<1>4. CASE ClearUpdate \/ ClearNode \/ \E p \in Pods : ClearPod(p)
  <2>1. pc \in LateStages /\ (pc' \in LateStages \/ pc' = "linkUp")
    BY <1>4 DEF ClearUpdate, ClearNode, ClearPod, GetWorkload, Restart, UpdateStatus,
                NextPod, Goto, At, LateStages
  <2> QED
    BY <1>1, <2>1, <1>2, LateKeepsClear, AnewKeepsClear
<1> QED
  BY <1>2, <1>3, <1>4

LEMMA ChaosKeepsClear ==
  ASSUME ClearInv,
         \/ Reconcile \/ Wipe \/ Unredirect \/ Redirect \/ AddFilter \/ AddClass
         \/ DelNetem \/ AddNetem \/ Rate \/ SetNetem
         \/ Unmirror \/ ResetFilter \/ ResetClass
  PROVE  RootlessIsBare' /\ RootsFollow' /\ LinksFollow'
<1>1. RootlessIsBare' /\ UNCHANGED <<root, link>>
  <2>1. CASE AddFilter \/ AddClass
    BY <2>1, AdditionKeepsBare DEF ClearInv
  <2>2. CASE Wipe \/ ResetFilter \/ ResetClass
    BY <2>2, RemovalKeepsBare DEF ClearInv
  <2>3. CASE Reconcile \/ Unredirect \/ Redirect \/ DelNetem \/ AddNetem
             \/ Rate \/ SetNetem \/ Unmirror
    <3>1. UNCHANGED <<root, link, filters, classes>>
      BY <2>3 DEF Reconcile, Unredirect, Redirect, DelNetem, AddNetem, Rate, SetNetem,
                  Unmirror, Exec, Run, LeafSet, ClassChange, VethSet, tcVars
    <3> QED
      BY <3>1 DEF ClearInv, RootlessIsBare
  <2> QED
    BY <2>1, <2>2, <2>3
<1>2. pc \in Working \ {"list", "linkDown"} /\ pc' \in Working \ {"list", "linkDown"}
  <2>1. CASE Reconcile \/ Wipe \/ Unredirect \/ Redirect \/ AddFilter \/ AddClass
             \/ DelNetem \/ AddNetem
    BY <2>1 DEF Reconcile, Wipe, Unredirect, Redirect, AddFilter, AddClass, DelNetem, AddNetem,
                Exec, Run, Goto, On, At, Working, Stages, EarlyStages, LateStages
  <2>2. CASE Rate \/ SetNetem \/ Unmirror \/ ResetFilter \/ ResetClass
    BY <2>2, LeaveType
       DEF Rate, SetNetem, Unmirror, ResetFilter, ResetClass, ClearInv,
           Exec, Run, Goto, On, At, Working, Stages, EarlyStages, LateStages
  <2> QED
    BY <2>1, <2>2
<1> QED
  BY <1>1, <1>2, WorkKeepsClear

LEMMA SweepKeepsClear ==
  ASSUME ClearInv, SweepFilter \/ SweepClass
  PROVE  RootlessIsBare' /\ RootsFollow' /\ LinksFollow'
<1>1. RootlessIsBare' /\ UNCHANGED <<root, link>>
  BY RemovalKeepsBare DEF ClearInv
<1>2. /\ pc \in {"sweepFilter", "sweepClass"}
      /\ pc' \in {"sweepFilter", "sweepClass"} \/ (pc' = "list" /\ dir' = "egress")
  BY DEF SweepFilter, SweepClass, Run, NextIfb, EndPass, Forget, At
<1> QED
  BY <1>1, <1>2, WorkKeepsClear, AnewKeepsClear DEF Working, Stages, EarlyStages, LateStages

LEMMA ClearMirroringKeepsClear ==
  ASSUME ClearInv, ClearMirroring
  PROVE  RootlessIsBare' /\ RootsFollow' /\ LinksFollow'
<1>1. UNCHANGED <<root, link, filters, classes>>
  BY DEF ClearMirroring, Exec, Run, VethSet, tcVars
<1>2. pc \in LateStages /\ pc' \in LateStages
  BY DEF ClearMirroring, Exec, Run, Goto, On, At, LateStages
<1> QED
  BY <1>1, <1>2, LateKeepsClear DEF ClearInv, RootlessIsBare

-----------------------------------------------------------------------------

\* Nobody but the agent takes a device up or down.
LEMMA ClusterKeepsLinks ==
  ASSUME Cluster \/ UNCHANGED vars
  PROVE  UNCHANGED link
<1>1. CASE UNCHANGED vars
  BY <1>1 DEF vars, tcVars
<1>2. CASE \E p \in Pods : CreatePod(p) \/ Wire(p) \/ AssignIP(p) \/ DeletePod(p) \/ SetLabel(p)
  <2>1. ASSUME NEW p \in Pods, DeletePod(p) PROVE UNCHANGED link
    BY <2>1 DEF DeletePod, VethGone
  <2>2. ASSUME NEW p \in Pods, CreatePod(p) \/ Wire(p) \/ AssignIP(p) \/ SetLabel(p)
        PROVE  UNCHANGED link
    BY <2>2 DEF CreatePod, Wire, AssignIP, SetLabel, tcVars
  <2> QED
    BY <1>2, <2>1, <2>2
<1>3. CASE \E p \in Pods, d \in UserDirs :
             \/ \E i \in Infos : UserSet(p, d, i)
             \/ UserRetry(p, d) \/ UserClear(p, d) \/ UserClearOnly(p, d)
  BY <1>3, UsersAnnotate DEF tcVars
<1>4. CASE UserClearNode \/ LabelNode
  BY <1>4 DEF UserClearNode, LabelNode, tcVars
<1> QED
  BY <1>1, <1>2, <1>3, <1>4 DEF Cluster

LEMMA NextClear == ClearInv /\ TcIsSound /\ [Next]_vars => ClearInv'
<1> SUFFICES ASSUME ClearInv, TcIsSound, [Next]_vars
             PROVE  RootlessIsBare' /\ RootsFollow' /\ LinksFollow'
  BY NextType DEF ClearInv
<1>1. CASE Loop
  BY <1>1, LinkUpKeepsClear, InitIfbKeepsClear, LinkDownKeepsClear, ResetIfbKeepsClear,
     ListKeepsClear, PodKeepsClear, ChaosKeepsClear, SweepKeepsClear,
     ClearMirroringKeepsClear DEF Loop
<1>2. CASE Crash \/ Kill \/ Start
  <2>1. UNCHANGED <<root, link, filters, classes>> /\ pc' \in {"linkUp", "stopped"}
    BY <1>2 DEF Crash, Kill, Start, Restart, tcVars
  <2> QED
    BY <2>1, AnewKeepsClear DEF ClearInv, RootlessIsBare
<1>3. CASE Cluster \/ UNCHANGED vars
  <2>1. UNCHANGED <<filters, classes, root, pc, dir>>
    BY <1>3, AroundChangesLittle
  <2>2. UNCHANGED link
    BY <1>3, ClusterKeepsLinks
  <2> QED
    BY <2>1, <2>2 DEF ClearInv, RootlessIsBare, RootsFollow, LinksFollow
<1> QED
  BY <1>1, <1>2, <1>3 DEF Next

LEMMA InitClear == Init => ClearInv
BY InitType DEF Init, TcInit, ClearInv, RootlessIsBare, RootsFollow, LinksFollow,
                EarlyStages, LateStages

\* Where tc fails for no reason of its own, a node that the agent has cleared
\* has nothing left on its devices, whenever the agent is killed and whatever
\* requests fail.
THEOREM ClearedNodeIsClean == TcIsSound => (Spec => []ParkedIsClean)
<1> SUFFICES ASSUME TcIsSound PROVE Spec => []ParkedIsClean
  OBVIOUS
<1>1. ClearInv /\ [Next]_vars => ClearInv'
  BY NextClear
<1>2. ClearInv => ParkedIsClean
  BY DEF ClearInv, RootlessIsBare, RootsFollow, LinksFollow, LateStages, ParkedIsClean
<1> QED
  BY <1>1, <1>2, InitClear, PTL DEF Spec

-----------------------------------------------------------------------------
(* Why nothing is left on a pod without keys: the inductive invariant      *)
(* behind AbsentMeansClean.                                                *)

\* Users ask for something whenever they set the clear key.
ClearsAsk == "clearOnly" \notin Disruptions

\* The filters on the ifb of d that are p's and cannot be another pod's.
Own(d, p) == {f \in Matching(d, AddressOf[p]) : Distinct}

\* Nothing of kube-chaos is on the traffic of p in direction d.
IsClean(p, d) == ~veth[p][d] /\ Own(d, p) = {}

\* AbsentMeansClean, but for what pods share.  The keys of a direction may go
\* before its chaos where a clear key asks for nothing.
KeylessIsClean ==
  ClearsAsk =>
    \A p \in Pods, d \in Dirs : phase[p] = "ready" /\ ann[p][d] = NoAnnotation => IsClean(p, d)

\* Only the interface of a pod with an address redirects, and of the live pods
\* only one with an address has a filter.
TracesFollowPhase ==
  \A p \in Pods, d \in Dirs :
    /\ veth[p][d] => phase[p] = "ready"
    /\ Own(d, p) # {} => phase[p] \in {"ready", "deleted"}

\* A pod is in the list of a pass because it had an address.
ListedHadAddress == \A p \in listed : phase[p] \in {"ready", "deleted"}

\* Where users do so the clear key comes with a request, also in the copies the
\* agent holds.
ClearIsPending ==
  ClearsAsk =>
    \A d \in Dirs :
      /\ \A p \in Pods : NeedClear(ann[p][d]) => NeedUpdate(ann[p][d])
      /\ \A p \in Held : NeedClear(snap[p][d]) => NeedUpdate(snap[p][d])

\* A request stays open as long as the agent holds a copy of it.
RequestsStayOpen ==
  \A p \in Held, d \in Dirs :
    phase[p] \in Live /\ NeedUpdate(snap[p][d]) => NeedUpdate(ann[p][d])

\* The agent works on no pod that is alive and whose interface it cannot name.
InterfaceIsKnown == pc \in PodStages /\ phase[cur] \in Live => Reachable

\* A pod that had no address when it was listed has no filter.
UnlistedIsBare ==
  pc \notin ClearStages =>
    \A p \in Held \ listed, d \in Dirs : Own(d, p) = {}

\* Redirects and filters are made for the pods of the list alone.
AdditionsAreListed ==
  pc \in {"wipe", "unredirect", "redirect", "addFilter"} => cur \in listed

\* Direction d of the pod being processed has been dealt with, if it asked for it.
Passed(d) == pc = "update" \/ (pc \in ChaosStages \cup ResetStages /\ dir = "egress" /\ d = "ingress")

\* What the pod being processed asked to clear and has been cleared so far is
\* clean, and no chaos is set up for a direction that is to be cleared.
ClearedSoFar ==
  pc \in PodStages /\ phase[cur] \in Live =>
    /\ pc \in ChaosStages => ~NeedClear(snap[cur][dir])
    /\ \A d \in Dirs :
         Passed(d) /\ NeedClear(snap[cur][d]) /\ NeedUpdate(snap[cur][d]) => IsClean(cur, d)
    /\ pc \in {"resetFilter", "resetClass"} => ~veth[cur][dir]
    /\ pc = "resetClass" => Own(dir, cur) = {}
    /\ pc = "clearMirroring" /\ dir = "egress" => ~veth[cur]["ingress"]
    /\ pc = "clearUpdate" => \A d \in Dirs : ~veth[cur][d]

CleanInv ==
  /\ CidrInv /\ AckInv /\ ClearInv
  /\ KeylessIsClean /\ TracesFollowPhase /\ ListedHadAddress
  /\ ClearIsPending /\ RequestsStayOpen /\ InterfaceIsKnown
  /\ UnlistedIsBare /\ AdditionsAreListed /\ ClearedSoFar

\* Where no two pods share an address the parts above are about all filters.
LEMMA OwnUnlessShared ==
  ASSUME CleanInv, Distinct
  PROVE  /\ ClearsAsk => AbsentMeansClean
         /\ \A p \in Pods, d \in Dirs : Own(d, p) = Matching(d, AddressOf[p])
<1>1. \A p \in Pods, d \in Dirs : Own(d, p) = Matching(d, AddressOf[p])
  BY DEF Own
<1>2. KeylessIsClean
  BY DEF CleanInv
<1> QED
  BY <1>1, <1>2 DEF KeylessIsClean, IsClean, AbsentMeansClean

-----------------------------------------------------------------------------
(* A pod without keys is left alone.                                       *)

\* Commands fail for no reason of their own, and etcd answers.
Orderly == Disruptions \cap {"tc", "etcd"} = {}

Traces == <<veth, filters>>

\* What CleanInv adds to the invariants it builds on, but for what depends on
\* the stage of a turn.
Standing ==
  /\ KeylessIsClean /\ TracesFollowPhase /\ ListedHadAddress
  /\ ClearIsPending /\ RequestsStayOpen /\ InterfaceIsKnown /\ UnlistedIsBare

CleanParts == Standing /\ AdditionsAreListed /\ ClearedSoFar

LEMMA CleanTypes ==
  ASSUME CleanInv
  PROVE  /\ TypeInv /\ TcTypeOK /\ AckInv /\ CidrInv /\ CleanParts
         /\ phase \in [Pods -> Phases] /\ veth \in [Pods -> [Dirs -> BOOLEAN]]
         /\ ann \in [Pods -> [Dirs -> Annotation]] /\ snap \in [Pods -> [Dirs -> Annotation]]
         /\ dir \in Dirs /\ todo \subseteq Pods /\ listed \subseteq Pods /\ NoPod \notin Pods
BY KubeChaosAssumption
   DEF CleanInv, CidrInv, CleanParts, Standing, TypeInv, TypeOK, ClusterTypeOK, AgentTypeOK,
       TcTypeOK

\* A step that takes traces away and leaves the requests and the pass alone.
LEMMA LessKeepsStanding ==
  ASSUME CleanInv, UNCHANGED <<phase, ann, heldVars>>,
         \A d \in Dirs : filters'[d] \subseteq filters[d],
         \A p \in Pods, d \in Dirs : veth'[p][d] => veth[p][d],
         pc' \in PodStages => pc \in PodStages,
         pc \in ClearStages /\ pc' \notin ClearStages => Held = {}
  PROVE  Standing'
<1>1. \A p \in Pods, d \in Dirs : Own(d, p)' \subseteq Own(d, p)
  BY DEF Own, Matching
<1>2. KeylessIsClean' /\ TracesFollowPhase'
  BY <1>1 DEF CleanInv, KeylessIsClean, IsClean, TracesFollowPhase
<1>3. ListedHadAddress' /\ ClearIsPending' /\ RequestsStayOpen'
  BY DEF CleanInv, ListedHadAddress, ClearIsPending, RequestsStayOpen, Held, heldVars
<1>4. InterfaceIsKnown'
  BY DEF CleanInv, InterfaceIsKnown, Reachable, HasVeth, heldVars
<1>5. UnlistedIsBare'
  <2> SUFFICES ASSUME pc' \notin ClearStages, NEW p \in Held \ listed, NEW d \in Dirs
               PROVE  Own(d, p)' = {}
    BY DEF UnlistedIsBare, Held, heldVars
  <2>1. p \in Pods /\ Own(d, p) = {}
    BY DEF CleanInv, UnlistedIsBare, Held
  <2> QED
    BY <1>1, <2>1
<1> QED
  BY <1>2, <1>3, <1>4, <1>5 DEF Standing

\* A step that leaves the traces alone, too.
LEMMA IdleKeepsStanding ==
  ASSUME CleanInv, UNCHANGED <<phase, ann, heldVars, Traces>>,
         pc' \in PodStages => pc \in PodStages,
         pc \in ClearStages /\ pc' \notin ClearStages => Held = {}
  PROVE  Standing'
BY LessKeepsStanding DEF Traces

LEMMA ClearedStays ==
  ASSUME CleanInv, UNCHANGED <<phase, heldVars, Traces>>,
         \/ pc' \notin PodStages
         \/ {pc, pc'} \subseteq ChaosStages /\ dir' = dir
  PROVE  ClearedSoFar'
BY DEF CleanInv, ClearedSoFar, Passed, IsClean, Own, Matching, Traces, heldVars, PodStages,
       ChaosStages, ResetStages

-----------------------------------------------------------------------------
(* The agent's preparations and passes.                                    *)

LEMMA SetUpKeepsClean ==
  ASSUME CleanInv, LinkUp \/ InitIfb \/ LinkDown \/ ResetIfb
  PROVE  CleanParts'
<1>1. UNCHANGED <<phase, ann, heldVars, veth>> /\ pc' \notin PodStages
  BY DEF LinkUp, InitIfb, LinkDown, ResetIfb, Run, On, At, NextIfb, Leap, LinkSet, RootAdd, RootDel,
         tcVars, clusterVars, PodStages
<1>2. pc \in ClearStages => pc' \in ClearStages
  BY DEF LinkUp, InitIfb, LinkDown, ResetIfb, Run, On, At, NextIfb, Leap, ClearStages
<1>3. \A d \in Dirs : filters'[d] \subseteq filters[d]
  BY CleanTypes DEF LinkUp, InitIfb, LinkDown, ResetIfb, Run, LinkSet, RootAdd, RootDel, tcVars,
                    TcTypeOK
<1>4. Standing'
  BY <1>1, <1>2, <1>3, LessKeepsStanding
<1>5. AdditionsAreListed' /\ ClearedSoFar'
  BY <1>1 DEF AdditionsAreListed, ClearedSoFar, PodStages
<1> QED
  BY <1>4, <1>5 DEF CleanParts

\* The agent's local state is lost.
LEMMA ForgetKeepsClean ==
  ASSUME CleanInv, UNCHANGED <<phase, ann, veth>>, Forget, pc' \notin PodStages,
         \A d \in Dirs : filters'[d] \subseteq filters[d]
  PROVE  CleanParts'
<1>1. Held' = {} /\ listed' = {}
  BY CleanTypes DEF Forget, Held
<1>2. \A p \in Pods, d \in Dirs : Own(d, p)' \subseteq Own(d, p)
  BY DEF Own, Matching
<1>3. KeylessIsClean' /\ TracesFollowPhase'
  BY <1>2 DEF CleanInv, KeylessIsClean, IsClean, TracesFollowPhase
<1>4. ListedHadAddress' /\ ClearIsPending' /\ RequestsStayOpen' /\ UnlistedIsBare'
  BY <1>1 DEF CleanInv, ListedHadAddress, ClearIsPending, RequestsStayOpen, UnlistedIsBare
<1>5. InterfaceIsKnown' /\ AdditionsAreListed' /\ ClearedSoFar'
  BY DEF InterfaceIsKnown, AdditionsAreListed, ClearedSoFar, PodStages
<1> QED
  BY <1>3, <1>4, <1>5 DEF CleanParts, Standing

LEMMA ListKeepsClean ==
  ASSUME CleanInv, List
  PROVE  CleanParts'
<1>1. /\ UNCHANGED <<phase, ann, cur, Traces>> /\ cur = NoPod
      /\ pc' \in {"linkDown", "pod"}
  BY CleanTypes DEF List, StartPass, At, AckInv, TurnsAreDue, PodStages, clusterVars, tcVars, Traces
<1>2. PICK items \in SUBSET Selected :
        /\ todo' \subseteq items
        /\ snap' = [p \in Pods |-> IF p \in todo' THEN ann[p] ELSE Unannotated]
        /\ listed' \subseteq {p \in items : phase[p] = "ready"}
        /\ pc' = "pod" => listed' = {p \in items : phase[p] = "ready"}
  <2>1. PICK items \in {Selected, {}} : \E clear \in {nodeClear, FALSE} : StartPass(items, clear)
    BY Zenon DEF List
  <2> QED
    BY <2>1 DEF StartPass
<1>3. \A p \in items : p \in Pods /\ phase[p] \in Live
  BY CleanTypes DEF Selected, TypeInv, TypeOK, ClusterTypeOK
<1>4. Held' \subseteq todo' /\ \A p \in Held' : snap'[p] = ann[p]
  BY <1>1, <1>2, <1>3, CleanTypes DEF Held
<1>5. KeylessIsClean' /\ TracesFollowPhase'
  BY <1>1 DEF CleanInv, KeylessIsClean, IsClean, TracesFollowPhase, Own, Matching, Traces
<1>6. ListedHadAddress'
  BY <1>1, <1>2 DEF ListedHadAddress
<1>7. ClearIsPending' /\ RequestsStayOpen'
  BY <1>1, <1>4 DEF CleanInv, ClearIsPending, RequestsStayOpen, Held
<1>8. UnlistedIsBare'
  <2> SUFFICES ASSUME pc' = "pod", NEW p \in Held' \ listed', NEW d \in Dirs
               PROVE  Own(d, p)' = {}
    BY <1>1 DEF UnlistedIsBare, ClearStages
  <2>1. p \in items /\ p \in Pods /\ phase[p] \in {"created", "wired"}
    BY <1>2, <1>3, <1>4 DEF Live
  <2> QED
    BY <1>1, <2>1 DEF CleanInv, TracesFollowPhase, Own, Matching, Traces
<1>9. InterfaceIsKnown' /\ AdditionsAreListed' /\ ClearedSoFar'
  BY <1>1 DEF InterfaceIsKnown, AdditionsAreListed, ClearedSoFar, PodStages
<1> QED
  BY <1>5, <1>6, <1>7, <1>8, <1>9 DEF CleanParts, Standing

\* The turn of p begins.
LEMMA TurnKeepsClean ==
  ASSUME CleanInv, Orderly, NEW p \in Pods, Pod(p) \/ ClearPod(p)
  PROVE  CleanParts'
<1>1. /\ p \in todo /\ pc \in {"pod", "clearPod"} /\ cur = NoPod
      /\ UNCHANGED <<phase, ann, Traces>>
  BY CleanTypes DEF Pod, ClearPod, GetWorkload, At, AckInv, TurnsAreDue, PodStages, clusterVars,
                    tcVars, Traces
<1>2. CASE Restart
  BY <1>1, <1>2, ForgetKeepsClean DEF Restart, PodStages, Traces
<1>3. CASE ~Restart
  <2>1. HasVeth(p) /\ iface' = TRUE /\ cur' = p /\ UNCHANGED <<todo, listed, snap, stale>>
    BY <1>3 DEF Pod, ClearPod, GetWorkload, Orderly, Fault
  <2>2. Held' = Held /\ p \in Held
    BY <1>1, <2>1, CleanTypes DEF Held
  <2>3. KeylessIsClean' /\ TracesFollowPhase' /\ ListedHadAddress' /\ ClearIsPending'
        /\ RequestsStayOpen'
    BY <1>1, <2>1, <2>2 DEF CleanInv, KeylessIsClean, IsClean, TracesFollowPhase, ListedHadAddress,
                           ClearIsPending, RequestsStayOpen, Own, Matching, Traces
  <2>4. InterfaceIsKnown'
    BY <1>1, <2>1 DEF InterfaceIsKnown, Reachable, HasVeth
  <2>5. /\ pc = "pod" => Pod(p) /\ pc' \in {"reconcile", "unmirror"}
                         /\ (dir' = "egress" => "ingress" \notin Updated(snap[p]))
                         /\ (pc' = "reconcile" => ~NeedClear(snap[p][dir']))
        /\ pc = "clearPod" => pc' = "clearMirroring" /\ dir' = "ingress"
    BY <1>1, <1>3 DEF Pod, ClearPod, GetWorkload, Begin, At
  <2>6. UnlistedIsBare'
    BY <1>1, <2>1, <2>2, <2>5 DEF CleanInv, UnlistedIsBare, Own, Matching, Traces, ClearStages
  <2>7. AdditionsAreListed'
    BY <1>1, <2>5 DEF AdditionsAreListed
  <2>8. ClearedSoFar'
    <3>1. dir' = "egress" => ~NeedUpdate(snap[p]["ingress"])
      BY <1>1, <2>5 DEF Updated, Dirs
    <3> QED
      BY <1>1, <2>1, <2>5, <3>1 DEF ClearedSoFar, Passed, ChaosStages
  <2> QED
    BY <2>3, <2>4, <2>6, <2>7, <2>8 DEF CleanParts, Standing
<1> QED
  BY <1>2, <1>3

-----------------------------------------------------------------------------
(* The turn of a pod: chaos is set up.                                     *)

\* While a live pod is processed its requests are open, so no promise is made
\* about the direction at hand.
LEMMA DueIsOpen ==
  ASSUME CleanInv, pc \in ChaosStages \cup ResetStages, phase[cur] \in Live
  PROVE  cur \in Held /\ cur \in Pods /\ ann[cur][dir] # NoAnnotation
<1>1. cur \in Held /\ cur \in Pods /\ NeedUpdate(snap[cur][dir])
  BY CleanTypes, InTurn DEF AckInv, WorksOnDue, TurnStages
<1>2. NeedUpdate(ann[cur][dir])
  BY <1>1, CleanTypes DEF CleanInv, RequestsStayOpen
<1> QED
  BY <1>1, <1>2 DEF NeedUpdate, NoAnnotation

LEMMA QuietKeepsClean ==
  ASSUME CleanInv, Reconcile \/ Unredirect \/ AddClass \/ DelNetem \/ AddNetem
  PROVE  CleanParts'
<1>1. UNCHANGED <<phase, ann, heldVars, dir, filters>> /\ {pc, pc'} \subseteq ChaosStages
  BY DEF Reconcile, Unredirect, AddClass, DelNetem, AddNetem, Exec, Run, Goto, On, At, VethSet,
         ClassAdd, LeafSet, clusterVars, tcVars, ChaosStages
<1>2. \A p \in Pods, d \in Dirs : veth'[p][d] => veth[p][d]
  BY CleanTypes DEF Reconcile, Unredirect, AddClass, DelNetem, AddNetem, Exec, Run, VethSet,
                    ClassAdd, LeafSet, tcVars
<1>3. Standing'
  BY <1>1, <1>2, LessKeepsStanding DEF PodStages, ChaosStages, ClearStages
<1>4. AdditionsAreListed'
  <2>1. CASE Reconcile
    <3>1. pc' \in {"wipe", "unredirect"} => HasCidr
      BY <2>1 DEF Reconcile, Goto, Found, NotFound
    <3>2. pc' \in {"wipe", "unredirect", "delNetem"}
      BY <2>1 DEF Reconcile, Goto
    <3> QED
      BY <1>1, <3>1, <3>2 DEF AdditionsAreListed, HasCidr, heldVars
  <2>2. CASE ~Reconcile
    <3>1. (pc = "unredirect" /\ pc' = "redirect") \/ pc' \in {"delNetem", "addNetem", "rate"}
      BY <2>2 DEF Unredirect, AddClass, DelNetem, AddNetem, Exec, Run, Goto, On, At
    <3> QED
      BY <1>1, <3>1 DEF CleanInv, AdditionsAreListed, heldVars
  <2> QED
    BY <2>1, <2>2
<1>5. ClearedSoFar'
  <2>1. phase[cur] \in Live => cur \in Pods
    BY <1>1, DueIsOpen
  <2> QED
    BY <1>1, <1>2, <2>1 DEF CleanInv, ClearedSoFar, Passed, IsClean, Own, Matching, heldVars, PodStages,
                            ChaosStages, ResetStages, Dirs
<1> QED
  BY <1>3, <1>4, <1>5 DEF CleanParts

LEMMA WipeKeepsClean ==
  ASSUME CleanInv, Wipe
  PROVE  CleanParts'
<1>1. /\ UNCHANGED <<phase, ann, heldVars, dir, veth>>
      /\ pc = "wipe" /\ pc' \in {"unredirect", "delNetem"}
      /\ \A d \in Dirs : filters'[d] \subseteq filters[d]
  BY CleanTypes DEF Wipe, Run, Goto, On, At, FilterDelAll, clusterVars, tcVars, TcTypeOK
<1>2. Standing'
  BY <1>1, LessKeepsStanding DEF PodStages, ClearStages
<1>3. AdditionsAreListed'
  BY <1>1 DEF CleanInv, AdditionsAreListed, heldVars
<1>4. ClearedSoFar'
  BY <1>1 DEF CleanInv, ClearedSoFar, Passed, IsClean, Own, Matching, heldVars, PodStages,
              ChaosStages, ResetStages
<1> QED
  BY <1>2, <1>3, <1>4 DEF CleanParts

\* Traces come only where a request is open, in the direction it is for.
LEMMA RedirectKeepsClean ==
  ASSUME CleanInv, Redirect
  PROVE  CleanParts'
<1>1. /\ UNCHANGED <<phase, ann, heldVars, dir, filters>>
      /\ pc = "redirect" /\ pc' \in {"addFilter", "delNetem"}
  BY DEF Redirect, Run, Goto, On, At, VethSet, clusterVars, tcVars
<1>2. CASE UNCHANGED veth
  BY <1>1, <1>2, IdleKeepsStanding, ClearedStays
     DEF CleanInv, CleanParts, AdditionsAreListed, heldVars, Traces, PodStages, ClearStages,
         ChaosStages
<1>3. CASE Reachable /\ veth' = [veth EXCEPT ![cur][dir] = TRUE]
  <2>1. cur \in Pods /\ phase[cur] = "ready" /\ ann[cur][dir] # NoAnnotation
    <3>1. cur \in Pods /\ phase[cur] \in {"wired", "ready"}
      BY <1>1, <1>3, CleanTypes, InPodStage DEF Reachable, HasVeth, PodStages
    <3>2. phase[cur] = "ready"
      BY <1>1, <3>1 DEF CleanInv, AdditionsAreListed, ListedHadAddress
    <3> QED
      BY <1>1, <3>1, <3>2, DueIsOpen DEF ChaosStages, Live
  <2>2. \A p \in Pods, d \in Dirs :
          p # cur \/ d # dir => (veth'[p][d] <=> veth[p][d])
    BY <1>3, CleanTypes
  <2>3. KeylessIsClean' /\ TracesFollowPhase'
    BY <1>1, <2>1, <2>2 DEF CleanInv, KeylessIsClean, IsClean, TracesFollowPhase, Own, Matching
  <2>4. ListedHadAddress' /\ ClearIsPending' /\ RequestsStayOpen' /\ InterfaceIsKnown'
        /\ UnlistedIsBare'
    BY <1>1 DEF CleanInv, ListedHadAddress, ClearIsPending, RequestsStayOpen, InterfaceIsKnown,
                UnlistedIsBare, Held, Own, Matching, Reachable, HasVeth, heldVars, PodStages, ClearStages
  <2>5. AdditionsAreListed'
    BY <1>1 DEF CleanInv, AdditionsAreListed, heldVars
  <2>6. ClearedSoFar'
    BY <1>1, <2>1, <2>2 DEF CleanInv, ClearedSoFar, Passed, IsClean, Own, Matching, heldVars, PodStages,
                            ChaosStages, ResetStages, Dirs
  <2> QED
    BY <2>3, <2>4, <2>5, <2>6 DEF CleanParts, Standing
<1> QED
  BY <1>2, <1>3 DEF Redirect, Run, VethSet, tcVars

\* The tables but for the filters of one address on one device.
LEMMA AddFilterAdds ==
  ASSUME CleanInv, AddFilter
  PROVE  /\ cur \in Pods
         /\ \A p \in Pods, d \in Dirs :
              p # cur \/ d # dir => Own(d, p)' = Own(d, p)
<1>1. cur \in Pods /\ TcTypeOK /\ dir \in Dirs
  BY CleanTypes, InPodStage DEF AddFilter, On, At, PodStages
<1>2. \/ UNCHANGED filters
      \/ \E n \in ClassIds, h \in Handles :
           filters' = [filters EXCEPT ![dir] =
             filters[dir] \cup {[cidr |-> AddressOf[cur], flowid |-> n, handle |-> h]}]
  BY Zenon DEF AddFilter, Run, FilterAdd, tcVars
<1>3. ASSUME NEW p \in Pods, NEW d \in Dirs, p # cur \/ d # dir
      PROVE  Own(d, p)' = Own(d, p)
  <2>1. CASE UNCHANGED filters
    BY <2>1 DEF Own, Matching
  <2>2. ASSUME NEW n \in ClassIds, NEW h \in Handles,
               filters' = [filters EXCEPT ![dir] =
                 filters[dir] \cup {[cidr |-> AddressOf[cur], flowid |-> n, handle |-> h]}]
        PROVE  Own(d, p)' = Own(d, p)
    <3> DEFINE f == [cidr |-> AddressOf[cur], flowid |-> n, handle |-> h]
    <3>1. Distinct => (p # cur => f.cidr # AddressOf[p])
      BY <1>1 DEF Distinct
    <3> HIDE DEF f
    <3>2. filters' = [filters EXCEPT ![dir] = filters[dir] \cup {f}]
      BY <2>2 DEF f
    <3> QED
      BY <1>1, <1>3, <3>1, <3>2 DEF TcTypeOK, Own, Matching
  <2> QED
    BY <1>2, <2>1, <2>2
<1> QED
  BY <1>1, <1>3

LEMMA AddFilterKeepsClean ==
  ASSUME CleanInv, AddFilter
  PROVE  CleanParts'
<1>1. /\ UNCHANGED <<phase, ann, heldVars, dir, veth>>
      /\ pc = "addFilter" /\ pc' \in {"addClass", "delNetem"}
  BY DEF AddFilter, Run, Goto, On, At, FilterAdd, clusterVars, tcVars
<1>2. cur \in Pods /\ cur \in listed /\ phase[cur] \in {"ready", "deleted"}
  BY <1>1, AddFilterAdds DEF CleanInv, AdditionsAreListed, ListedHadAddress
<1>3. phase[cur] = "ready" => ann[cur][dir] # NoAnnotation
  BY <1>1, DueIsOpen DEF ChaosStages, Live
<1>4. \A p \in Pods, d \in Dirs :
        p # cur \/ d # dir => Own(d, p)' = Own(d, p)
  BY AddFilterAdds
<1>5. KeylessIsClean' /\ TracesFollowPhase'
  BY <1>1, <1>2, <1>3, <1>4 DEF CleanInv, KeylessIsClean, IsClean, TracesFollowPhase
<1>6. ListedHadAddress' /\ ClearIsPending' /\ RequestsStayOpen' /\ InterfaceIsKnown'
  BY <1>1 DEF CleanInv, ListedHadAddress, ClearIsPending, RequestsStayOpen, InterfaceIsKnown,
              Held, Reachable, HasVeth, heldVars, PodStages
<1>7. UnlistedIsBare'
  <2>1. Held' = Held /\ listed' = listed /\ pc \notin ClearStages
    BY <1>1 DEF Held, heldVars, ClearStages
  <2> QED
    BY <1>2, <1>4, <2>1 DEF CleanInv, UnlistedIsBare, Held
<1>8. AdditionsAreListed'
  BY <1>1 DEF AdditionsAreListed
<1>9. ClearedSoFar'
  BY <1>1, <1>2, <1>4 DEF CleanInv, ClearedSoFar, Passed, IsClean, heldVars, PodStages,
                          ChaosStages, ResetStages, Dirs
<1> QED
  BY <1>5, <1>6, <1>7, <1>8, <1>9 DEF CleanParts, Standing

-----------------------------------------------------------------------------
(* The turn of a pod: a direction is left, or cleared.                     *)

\* A direction is left when it is clean or was not to be cleared.
LEMMA LeaveKeepsClean ==
  ASSUME CleanInv, pc \in ChaosStages \cup ResetStages, UNCHANGED <<phase, ann, heldVars>>, Leave,
         \A d \in Dirs : filters'[d] \subseteq filters[d],
         \A p \in Pods, d \in Dirs : veth'[p][d] => veth[p][d],
         \A p \in Pods, d \in Dirs :
           p = cur /\ d = dir /\ phase[p] \in Live /\ NeedClear(snap[p][d]) => IsClean(p, d)'
  PROVE  CleanParts'
<1>1. cur \in Pods /\ cur \in Held /\ dir \in Dirs
  BY InTurn, CleanTypes DEF TurnStages
<1>2. \/ /\ dir = "ingress" /\ dir' = "egress" /\ pc' \in {"unmirror", "reconcile"}
         /\ pc' = "reconcile" => ~NeedClear(snap[cur]["egress"])
      \/ pc' = "update" /\ (dir = "ingress" => ~NeedUpdate(snap[cur]["egress"]))
  BY DEF Leave, Begin, Updated, Dirs
<1>3. Standing'
  BY <1>2, LessKeepsStanding DEF PodStages, ChaosStages, ResetStages, ClearStages
<1>4. AdditionsAreListed'
  BY <1>2 DEF AdditionsAreListed
<1>5. ASSUME NEW p \in Pods, p = cur, NEW d \in Dirs, phase[p] \in Live, Passed(d)',
             NeedClear(snap[p][d]), NeedUpdate(snap[p][d])
      PROVE  IsClean(p, d)'
  <2>1. CASE d = dir
    BY <1>5, <2>1
  <2>2. CASE d = "ingress" /\ dir = "egress"
    <3>1. IsClean(p, d)
      BY <1>1, <1>5, <2>2 DEF CleanInv, ClearedSoFar, Passed, PodStages, ChaosStages, ResetStages
    <3> QED
      BY <1>1, <3>1 DEF IsClean, Own, Matching
  <2>3. CASE d = "egress" /\ dir = "ingress"
    BY <1>1, <1>2, <1>5, <2>3 DEF Passed, ChaosStages, ResetStages
  <2> QED
    BY <1>1, <2>1, <2>2, <2>3 DEF Dirs
<1>6. ClearedSoFar'
  <2>1. cur' = cur /\ snap' = snap /\ phase' = phase
    BY DEF heldVars
  <2>2. ASSUME phase[cur] \in Live
        PROVE  (\A d \in Dirs : Passed(d) /\ NeedClear(snap[cur][d]) /\ NeedUpdate(snap[cur][d])
                              => IsClean(cur, d))'
    BY <1>1, <1>5, <2>1, <2>2
  <2> QED
    BY <1>2, <2>1, <2>2 DEF ClearedSoFar, ChaosStages
<1> QED
  BY <1>3, <1>4, <1>6 DEF CleanParts

LEMMA ExecKeepsClean ==
  ASSUME CleanInv, Rate \/ SetNetem
  PROVE  CleanParts'
<1>1. pc \in {"rate", "netem"} /\ UNCHANGED <<phase, ann, heldVars, Traces>>
  BY DEF Rate, SetNetem, Exec, Run, On, At, ClassChange, LeafSet, clusterVars, tcVars, Traces
<1>2. CASE pc' = "netem" /\ dir' = dir
  BY <1>1, <1>2, IdleKeepsStanding, ClearedStays
     DEF CleanParts, AdditionsAreListed, PodStages, ChaosStages, ClearStages
<1>3. CASE Leave
  <2>1. phase[cur] \in Live => ~NeedClear(snap[cur][dir])
    BY <1>1 DEF CleanInv, ClearedSoFar, PodStages, ChaosStages
  <2> QED
    BY <1>1, <1>3, <2>1, LeaveKeepsClean DEF Traces, ChaosStages
<1> QED
  BY <1>2, <1>3 DEF Rate, SetNetem, Exec, Run, Goto

LEMMA UnmirrorKeepsClean ==
  ASSUME CleanInv, Orderly, Unmirror
  PROVE  CleanParts'
<1>1. /\ UNCHANGED <<phase, ann, heldVars, dir, filters>>
      /\ pc = "unmirror" /\ pc' = "resetFilter"
  BY DEF Unmirror, Exec, Run, Goto, On, At, VethSet, clusterVars, tcVars
<1>2. cur \in Pods /\ dir \in Dirs /\ veth \in [Pods -> [Dirs -> BOOLEAN]]
  BY <1>1, CleanTypes, InPodStage DEF PodStages
<1>3. \/ veth' = [veth EXCEPT ![cur][dir] = FALSE]
      \/ ~Reachable /\ UNCHANGED veth
  BY DEF Unmirror, Exec, Run, VethSet, tcVars, Orderly, Fault
<1>4. \A p \in Pods, d \in Dirs : veth'[p][d] => veth[p][d]
  BY <1>2, <1>3
<1>5. Standing'
  BY <1>1, <1>4, LessKeepsStanding DEF PodStages, ClearStages
<1>6. AdditionsAreListed'
  BY <1>1 DEF AdditionsAreListed
<1>7. phase[cur] \in Live => ~veth'[cur][dir]
  BY <1>1, <1>2, <1>3 DEF CleanInv, InterfaceIsKnown, PodStages
<1>8. ClearedSoFar'
  BY <1>1, <1>2, <1>4, <1>7 DEF CleanInv, ClearedSoFar, Passed, IsClean, Own, Matching, heldVars,
                                PodStages, ChaosStages, ResetStages, Dirs
<1> QED
  BY <1>5, <1>6, <1>8 DEF CleanParts

LEMMA ResetFilterKeepsClean ==
  ASSUME CleanInv, Orderly, ResetFilter
  PROVE  CleanParts'
<1>1. (UNCHANGED <<phase, ann, heldVars, dir, veth>> /\ pc = "resetFilter") \/ Leave
  BY DEF ResetFilter, On, At, FilterDel, clusterVars, tcVars
<1>2. /\ UNCHANGED <<phase, ann, heldVars, veth>> /\ pc = "resetFilter"
      /\ \A d \in Dirs : filters'[d] \subseteq filters[d]
  BY CleanTypes DEF ResetFilter, On, At, FilterDel, clusterVars, tcVars, TcTypeOK
<1>3. cur \in Pods /\ cur \in Held /\ dir \in Dirs
  BY <1>2, CleanTypes, InTurn DEF TurnStages, ResetStages
<1>4. phase[cur] \in Live => ~veth[cur][dir]
  BY <1>2 DEF CleanInv, ClearedSoFar, PodStages
<1>5. CASE \E f \in filters[dir] :
             Found(f) /\ FilterDel(dir, f) /\ pc' = "resetClass" /\ UNCHANGED dir
  <2>1. PICK f \in filters[dir] :
          Found(f) /\ FilterDel(dir, f) /\ pc' = "resetClass" /\ UNCHANGED dir
    BY <1>5
  <2>2. Own(dir, cur)' = {}
    <3>1. f.cidr = AddressOf[cur] /\ \A g \in filters[dir] : g.cidr = AddressOf[cur] => g = f
      BY <1>3, <2>1 DEF CleanInv, CidrInv, OneFilterPerCidr, Found, Finds, Own, Matching
    <3>2. filters'[dir] = filters[dir] \ {f}
      BY <1>3, <2>1, CleanTypes DEF FilterDel, TcTypeOK
    <3>3. cur' = cur /\ dir' = dir
      BY <1>2, <2>1 DEF heldVars
    <3> QED
      BY <3>1, <3>2, <3>3 DEF Own, Matching
  <2>3. Standing'
    BY <1>2, <2>1, LessKeepsStanding DEF PodStages, ClearStages
  <2>4. ClearedSoFar'
    <3>1. ASSUME NEW d \in Dirs, IsClean(cur, d) PROVE IsClean(cur, d)'
      BY <1>2, <1>3, <3>1 DEF IsClean, Own, Matching, heldVars
    <3>2. \A d \in Dirs : Passed(d)' => Passed(d)
      BY <1>2, <2>1 DEF Passed, ChaosStages, ResetStages
    <3> QED
      BY <1>2, <1>3, <1>4, <2>1, <2>2, <3>1, <3>2
         DEF CleanInv, ClearedSoFar, IsClean, Own, Matching, heldVars, PodStages, ChaosStages
  <2> QED
    BY <2>1, <2>3, <2>4 DEF CleanParts, AdditionsAreListed
<1>6. CASE Leave /\ (NotFound \/ ~HasCidr) /\ UNCHANGED tcVars
  <2>1. Own(dir, cur) = {}
    BY <1>2, <1>3, <1>6 DEF NotFound, HasCidr, CleanInv, UnlistedIsBare, ClearStages, Own, Matching
  <2>2. \A p \in Pods, d \in Dirs : p = cur /\ d = dir /\ phase[p] \in Live => IsClean(p, d)'
    BY <1>2, <1>4, <1>6, <2>1 DEF IsClean, Own, Matching, tcVars
  <2> QED
    BY <1>2, <1>6, <2>2, LeaveKeepsClean DEF ResetStages
<1> QED
  BY <1>5, <1>6 DEF ResetFilter, Orderly, Fault

LEMMA ResetClassKeepsClean ==
  ASSUME CleanInv, ResetClass
  PROVE  CleanParts'
<1>1. UNCHANGED <<phase, ann, heldVars, Traces>> /\ pc = "resetClass" /\ Leave
  BY DEF ResetClass, Exec, Run, On, At, ClassDel, clusterVars, tcVars, Traces
<1>2. \A p \in Pods, d \in Dirs : p = cur /\ d = dir /\ phase[p] \in Live => IsClean(p, d)'
  BY <1>1 DEF CleanInv, ClearedSoFar, IsClean, Own, Matching, Traces, heldVars, PodStages
<1> QED
  BY <1>1, <1>2, LeaveKeepsClean DEF Traces, ResetStages

-----------------------------------------------------------------------------
(* The answer.                                                             *)

\* The keys of a direction go when it is clean, and the clear key goes with them;
\* a clear key that asks for nothing may go with the rest though it is not.
LEMMA KeysGoWhenClean ==
  ASSUME CleanInv, Update \/ ClearUpdate, NEW d \in Dirs
  PROVE  \/ ann'[cur][d] = ann[cur][d]
         \/ ann'[cur][d] = NoAnnotation /\ (phase[cur] \in Live /\ (ClearsAsk \/ NeedUpdate(ann[cur][d])) => IsClean(cur, d))
         \/ ann'[cur][d] = [ann[cur][d] EXCEPT !.done = "yes"] /\ ~NeedClear(ann[cur][d])
<1>1. cur \in Held /\ cur \in Pods
  BY InTurn DEF Update, ClearUpdate, TurnStages, CleanInv
<1>2. CASE UNCHANGED ann
  BY <1>2
<1>3. CASE UpdateAccepted /\ Update
                /\ ann' = [ann EXCEPT ![cur] =
                     SetPodChaosUpdated(snap[cur], Updated(snap[cur]), Cleared(snap[cur]))]
  <2>1. pc = "update" /\ phase[cur] \in Live /\ snap[cur] = ann[cur]
    BY <1>1, <1>3 DEF Update, UpdateAccepted, CleanInv, AckInv, CopiesAreCurrent
  <2>2. ann'[cur] = SetPodChaosUpdated(ann[cur], Updated(ann[cur]), Cleared(ann[cur]))
    BY <1>1, <1>3, <2>1, CleanTypes
  <2>3. CASE NeedClear(ann[cur][d])
    <3>1. ann'[cur][d] = NoAnnotation
      BY <2>2, <2>3 DEF SetPodChaosUpdated, Cleared
    <3>2. ClearsAsk \/ NeedUpdate(ann[cur][d]) => IsClean(cur, d)
      BY <1>1, <2>1, <2>3 DEF CleanInv, ClearIsPending, ClearedSoFar, Passed, PodStages
    <3> QED
      BY <3>1, <3>2
  <2>4. CASE ~NeedClear(ann[cur][d]) /\ NeedUpdate(ann[cur][d])
    BY <2>2, <2>4 DEF SetPodChaosUpdated, Updated, Cleared
  <2>5. CASE ~NeedClear(ann[cur][d]) /\ ~NeedUpdate(ann[cur][d])
    BY <2>2, <2>5 DEF SetPodChaosUpdated, Updated, Cleared
  <2> QED
    BY <2>3, <2>4, <2>5
<1>4. CASE ClearUpdate /\ ann' = [ann EXCEPT ![cur] = SetPodChaosUpdated(snap[cur], {}, Dirs)]
  <2>1. pc = "clearUpdate"
    BY <1>4 DEF ClearUpdate
  <2>2. ann'[cur][d] = NoAnnotation
    BY <1>1, <1>4, CleanTypes DEF SetPodChaosUpdated
  <2>3. filters[d] = {}
    BY <2>1 DEF CleanInv, ClearInv, RootsFollow, RootlessIsBare, LateStages
  <2>4. phase[cur] \in Live => ~veth[cur][d]
    BY <2>1 DEF CleanInv, ClearedSoFar, PodStages
  <2> QED
    BY <2>2, <2>3, <2>4 DEF IsClean, Own, Matching
<1> QED
  BY <1>2, <1>3, <1>4 DEF Update, ClearUpdate, UpdateStatus

LEMMA AnswerKeepsClean ==
  ASSUME CleanInv, Update \/ ClearUpdate
  PROVE  CleanParts'
<1>1. /\ cur \in Held /\ cur \in Pods
      /\ pc \in {"update", "clearUpdate"} /\ pc' = (IF pc = "update" THEN "pod" ELSE "clearPod")
  BY InTurn DEF Update, ClearUpdate, UpdateStatus, NextPod, TurnStages, CleanInv
<1>2. /\ UNCHANGED <<phase, listed, Traces>> /\ cur' = NoPod
      /\ todo' = todo \ {cur}
      /\ snap' = [snap EXCEPT ![cur] = Unannotated]
  BY DEF Update, ClearUpdate, UpdateStatus, NextPod, tcVars, Traces
<1>3. \A p \in Pods \ {cur} : ann'[p] = ann[p] /\ snap'[p] = snap[p]
  BY <1>1, <1>2, CleanTypes DEF Update, ClearUpdate, UpdateStatus
<1>4. \A p \in Held' : p \in Held /\ p \in Pods \ {cur}
  BY <1>1, <1>2, CleanTypes DEF Held
<1>5. ASSUME NEW p \in Pods, NEW d \in Dirs
      PROVE  ClearsAsk => /\ phase[p] = "ready" /\ ann'[p][d] = NoAnnotation => IsClean(p, d)
                          /\ NeedClear(ann'[p][d]) => NeedUpdate(ann'[p][d])
  <2>1. CASE ann'[p][d] = ann[p][d]
    BY <2>1 DEF CleanInv, KeylessIsClean, IsClean, ClearIsPending
  <2>2. CASE p = cur /\ ann'[p][d] = NoAnnotation /\ (phase[p] \in Live /\ ClearsAsk => IsClean(p, d))
    BY <2>2 DEF NoAnnotation, NeedClear, Live
  <2>3. CASE ann'[p][d] = [ann[p][d] EXCEPT !.done = "yes"] /\ ~NeedClear(ann[p][d])
    BY <2>3, CleanTypes DEF NoAnnotation, NeedClear, Annotation
  <2> QED
    BY <1>3, <2>1, <2>2, <2>3, KeysGoWhenClean
<1>6. KeylessIsClean' /\ TracesFollowPhase' /\ ListedHadAddress'
  BY <1>2, <1>5 DEF CleanInv, KeylessIsClean, IsClean, TracesFollowPhase, ListedHadAddress, IsClean,
                    Own, Matching, Traces
<1>7. ClearIsPending'
  BY <1>3, <1>4, <1>5 DEF CleanInv, ClearIsPending
<1>8. RequestsStayOpen'
  BY <1>2, <1>3, <1>4 DEF CleanInv, RequestsStayOpen
<1>9. UnlistedIsBare'
  BY <1>1, <1>2, <1>4 DEF CleanInv, UnlistedIsBare, Own, Matching, Traces, ClearStages, Held
<1>10. InterfaceIsKnown' /\ AdditionsAreListed' /\ ClearedSoFar'
  BY <1>1 DEF InterfaceIsKnown, AdditionsAreListed, ClearedSoFar, PodStages
<1> QED
  BY <1>6, <1>7, <1>8, <1>9, <1>10 DEF CleanParts, Standing

-----------------------------------------------------------------------------
(* The sweep, and the clearing of the node.                                *)

LEMMA SweepKeepsClean ==
  ASSUME CleanInv, StartSweep \/ SweepFilter \/ SweepClass
  PROVE  CleanParts'
<1>1. /\ UNCHANGED <<phase, ann, veth>>
      /\ pc \in {"pod", "sweepFilter", "sweepClass"}
      /\ \A d \in Dirs : filters'[d] \subseteq filters[d]
  BY CleanTypes DEF StartSweep, SweepFilter, SweepClass, Run, On, At, FilterDel, ClassDel, clusterVars,
                    tcVars, TcTypeOK
<1>2. CASE EndPass
  BY <1>1, <1>2, ForgetKeepsClean DEF EndPass, PodStages
<1>3. CASE UNCHANGED heldVars /\ pc' \in {"sweepFilter", "sweepClass", "list"}
  <2>1. Standing'
    BY <1>1, <1>3, LessKeepsStanding DEF PodStages, ClearStages
  <2> QED
    BY <1>3, <2>1 DEF CleanParts, AdditionsAreListed, ClearedSoFar, PodStages
<1>4. CASE StartSweep
  BY <1>3, <1>4 DEF StartSweep, On, Goto
<1>5. CASE SweepFilter
  BY <1>1, <1>2, <1>3, <1>5 DEF SweepFilter, At, NextIfb
<1>6. CASE SweepClass
  BY <1>2, <1>3, <1>6 DEF SweepClass, Run
<1> QED
  BY <1>4, <1>5, <1>6

LEMMA ClearMirroringKeepsClean ==
  ASSUME CleanInv, Orderly, ClearMirroring
  PROVE  CleanParts'
<1>1. /\ UNCHANGED <<phase, ann, heldVars, filters>> /\ pc = "clearMirroring"
      /\ \/ dir = "ingress" /\ dir' = "egress" /\ pc' = pc
         \/ dir # "ingress" /\ pc' = "clearUpdate" /\ dir' = dir
  BY DEF ClearMirroring, Exec, Run, Goto, On, At, VethSet, clusterVars, tcVars
<1>2. cur \in Pods /\ dir \in Dirs /\ veth \in [Pods -> [Dirs -> BOOLEAN]]
  BY <1>1, CleanTypes, InPodStage DEF PodStages
<1>3. \/ veth' = [veth EXCEPT ![cur][dir] = FALSE]
      \/ ~Reachable /\ UNCHANGED veth
  BY DEF ClearMirroring, Exec, Run, VethSet, tcVars, Orderly, Fault
<1>4. \A p \in Pods, d \in Dirs : veth'[p][d] => veth[p][d]
  BY <1>2, <1>3
<1>5. Standing'
  BY <1>1, <1>4, LessKeepsStanding DEF PodStages, ClearStages
<1>6. AdditionsAreListed'
  BY <1>1 DEF AdditionsAreListed
<1>7. phase[cur] \in Live => ~veth'[cur][dir]
  BY <1>1, <1>2, <1>3 DEF CleanInv, InterfaceIsKnown, PodStages
<1>8. dir = "egress" /\ phase[cur] \in Live => ~veth'[cur]["ingress"]
  BY <1>1, <1>2, <1>4 DEF CleanInv, ClearedSoFar, PodStages, Dirs
<1>9. ClearedSoFar'
  <2>1. cur' = cur /\ phase' = phase
    BY <1>1 DEF heldVars
  <2> QED
    BY <1>1, <1>2, <1>7, <1>8, <2>1 DEF ClearedSoFar, Passed, ChaosStages, ResetStages, Dirs
<1> QED
  BY <1>5, <1>6, <1>9 DEF CleanParts

LEMMA ClearNodeKeepsClean ==
  ASSUME CleanInv, ClearNode
  PROVE  CleanParts'
<1>1. /\ UNCHANGED <<phase, ann, heldVars, Traces>> /\ todo = {}
      /\ pc = "clearPod" /\ pc' = "parked"
  BY DEF ClearNode, Goto, tcVars, Traces
<1>2. Held = {}
  BY <1>1, CleanTypes DEF CleanInv, AckInv, TurnsAreDue, PodStages, Held
<1>3. Standing'
  BY <1>1, <1>2, IdleKeepsStanding DEF PodStages
<1> QED
  BY <1>1, <1>3 DEF CleanParts, AdditionsAreListed, ClearedSoFar, PodStages

-----------------------------------------------------------------------------
(* The cluster.                                                            *)

\* While the agent works on a pod it holds the pod's copy.
LEMMA WorkedOnIsHeld ==
  ASSUME CleanInv, pc \in PodStages
  PROVE  cur \in Held /\ cur \in Pods
BY InTurn DEF CleanInv, PodStages, TurnStages, ChaosStages, ResetStages

\* A pod comes to life, or gets its interface or its address.
LEMMA LivesKeepClean ==
  ASSUME CleanInv, NEW p \in Pods, CreatePod(p) \/ Wire(p) \/ AssignIP(p) \/ SetLabel(p)
  PROVE  CleanParts'
<1>1. /\ UNCHANGED <<ann, Traces>>
      /\ UNCHANGED <<pc, todo, listed, snap, cur, iface, dir>>
  BY DEF CreatePod, Wire, AssignIP, SetLabel, AroundAgent, tcVars, Traces
<1>2. Held' = Held
  BY <1>1 DEF Held
<1>3. \A q \in Pods :
        \/ phase'[q] = phase[q]
        \/ phase[q] = "none" /\ phase'[q] = "created"
        \/ phase[q] \in {"created", "wired"} /\ phase'[q] \in {"wired", "ready"}
  BY CleanTypes DEF CreatePod, Wire, AssignIP, SetLabel
<1>4. KeylessIsClean' /\ TracesFollowPhase'
  BY <1>1, <1>3 DEF CleanInv, KeylessIsClean, IsClean, TracesFollowPhase, Own, Matching, Traces
<1>5. ListedHadAddress'
  <2>1. \A q \in listed : q \in Pods /\ phase[q] \in {"ready", "deleted"}
    BY CleanTypes DEF CleanInv, ListedHadAddress
  <2> QED
    BY <1>1, <1>3, <2>1 DEF ListedHadAddress
<1>6. ClearIsPending' /\ UnlistedIsBare'
  BY <1>1, <1>2 DEF CleanInv, ClearIsPending, UnlistedIsBare, Own, Matching, Traces
<1>7. \A q \in Held : phase'[q] \in Live => phase[q] \in Live
  BY <1>3 DEF CleanInv, AckInv, CopiesAreCurrent, Held, Live
<1>8. RequestsStayOpen'
  BY <1>1, <1>2, <1>7 DEF CleanInv, RequestsStayOpen
<1>9. InterfaceIsKnown' /\ AdditionsAreListed' /\ ClearedSoFar'
  <2>1. CASE pc \notin PodStages
    BY <1>1, <2>1 DEF InterfaceIsKnown, AdditionsAreListed, ClearedSoFar, PodStages
  <2>2. CASE pc \in PodStages
    <3>1. cur \in Pods /\ (phase'[cur] \in Live => phase[cur] \in Live)
      BY <1>7, <2>2, WorkedOnIsHeld
    <3>2. InterfaceIsKnown'
      BY <1>1, <1>3, <2>2, <3>1 DEF CleanInv, InterfaceIsKnown, Reachable, HasVeth
    <3>3. AdditionsAreListed' /\ ClearedSoFar'
      BY <1>1, <2>2, <3>1 DEF CleanInv, AdditionsAreListed, ClearedSoFar, Passed, IsClean,
                              Own, Matching, Traces
    <3> QED
      BY <3>2, <3>3
  <2> QED
    BY <2>1, <2>2
<1> QED
  BY <1>4, <1>5, <1>6, <1>8, <1>9 DEF CleanParts, Standing

\* A deleted pod takes its interface along, and its filters wait for the sweep.
LEMMA DeletePodKeepsClean ==
  ASSUME CleanInv, NEW p \in Pods, DeletePod(p)
  PROVE  CleanParts'
<1>1. /\ UNCHANGED <<filters, pc, todo, listed, snap, cur, iface, dir>>
      /\ phase' = [phase EXCEPT ![p] = "deleted"]
      /\ ann' = [ann EXCEPT ![p] = Unannotated]
      /\ veth' = [veth EXCEPT ![p] = [d \in Dirs |-> FALSE]]
      /\ phase[p] \in Live
  BY DEF DeletePod, AroundAgent, VethGone
<1>2. /\ \A q \in Pods \ {p} : phase'[q] = phase[q] /\ ann'[q] = ann[q] /\ veth'[q] = veth[q]
      /\ phase'[p] = "deleted"
      /\ \A d \in Dirs : ann'[p][d] = NoAnnotation /\ ~veth'[p][d]
  BY <1>1, CleanTypes DEF Unannotated
<1>3. Held' = Held /\ Held \subseteq Pods
  BY <1>1 DEF Held
<1>4. KeylessIsClean' /\ TracesFollowPhase'
  BY <1>1, <1>2 DEF CleanInv, KeylessIsClean, IsClean, TracesFollowPhase, Own, Matching
<1>5. ListedHadAddress'
  BY <1>1, <1>2, CleanTypes DEF CleanInv, ListedHadAddress
<1>6. ClearIsPending' /\ UnlistedIsBare' /\ RequestsStayOpen'
  BY <1>1, <1>2, <1>3 DEF CleanInv, ClearIsPending, UnlistedIsBare, RequestsStayOpen, Own, Matching,
                          NoAnnotation, NeedClear, Live
<1>7. InterfaceIsKnown' /\ AdditionsAreListed' /\ ClearedSoFar'
  <2>1. CASE pc \notin PodStages
    BY <1>1, <2>1 DEF InterfaceIsKnown, AdditionsAreListed, ClearedSoFar, PodStages
  <2>2. CASE pc \in PodStages /\ cur = p
    BY <1>1, <1>2, <2>2 DEF CleanInv, InterfaceIsKnown, AdditionsAreListed, ClearedSoFar, Live
  <2>3. CASE pc \in PodStages /\ cur # p
    BY <1>1, <1>2, <2>3, WorkedOnIsHeld
       DEF CleanInv, InterfaceIsKnown, AdditionsAreListed, ClearedSoFar, Passed, IsClean,
           Own, Matching, Reachable, HasVeth
  <2> QED
    BY <2>1, <2>2, <2>3
<1> QED
  BY <1>4, <1>5, <1>6, <1>7 DEF CleanParts, Standing

\* Users write a request, or a clear key on one that was answered; they never
\* take a request away.
LEMMA AnnotateKeepsClean ==
  ASSUME CleanInv, NEW p \in Pods, NEW d \in Dirs, NEW a, NEW wish, Annotate(p, d, a, wish),
         NeedUpdate(a) \/ (~ClearsAsk /\ ~NeedUpdate(ann[p][d]))
  PROVE  CleanParts'
<1>1. /\ UNCHANGED <<phase, Traces>>
      /\ UNCHANGED <<pc, todo, listed, snap, cur, iface, dir>>
      /\ ann' = [ann EXCEPT ![p][d] = a]
  BY DEF Annotate, AroundAgent, tcVars, Traces
<1>2. /\ \A q \in Pods, e \in Dirs :
           \/ ann'[q][e] = ann[q][e] \/ NeedUpdate(ann'[q][e])
           \/ ~ClearsAsk /\ ~NeedUpdate(ann[q][e])
      /\ Held' = Held /\ Held \subseteq Pods
  BY <1>1, CleanTypes DEF Held
<1>3. KeylessIsClean'
  BY <1>1, <1>2 DEF CleanInv, KeylessIsClean, IsClean, Own, Matching, Traces, NeedUpdate, NoAnnotation
<1>4. TracesFollowPhase' /\ ListedHadAddress' /\ InterfaceIsKnown' /\ AdditionsAreListed'
      /\ ClearedSoFar'
  BY <1>1 DEF CleanInv, TracesFollowPhase, ListedHadAddress, InterfaceIsKnown,
              AdditionsAreListed, ClearedSoFar, Passed, IsClean, Own, Matching, Reachable, HasVeth, Traces
<1>5. ClearIsPending' /\ RequestsStayOpen' /\ UnlistedIsBare'
  BY <1>1, <1>2 DEF CleanInv, ClearIsPending, RequestsStayOpen, UnlistedIsBare, Own, Matching, Traces
<1> QED
  BY <1>3, <1>4, <1>5 DEF CleanParts, Standing

LEMMA UserKeepsClean ==
  ASSUME CleanInv, Orderly, NEW p \in Pods, NEW d \in UserDirs,
         \/ \E i \in Infos : UserSet(p, d, i)
         \/ UserRetry(p, d) \/ UserClear(p, d) \/ UserClearOnly(p, d)
  PROVE  CleanParts'
<1>1. d \in Dirs /\ ann[p][d] \in Annotation
  BY CleanTypes, KubeChaosAssumption
<1>2. CASE \E i \in Infos : UserSet(p, d, i)
  <2>1. PICK i \in Infos : UserSet(p, d, i)
    BY <1>2
  <2> DEFINE a == [ann[p][d] EXCEPT !.info = i, !.done = "no"]
  <2>2. Annotate(p, d, a, i) /\ a.done = "no"
    BY <1>1, <2>1 DEF UserSet, Annotation
  <2> HIDE DEF a
  <2> QED
    BY <1>1, <2>2, AnnotateKeepsClean DEF NeedUpdate
<1>3. CASE UserRetry(p, d)
  <2> DEFINE a == [ann[p][d] EXCEPT !.done = "no"]
  <2>1. (\E wish : Annotate(p, d, a, wish)) /\ a.done = "no"
    BY <1>1, <1>3 DEF UserRetry, Annotation
  <2> HIDE DEF a
  <2> QED
    BY <1>1, <2>1, AnnotateKeepsClean DEF NeedUpdate
<1>4. CASE UserClear(p, d)
  <2> DEFINE a == [ann[p][d] EXCEPT !.clear = TRUE, !.done = "no"]
  <2>1. Annotate(p, d, a, "clear") /\ a.done = "no"
    BY <1>1, <1>4 DEF UserClear, Annotation
  <2> HIDE DEF a
  <2> QED
    BY <1>1, <2>1, AnnotateKeepsClean DEF NeedUpdate
<1>5. CASE UserClearOnly(p, d)
  <2>1. (\E a : Annotate(p, d, a, "clear")) /\ ~ClearsAsk /\ ~NeedUpdate(ann[p][d])
    BY <1>5 DEF UserClearOnly, ClearsAsk, NeedUpdate
  <2> QED
    BY <1>1, <2>1, AnnotateKeepsClean
<1> QED
  BY <1>2, <1>3, <1>4, <1>5

LEMMA NodeKeepsClean ==
  ASSUME CleanInv, UserClearNode \/ LabelNode \/ UNCHANGED vars
  PROVE  CleanParts'
<1>1. UNCHANGED <<phase, ann, Traces, pc, todo, listed, snap, cur, iface, dir>>
  <2>1. CASE UserClearNode \/ LabelNode
    BY <2>1 DEF UserClearNode, LabelNode, AroundAgent, tcVars, Traces
  <2>2. CASE UNCHANGED vars
    BY <2>2 DEF vars, clusterVars, agentVars, heldVars, tcVars, Traces
  <2> QED
    BY <2>1, <2>2
<1>2. Held' = Held
  BY <1>1 DEF Held
<1>3. Standing'
  BY <1>1, <1>2 DEF CleanInv, Standing, KeylessIsClean, TracesFollowPhase, ListedHadAddress,
       ClearIsPending, RequestsStayOpen, InterfaceIsKnown, UnlistedIsBare, IsClean, Own, Matching,
       Reachable, HasVeth, Traces
<1>4. AdditionsAreListed' /\ ClearedSoFar'
  BY <1>1 DEF CleanInv, AdditionsAreListed, ClearedSoFar, Passed, IsClean, Own, Matching, Traces
<1> QED
  BY <1>3, <1>4 DEF CleanParts

-----------------------------------------------------------------------------

LEMMA NextClean == CleanInv /\ Orderly /\ [Next]_vars => CleanInv'
<1> SUFFICES ASSUME CleanInv, Orderly, [Next]_vars PROVE CleanParts'
  <2>1. Orderly => TcIsSound
    BY DEF Orderly, TcIsSound
  <2> QED
    BY <2>1, NextCidr, NextAck, NextClear DEF CleanInv, CleanParts, Standing
<1>1. CASE Loop
  <2>1. CASE \/ LinkUp \/ InitIfb \/ List \/ LinkDown \/ ResetIfb
             \/ \E p \in Pods : Pod(p) \/ ClearPod(p)
    BY <2>1, SetUpKeepsClean, ListKeepsClean, TurnKeepsClean
  <2>2. CASE \/ Reconcile \/ Wipe \/ Unredirect \/ Redirect \/ AddFilter \/ AddClass
             \/ DelNetem \/ AddNetem \/ Rate \/ SetNetem
    BY <2>2, QuietKeepsClean, WipeKeepsClean, RedirectKeepsClean, AddFilterKeepsClean,
       ExecKeepsClean
  <2>3. CASE Unmirror \/ ResetFilter \/ ResetClass \/ Update \/ ClearUpdate
    BY <2>3, UnmirrorKeepsClean, ResetFilterKeepsClean, ResetClassKeepsClean, AnswerKeepsClean
  <2>4. CASE StartSweep \/ SweepFilter \/ SweepClass \/ ClearMirroring \/ ClearNode
    BY <2>4, SweepKeepsClean, ClearMirroringKeepsClean, ClearNodeKeepsClean
  <2> QED
    BY <1>1, <2>1, <2>2, <2>3, <2>4 DEF Loop
<1>2. CASE Crash \/ Kill \/ Start
  <2>1. UNCHANGED <<phase, ann, veth, filters>> /\ Forget /\ pc' \notin PodStages
    BY <1>2 DEF Crash, Kill, Start, Restart, clusterVars, tcVars, PodStages
  <2> QED
    BY <2>1, ForgetKeepsClean
<1>3. CASE Cluster
  BY <1>3, LivesKeepClean, DeletePodKeepsClean, UserKeepsClean, NodeKeepsClean DEF Cluster
<1>4. CASE UNCHANGED vars
  BY <1>4, NodeKeepsClean
<1> QED
  BY <1>1, <1>2, <1>3, <1>4 DEF Next

LEMMA InitClean == Init => CleanInv
<1> SUFFICES ASSUME Init PROVE CleanInv
  OBVIOUS
<1>1. /\ Held = {} /\ listed = {} /\ pc = "linkUp"
      /\ \A p \in Pods, d \in Dirs :
           phase[p] = "none" /\ ann[p][d] = NoAnnotation /\ ~veth[p][d] /\ filters[d] = {}
  BY KubeChaosAssumption DEF Init, TcInit, Held, Unannotated
<1>2. CidrInv /\ AckInv /\ ClearInv
  <2>1. OneFilterPerCidr /\ AddressIsFree
    BY <1>1 DEF OneFilterPerCidr, AddressIsFree, Init, TcInit
  <2> QED
    BY <2>1, InitType, InitAck, InitClear DEF CidrInv
<1>3. Standing /\ AdditionsAreListed /\ ClearedSoFar
  BY <1>1 DEF Standing, KeylessIsClean, TracesFollowPhase, ListedHadAddress, ClearIsPending,
       RequestsStayOpen, InterfaceIsKnown, UnlistedIsBare, AdditionsAreListed, ClearedSoFar,
       Own, Matching, NoAnnotation, NeedClear, PodStages
<1> QED
  BY <1>2, <1>3 DEF CleanInv, Standing

\* On a pod whose keys are gone nothing of kube-chaos is left, though the agent
\* is killed at any point and requests to the API server fail, provided that tc
\* and etcd fail for no reason of their own and that users who clear a
\* direction ask for it in the done key.
THEOREM NoKeysNoChaos == Orderly /\ ClearsAsk /\ Distinct => (Spec => []AbsentMeansClean)
<1> SUFFICES ASSUME Orderly, ClearsAsk, Distinct PROVE Spec => []AbsentMeansClean
  OBVIOUS
<1>1. CleanInv /\ [Next]_vars => CleanInv'
  BY NextClean
<1>2. CleanInv => AbsentMeansClean
  BY OwnUnlessShared
<1> QED
  BY <1>1, <1>2, InitClean, PTL DEF Spec

-----------------------------------------------------------------------------
(* Why a cleared node passes nothing on: the inductive invariant behind    *)
(* ParkedPodsAreReleased.                                                  *)

\* Annotations that neither ask nor answer are none.
AbsentIsNothing ==
  \A p \in Pods, d \in Dirs : ann[p][d].done = "absent" => ann[p][d] = NoAnnotation

\* Pods are annotated when they have an address.
AnnotatedHasAddress == \A p \in Pods : phase[p] \in {"none", "created", "wired"} => ann[p] = Unannotated

\* When the node is being cleared, a labelled pod with nothing but answers is
\* still to be processed, and the agent's copy of it is current, unless a clear
\* key was written beside an answer.
AnswersAwaitClearing ==
  ClearsAsk /\ pc \in ClearStages \cup {"parked"} =>
    \A p \in Selected : Acked(p) /\ Updated(ann[p]) = {} => p \in Held \ stale

ReleaseInv == CleanInv /\ AbsentIsNothing /\ AnnotatedHasAddress /\ AnswersAwaitClearing

-----------------------------------------------------------------------------
(* The pods of a node that has been cleared.                               *)

\* The requests for the node and its pods do not fail, and users neither
\* annotate pods that have no address yet nor give an answered pod its label
\* back.
Attentive == Disruptions \cap {"list", "early", "relabel"} = {}

\* The API server fails no update for a reason of its own.
Accepting == "update" \notin Disruptions

ReleaseParts == AbsentIsNothing /\ AnnotatedHasAddress /\ AnswersAwaitClearing

Clearing == ClearStages \cup {"parked"}

LEMMA ReleaseTypes ==
  ASSUME ReleaseInv
  PROVE  /\ CleanInv
         /\ phase \in [Pods -> Phases] /\ ann \in [Pods -> [Dirs -> Annotation]]
         /\ labelled \subseteq Pods /\ Selected \subseteq Pods
BY DEF ReleaseInv, CleanInv, CidrInv, TypeInv, TypeOK, ClusterTypeOK, Selected

\* Steps of the agent that send nothing.
LEMMA SilentKeepsRelease ==
  ASSUME ReleaseInv, UNCHANGED <<phase, labelled, ann>>,
         pc' \in Clearing => pc \in Clearing /\ Held' = Held /\ stale' = stale
  PROVE  ReleaseParts'
BY DEF ReleaseInv, ReleaseParts, AbsentIsNothing, AnnotatedHasAddress, AnswersAwaitClearing,
       Clearing, Selected, Acked

LEMMA PassKeepsRelease ==
  ASSUME ReleaseInv, Attentive,
         \/ LinkUp \/ InitIfb \/ List \/ LinkDown \/ ResetIfb
         \/ \E p \in Pods : Pod(p) \/ ClearPod(p)
  PROVE  ReleaseParts'
<1>1. UNCHANGED <<phase, labelled, ann>>
  BY DEF LinkUp, InitIfb, List, LinkDown, ResetIfb, Pod, ClearPod, On, At, clusterVars
<1>2. CASE LinkUp \/ InitIfb \/ LinkDown \/ ResetIfb
  <2>1. Held' = Held /\ stale' = stale
    BY <1>2 DEF LinkUp, InitIfb, LinkDown, ResetIfb, On, heldVars, Held
  <2>2. pc' \in Clearing => pc \in Clearing
    BY <1>2 DEF LinkUp, InitIfb, LinkDown, ResetIfb, Run, On, At, NextIfb, Leap, Clearing, ClearStages
  <2> QED
    BY <1>1, <2>1, <2>2, SilentKeepsRelease
<1>3. CASE List
  <2>1. StartPass(Selected, nodeClear) /\ cur' = cur
    BY <1>3 DEF List, Fault, Attentive
  <2>2. CASE ~nodeClear
    BY <1>1, <2>1, <2>2, SilentKeepsRelease DEF StartPass, Clearing, ClearStages
  <2>3. CASE nodeClear
    <3>1. todo' = Selected /\ stale' = {}
      BY <2>1, <2>3 DEF StartPass
    <3>2. Selected' = Selected /\ Selected \subseteq Held'
      BY <1>1, <3>1, ReleaseTypes DEF Selected, Held
    <3> QED
      BY <1>1, <3>1, <3>2
         DEF ReleaseInv, ReleaseParts, AbsentIsNothing, AnnotatedHasAddress, AnswersAwaitClearing
  <2> QED
    BY <2>2, <2>3
<1>4. ASSUME NEW p \in Pods, Pod(p) \/ ClearPod(p) PROVE ReleaseParts'
  <2>1. /\ p \in todo /\ cur = NoPod /\ pc \in {"pod", "clearPod"}
        /\ NoPod \notin Pods
    BY <1>4, CleanTypes DEF Pod, ClearPod, At, ReleaseInv, AckInv, TurnsAreDue, PodStages
  <2>2. CASE Restart
    BY <1>1, <2>2, SilentKeepsRelease DEF Restart, Clearing, ClearStages
  <2>3. CASE ~Restart
    <3>1. /\ cur' = p /\ UNCHANGED <<todo, stale>>
          /\ pc' \in Clearing => pc \in Clearing
      BY <1>4, <2>3 DEF Pod, ClearPod, GetWorkload, Begin, At, Clearing, ClearStages
    <3>2. Held' = Held
      BY <2>1, <3>1 DEF Held
    <3> QED
      BY <1>1, <3>1, <3>2, SilentKeepsRelease
  <2> QED
    BY <2>2, <2>3
<1> QED
  BY <1>2, <1>3, <1>4

LEMMA TurnKeepsRelease ==
  ASSUME ReleaseInv,
         \/ Reconcile \/ Wipe \/ Unredirect \/ Redirect \/ AddFilter \/ AddClass
         \/ DelNetem \/ AddNetem \/ Rate \/ SetNetem
         \/ Unmirror \/ ResetFilter \/ ResetClass
         \/ StartSweep \/ SweepFilter \/ SweepClass \/ ClearMirroring \/ ClearNode
  PROVE  ReleaseParts'
<1>1. CASE \/ Reconcile \/ Wipe \/ Unredirect \/ Redirect \/ AddFilter \/ AddClass
           \/ DelNetem \/ AddNetem
  BY <1>1, SilentKeepsRelease
     DEF Reconcile, Wipe, Unredirect, Redirect, AddFilter, AddClass, DelNetem, AddNetem,
         Exec, Run, Goto, On, At, clusterVars, Clearing, ClearStages
<1>2. CASE Rate \/ SetNetem \/ Unmirror \/ ResetFilter \/ ResetClass
  <2>1. UNCHANGED <<phase, labelled, ann>>
    BY <1>2 DEF Rate, SetNetem, Unmirror, ResetFilter, ResetClass, On, At, clusterVars
  <2>2. pc' \in {"netem", "resetFilter", "resetClass"} \/ Leave
    BY <1>2 DEF Rate, SetNetem, Unmirror, ResetFilter, ResetClass, Exec, Run, Goto
  <2>3. pc' \notin Clearing
    BY <2>2 DEF Leave, Begin, Clearing, ClearStages
  <2> QED
    BY <2>1, <2>3, SilentKeepsRelease
<1>3. CASE StartSweep \/ SweepFilter \/ SweepClass
  <2>1. UNCHANGED <<phase, labelled, ann>>
    BY <1>3 DEF StartSweep, SweepFilter, SweepClass, On, At, clusterVars
  <2>2. pc' \in {"sweepFilter", "sweepClass", "list"}
    BY <1>3 DEF StartSweep, SweepFilter, SweepClass, Run, Goto, NextIfb, EndPass, At
  <2> QED
    BY <2>1, <2>2, SilentKeepsRelease DEF Clearing, ClearStages
<1>4. CASE ClearMirroring \/ ClearNode
  <2>1. UNCHANGED <<phase, labelled, ann>> /\ Held' = Held /\ stale' = stale
    BY <1>4 DEF ClearMirroring, ClearNode, On, At, clusterVars, heldVars, Held
  <2>2. pc \in Clearing
    BY <1>4 DEF ClearMirroring, ClearNode, On, At, Clearing, ClearStages
  <2> QED
    BY <2>1, <2>2, SilentKeepsRelease
<1> QED
  BY <1>1, <1>2, <1>3, <1>4

\* An answer leaves a pod of a node that is being cleared without keys, or
\* users have written to it.
LEMMA AnswerKeepsRelease ==
  ASSUME ReleaseInv, Update \/ ClearUpdate, Accepting \/ pc # "clearUpdate"
  PROVE  ReleaseParts'
<1>1. /\ cur \in Held /\ cur \in Pods /\ CleanInv
      /\ pc' = (IF pc = "update" THEN "pod" ELSE "clearPod")
      /\ pc \in {"update", "clearUpdate"}
  BY InTurn DEF Update, ClearUpdate, UpdateStatus, NextPod, TurnStages, ReleaseInv, CleanInv
<1>2. /\ UNCHANGED <<phase, labelled>> /\ cur' = NoPod
      /\ todo' = todo \ {cur} /\ stale' = stale \ {cur}
  BY DEF Update, ClearUpdate, UpdateStatus, NextPod
<1>3. \A p \in Pods \ {cur} : ann'[p] = ann[p]
  BY <1>1, CleanTypes DEF Update, ClearUpdate, UpdateStatus
<1>4. \A d \in Dirs : \/ ann'[cur][d] = ann[cur][d]
                      \/ ann'[cur][d] = NoAnnotation
                      \/ /\ ann'[cur][d] = [ann[cur][d] EXCEPT !.done = "yes"]
                         /\ NeedUpdate(ann[cur][d])
  BY <1>1, AnswerIsTrue DEF CleanInv
<1>5. ann' \in [Pods -> [Dirs -> Annotation]]
  <2>1. TypeInv'
    BY <1>1, UpdateType DEF CleanInv, AckInv
  <2> QED
    BY <2>1 DEF TypeInv, TypeOK, ClusterTypeOK
<1>6. AbsentIsNothing'
  <2> SUFFICES ASSUME NEW p \in Pods, NEW d \in Dirs, ann'[p][d].done = "absent"
               PROVE  ann'[p][d] = NoAnnotation
    BY DEF AbsentIsNothing
  <2>1. CASE ann'[p][d] = ann[p][d]
    BY <2>1 DEF ReleaseInv, AbsentIsNothing
  <2>2. ann[p][d] \in Annotation
    BY ReleaseTypes
  <2>3. ann'[p][d] # [ann[p][d] EXCEPT !.done = "yes"]
    BY <2>2 DEF Annotation
  <2> QED
    BY <1>3, <1>4, <2>1, <2>3
<1>7. AnnotatedHasAddress'
  <2> SUFFICES ASSUME NEW p \in Pods, phase[p] \in {"none", "created", "wired"}
               PROVE  ann'[p] = Unannotated
    BY <1>2 DEF AnnotatedHasAddress
  <2>1. ann[p] = Unannotated
    BY DEF ReleaseInv, AnnotatedHasAddress
  <2>2. \A d \in Dirs : ann'[p][d] = NoAnnotation
    <3>1. \A d \in Dirs : ann[p][d] = NoAnnotation
      BY <2>1 DEF Unannotated
    <3>2. \A d \in Dirs : ~NeedUpdate(ann[p][d])
      BY <3>1 DEF NeedUpdate, NoAnnotation
    <3>3. CASE p = cur
      BY <1>4, <3>1, <3>2, <3>3 DEF NeedUpdate
    <3> QED
      BY <1>3, <3>1, <3>3
  <2> QED
    BY <1>5, <2>2 DEF Unannotated
<1>8. AnswersAwaitClearing'
  <2> SUFFICES ASSUME ClearsAsk, pc = "clearUpdate", NEW p \in Pods, p \in Selected, Acked(p)',
                      Updated(ann'[p]) = {}
               PROVE  p \in Held' \ stale'
    BY <1>1, <1>2, ReleaseTypes DEF AnswersAwaitClearing, Selected, ClearStages
  <2>1. p # cur
    <3> SUFFICES ASSUME p = cur PROVE FALSE
      OBVIOUS
    <3>1. CASE UpdateAccepted
      <4>1. ann' = [ann EXCEPT ![cur] = SetPodChaosUpdated(snap[cur], {}, Dirs)]
        BY <3>1 DEF Update, ClearUpdate, UpdateStatus, Fault, Accepting
      <4>2. \A d \in Dirs : ann'[cur][d] = NoAnnotation
        BY <1>1, <4>1, CleanTypes DEF SetPodChaosUpdated
      <4> QED
        BY <4>2 DEF Acked, NoAnnotation
    <3>2. CASE ~UpdateAccepted
      <4>1. cur \in stale /\ UNCHANGED ann
        BY <3>2 DEF UpdateAccepted, Selected, Update, ClearUpdate, UpdateStatus
      <4>2. Acked(cur) /\ Updated(ann[cur]) = {}
        BY <4>1 DEF Acked
      <4> QED
        BY <4>1, <4>2 DEF ReleaseInv, AnswersAwaitClearing, ClearStages
    <3> QED
      BY <3>1, <3>2
  <2>2. Acked(p) /\ Updated(ann[p]) = {}
    BY <1>3, <2>1 DEF Acked
  <2>3. p \in Held \ stale
    BY <2>2 DEF ReleaseInv, AnswersAwaitClearing, ClearStages
  <2> QED
    BY <1>2, <2>1, <2>3 DEF Held
<1> QED
  BY <1>6, <1>7, <1>8 DEF ReleaseParts

\* A pod that an agent has answered has an address and keeps its label, unless
\* a user takes it away; what users write to it is a new request.
LEMMA LivesKeepRelease ==
  ASSUME ReleaseInv, Attentive, NEW p \in Pods,
         CreatePod(p) \/ Wire(p) \/ AssignIP(p) \/ DeletePod(p) \/ SetLabel(p)
  PROVE  ReleaseParts'
<1>1. /\ UNCHANGED <<pc, todo, cur>>
      /\ \A q \in Pods \ {p} : ann'[q] = ann[q] /\ phase'[q] = phase[q]
                               /\ (q \in labelled' <=> q \in labelled)
                               /\ (q \in stale' => q \in stale)
  BY ReleaseTypes DEF CreatePod, Wire, AssignIP, DeletePod, SetLabel, Touch, AroundAgent
<1>2. Held' = Held
  BY <1>1 DEF Held
<1>3. \/ ann' = ann
      \/ \A d \in Dirs : ann'[p][d] = NoAnnotation
  BY ReleaseTypes DEF CreatePod, Wire, AssignIP, DeletePod, SetLabel, Unannotated
<1>4. \/ phase' = phase
      \/ phase'[p] = "deleted"
      \/ ann' = ann /\ phase[p] \in {"none", "created", "wired"}
  BY ReleaseTypes DEF CreatePod, Wire, AssignIP, DeletePod, SetLabel
<1>5. AbsentIsNothing'
  BY <1>1, <1>3 DEF ReleaseInv, AbsentIsNothing
<1>6. AnnotatedHasAddress'
  <2>1. CASE DeletePod(p)
    BY <1>1, <2>1, ReleaseTypes DEF DeletePod, ReleaseInv, AnnotatedHasAddress
  <2>2. CASE ~DeletePod(p)
    BY <1>1, <1>4, <2>2 DEF CreatePod, Wire, AssignIP, SetLabel, ReleaseInv, AnnotatedHasAddress
  <2> QED
    BY <2>1, <2>2
<1>7. p \in Selected' /\ Acked(p)' => p \in Selected /\ Acked(p) /\ UNCHANGED <<ann, stale>>
  <2>1. CASE CreatePod(p) \/ Wire(p) \/ AssignIP(p)
    <3>1. ann' = ann /\ ann[p] = Unannotated
      BY <2>1 DEF CreatePod, Wire, AssignIP, ReleaseInv, AnnotatedHasAddress
    <3> QED
      BY <3>1 DEF Acked, Unannotated, NoAnnotation
  <2>2. CASE DeletePod(p)
    BY <2>2 DEF DeletePod, Selected
  <2>3. CASE SetLabel(p)
    BY <2>3 DEF SetLabel, Attentive, Selected, Acked
  <2> QED
    BY <2>1, <2>2, <2>3
<1>8. AnswersAwaitClearing'
  <2> SUFFICES ASSUME ClearsAsk, pc \in Clearing, NEW q \in Pods, q \in Selected', Acked(q)',
                      Updated(ann'[q]) = {}
               PROVE  q \in Held \ stale'
    <3>1. labelled' \subseteq Pods
      BY ReleaseTypes DEF CreatePod, Wire, AssignIP, DeletePod, SetLabel
    <3> QED
      BY <1>1, <1>2, <3>1 DEF AnswersAwaitClearing, Selected, Clearing
  <2>1. q \in Selected /\ Acked(q) /\ ann'[q] = ann[q] /\ (q \in stale' => q \in stale)
    BY <1>1, <1>7 DEF Selected, Acked
  <2> QED
    BY <2>1 DEF ReleaseInv, AnswersAwaitClearing, Clearing
<1> QED
  BY <1>5, <1>6, <1>8 DEF ReleaseParts

LEMMA AnnotateKeepsRelease ==
  ASSUME ReleaseInv, Attentive, NEW p \in Pods, NEW d \in Dirs, NEW a, NEW wish,
         Annotate(p, d, a, wish), a.done = "no" \/ (~ClearsAsk /\ a.done # "absent")
  PROVE  ReleaseParts'
<1>1. /\ UNCHANGED <<phase, labelled, pc, todo, cur>> /\ Touch(p) /\ phase[p] = "ready"
      /\ ann' = [ann EXCEPT ![p][d] = a]
  BY DEF Annotate, AroundAgent, Attentive
<1>2. /\ \A q \in Pods \ {p} : ann'[q] = ann[q]
      /\ ann'[p][d] = a
      /\ \A e \in Dirs : e # d => ann'[p][e] = ann[p][e]
  BY <1>1, ReleaseTypes
<1>3. AbsentIsNothing' /\ AnnotatedHasAddress'
  BY <1>1, <1>2 DEF ReleaseInv, AbsentIsNothing, AnnotatedHasAddress
<1>4. ClearsAsk => Updated(ann'[p]) # {}
  BY <1>2 DEF Updated, NeedUpdate
<1>5. Held' = Held /\ \A q \in Pods \ {p} : q \in stale' => q \in stale
  BY <1>1 DEF Held, Touch
<1>6. AnswersAwaitClearing'
  <2> SUFFICES ASSUME ClearsAsk, pc \in Clearing, NEW q \in Pods, q \in Selected, Acked(q)',
                      Updated(ann'[q]) = {}
               PROVE  q \in Held \ stale'
    BY <1>1, <1>5, ReleaseTypes DEF AnswersAwaitClearing, Selected, Clearing
  <2>1. q # p
    BY <1>4
  <2>2. q \in Selected /\ Acked(q) /\ ann'[q] = ann[q]
    BY <1>2, <2>1 DEF Acked
  <2> QED
    BY <1>5, <2>1, <2>2 DEF ReleaseInv, AnswersAwaitClearing, Clearing
<1> QED
  BY <1>3, <1>6 DEF ReleaseParts

LEMMA UserKeepsRelease ==
  ASSUME ReleaseInv, Orderly, Attentive, NEW p \in Pods, NEW d \in UserDirs,
         \/ \E i \in Infos : UserSet(p, d, i)
         \/ UserRetry(p, d) \/ UserClear(p, d) \/ UserClearOnly(p, d)
  PROVE  ReleaseParts'
<1>1. d \in Dirs /\ ann[p][d] \in Annotation
  BY ReleaseTypes, KubeChaosAssumption
<1>2. CASE \E i \in Infos : UserSet(p, d, i)
  <2>1. PICK i \in Infos : UserSet(p, d, i)
    BY <1>2
  <2> DEFINE a == [ann[p][d] EXCEPT !.info = i, !.done = "no"]
  <2>2. Annotate(p, d, a, i) /\ a.done = "no"
    BY <1>1, <2>1 DEF UserSet, Annotation
  <2> HIDE DEF a
  <2> QED
    BY <1>1, <2>2, AnnotateKeepsRelease
<1>3. CASE UserRetry(p, d)
  <2> DEFINE a == [ann[p][d] EXCEPT !.done = "no"]
  <2>1. (\E wish : Annotate(p, d, a, wish)) /\ a.done = "no"
    BY <1>1, <1>3 DEF UserRetry, Annotation
  <2> HIDE DEF a
  <2> QED
    BY <1>1, <2>1, AnnotateKeepsRelease
<1>4. CASE UserClear(p, d)
  <2> DEFINE a == [ann[p][d] EXCEPT !.clear = TRUE, !.done = "no"]
  <2>1. Annotate(p, d, a, "clear") /\ a.done = "no"
    BY <1>1, <1>4 DEF UserClear, Annotation
  <2> HIDE DEF a
  <2> QED
    BY <1>1, <2>1, AnnotateKeepsRelease
<1>5. CASE UserClearOnly(p, d)
  <2> DEFINE a == [ann[p][d] EXCEPT !.clear = TRUE]
  <2>1. Annotate(p, d, a, "clear") /\ a.done = "yes" /\ ~ClearsAsk
    BY <1>1, <1>5 DEF UserClearOnly, ClearsAsk, Annotation
  <2> HIDE DEF a
  <2> QED
    BY <1>1, <2>1, AnnotateKeepsRelease
<1> QED
  BY <1>2, <1>3, <1>4, <1>5

LEMMA NextRelease ==
  /\ ReleaseInv /\ Orderly /\ Attentive
  /\ Accepting \/ pc # "clearUpdate"
  /\ [Next]_vars
  => ReleaseInv'
<1> SUFFICES ASSUME ReleaseInv, Orderly, Attentive, Accepting \/ pc # "clearUpdate", [Next]_vars
             PROVE  ReleaseParts'
  BY NextClean DEF ReleaseInv, ReleaseParts
<1>1. CASE Loop
  BY <1>1, PassKeepsRelease, TurnKeepsRelease, AnswerKeepsRelease DEF Loop
<1>2. CASE Crash \/ Kill \/ Start
  <2>1. UNCHANGED <<phase, labelled, ann>> /\ pc' \notin Clearing
    BY <1>2 DEF Crash, Kill, Start, Restart, clusterVars, Clearing, ClearStages
  <2> QED
    BY <2>1, SilentKeepsRelease
<1>3. CASE UserClearNode \/ LabelNode \/ UNCHANGED vars
  <2>1. UNCHANGED <<phase, labelled, ann, pc, todo, cur, stale>>
    BY <1>3 DEF UserClearNode, LabelNode, AroundAgent, vars, clusterVars, agentVars, heldVars
  <2>2. Held' = Held
    BY <2>1 DEF Held
  <2> QED
    BY <2>1, <2>2, SilentKeepsRelease
<1>4. CASE Cluster
  BY <1>3, <1>4, LivesKeepRelease, UserKeepsRelease DEF Cluster
<1> QED
  BY <1>1, <1>2, <1>3, <1>4 DEF Next

LEMMA InitRelease == Init => ReleaseInv
BY InitClean
   DEF Init, ReleaseInv, AbsentIsNothing, AnnotatedHasAddress, AnswersAwaitClearing, ClearStages,
       Unannotated

\* A pod that neither asks for anything nor carries an answer has nothing.
LEMMA ParkedFollows ==
  ASSUME ReleaseInv, ClearsAsk
  PROVE  ParkedPodsAreReleased
<1> SUFFICES ASSUME pc = "parked", NEW p \in Pods, p \in Selected, Updated(ann[p]) = {}
             PROVE  Released(p)
  BY ReleaseTypes DEF ParkedPodsAreReleased
<1>1. ~Acked(p)
  <2> SUFFICES ASSUME Acked(p) PROVE FALSE
    OBVIOUS
  <2>1. p \in Held \ stale /\ phase[p] \in Live
    BY DEF ReleaseInv, AnswersAwaitClearing, Selected
  <2>2. snap[p] = ann[p] /\ p \in todo
    BY <2>1, CleanTypes
       DEF ReleaseInv, CleanInv, AckInv, CopiesAreCurrent, TurnsAreDue, PodStages, Held
  <2> QED
    BY <2>2 DEF ReleaseInv, CleanInv, AckInv, TurnsAreDue, ClearStages
<1>2. \A d \in Dirs : ann[p][d].done = "absent"
  <2>1. \A d \in Dirs : ann[p][d].done \in {"absent", "no", "yes"}
    BY ReleaseTypes DEF Annotation, DoneFlag
  <2> QED
    BY <1>1, <2>1 DEF Acked, Updated, NeedUpdate
<1>3. \A d \in Dirs : ann[p][d] = NoAnnotation
  BY <1>2 DEF ReleaseInv, AbsentIsNothing
<1>4. ann[p] = Unannotated
  BY <1>3, ReleaseTypes DEF Unannotated
<1>5. \A d \in Dirs : ~veth[p][d]
  BY <1>3, ReleaseTypes DEF CleanInv, KeylessIsClean, IsClean, TracesFollowPhase
<1> QED
  BY <1>4, <1>5 DEF Released

\* The agent parks on a cleared node only when every labelled pod has lost its
\* keys and its redirections, or has been asked something since it was listed,
\* though the agent is killed at any point, also half way through the clearing.
\* No update is refused without cause, no list and no lookup fails, and users
\* keep to the protocol.
THEOREM ClearedPodsAreReleased ==
  Orderly /\ ClearsAsk /\ Attentive /\ Accepting => (Spec => []ParkedPodsAreReleased)
<1> SUFFICES ASSUME Orderly, ClearsAsk, Attentive, Accepting PROVE Spec => []ParkedPodsAreReleased
  OBVIOUS
<1>1. ReleaseInv /\ [Next]_vars => ReleaseInv'
  BY NextRelease
<1>2. ReleaseInv => ParkedPodsAreReleased
  BY ParkedFollows
<1> QED
  BY <1>1, <1>2, InitRelease, PTL DEF Spec
=============================================================================
