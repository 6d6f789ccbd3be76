-------------------------- MODULE RefinementProofs --------------------------
(***************************************************************************)
(* KubeChaos implements ChaosContract: the initial states of the one are   *)
(* initial states of the other, and each step is a step of the contract or *)
(* none.                                                                   *)
(***************************************************************************)
EXTENDS DoneProofs, ChaosRefinement

Net == [p \in Pods |-> [d \in Dirs |-> NetOf(p, d)]]

ContractStep == Contract!Next \/ UNCHANGED <<Member, ann, Net>>

LEMMA SameNames ==
  /\ Contract!Dirs = Dirs /\ Contract!Annotation = Annotation
  /\ Contract!NoAnnotation = NoAnnotation /\ Contract!Unannotated = Unannotated
  /\ Contract!Clean = Clean
  /\ \A a \in Annotation : (Contract!NeedUpdate(a) <=> NeedUpdate(a)) /\ (Contract!NeedClear(a) <=> NeedClear(a))
BY DEF Contract!Dirs, Dirs, Contract!Annotation, Annotation, Contract!DoneFlag, DoneFlag,
       Contract!NoAnnotation, NoAnnotation, Contract!Unannotated, Unannotated, Contract!Clean, Clean,
       Contract!NeedUpdate, NeedUpdate, Contract!NeedClear, NeedClear

LEMMA ShapedStep ==
  ASSUME NEW p \in Pods, NEW d \in Dirs, UNCHANGED <<Member, ann>>, NetOf(p, d)' \in Contract!Nets,
         \A q \in Pods, e \in Dirs : q # p \/ e # d => NetOf(q, e)' = NetOf(q, e),
         ann[p][d] \in Annotation,
         NeedUpdate(ann[p][d]) \/ (p \notin Member /\ ann[p][d] # NoAnnotation)
  PROVE  ContractStep
<1>1. Net' = [Net EXCEPT ![p][d] = NetOf(p, d)']
  BY DEF Net
<1>2. Contract!Shaped(p, d)
  BY <1>1, SameNames DEF Contract!Shaped, Net
<1> QED
  BY <1>2, SameNames DEF ContractStep, Contract!Next

LEMMA SilentStep ==
  ASSUME UNCHANGED <<Member, ann>>,
         \A q \in Pods, e \in Dirs : NetOf(q, e)' = NetOf(q, e)
  PROVE  ContractStep
BY DEF ContractStep, Net

-----------------------------------------------------------------------------
(* The quality of a pod's traffic.                                         *)

LEMMA NetType ==
  ASSUME TcTypeOK, NEW p \in Pods, NEW d \in Dirs
  PROVE  NetOf(p, d) \in Contract!Nets
<1>1. Clean \in Contract!Nets /\ Mixed \in Contract!Nets
  BY DEF Contract!Nets, Contract!Clean, Contract!Mixed, Clean, Mixed
<1>2. ASSUME Path(p, d) # {}
      PROVE  LET c == (CHOOSE f \in Path(p, d) : TRUE).flowid
             IN  [rate |-> rate[d][c], leaf |-> leaf[d][c]] \in Contract!Nets
  <2> DEFINE c == (CHOOSE f \in Path(p, d) : TRUE).flowid
  <2>1. c \in ClassIds
    <3>1. PICK f \in Path(p, d) : c = f.flowid
      BY <1>2
    <3> QED
      BY <3>1 DEF Path, Matching, TcTypeOK, Filter
  <2>2. rate[d][c] \in Contract!Rates /\ leaf[d][c] \in Contract!Leaves
    <3>1. Contract!Rates = Rates /\ Contract!Leaves = Leaves
      BY DEF Contract!Rates, Rates, Contract!Leaves, Leaves, Contract!FullRate, FullRate,
             Contract!Pfifo, Pfifo, Contract!Netem, Netem
    <3> HIDE DEF c
    <3> QED
      BY <2>1, <3>1 DEF TcTypeOK
  <2> HIDE DEF c
  <2>3. [rate |-> rate[d][c], leaf |-> leaf[d][c]] \in Contract!Nets
    BY <2>2 DEF Contract!Nets, Contract!Quality
  <2> QED
    BY <2>3 DEF c
<1> QED
  BY <1>1, <1>2 DEF NetOf

AllNets == \A p \in Pods, d \in Dirs : NetOf(p, d) \in Contract!Nets

LEMMA NetTypes == TcTypeOK => AllNets
BY NetType DEF AllNets

LEMMA NextNetTypes == TcTypeOK' => AllNets'
BY NetTypes, PTL

LEMMA SameNet ==
  ASSUME NEW p \in Pods, NEW d \in Dirs, SamePath(p, d),
         phase'[p] = "deleted" <=> phase[p] = "deleted"
  PROVE  NetOf(p, d)' = NetOf(p, d)
<1>1. Path(p, d)' = Path(p, d)
  BY DEF SamePath, Path
<1>2. ASSUME Path(p, d) # {}
      PROVE  LET c == (CHOOSE f \in Path(p, d) : TRUE).flowid
             IN  rate'[d][c] = rate[d][c] /\ leaf'[d][c] = leaf[d][c]
  <2>1. (CHOOSE f \in Path(p, d) : TRUE) \in Matching(d, AddressOf[p])
    BY <1>2 DEF Path
  <2> QED
    BY <2>1 DEF SamePath
<1> QED
  BY <1>1, <1>2 DEF NetOf, SamePath

LEMMA CleanNet ==
  ASSUME CleanInv, Distinct, NEW p \in Pods, NEW d \in Dirs, IsClean(p, d)
  PROVE  NetOf(p, d) = Clean
BY OwnUnlessShared DEF IsClean, NetOf

LEMMA AppliedNet ==
  ASSUME OneFilterPerCidr, NEW p \in Pods, NEW d \in Dirs, NEW i, Applied(p, d, i),
         phase[p] # "deleted"
  PROVE  NetOf(p, d) = Contract!Effect(i)
<1>1. PICK f \in Matching(d, AddressOf[p]) :
        /\ HasClass(d, f.flowid)
        /\ rate[d][f.flowid] = RateOf(i) /\ leaf[d][f.flowid] = NetemOf(i)
  BY DEF Applied, RateOf
<1>2. f \in Path(p, d) /\ \A g \in Path(p, d) : g = f
  BY <1>1 DEF Applied, Path, Matching, OneFilterPerCidr
<1>3. (CHOOSE g \in Path(p, d) : TRUE) = f
  BY <1>2
<1>4. NetOf(p, d) = [rate |-> RateOf(i), leaf |-> NetemOf(i)]
  BY <1>1, <1>2, <1>3 DEF NetOf, Applied
<1>5. Contract!RateOf(i) = RateOf(i) /\ Contract!NetemOf(i) = NetemOf(i)
  BY DEF Contract!RateOf, RateOf, Contract!NetemOf, NetemOf, Contract!FullRate, FullRate,
         Contract!Netem, Netem
<1> QED
  BY <1>4, <1>5 DEF Contract!Effect

-----------------------------------------------------------------------------
(* The agent.                                                              *)

LEMMA CommandShapes ==
  ASSUME DoneInv, Distinct, Command, TcTypeOK'
  PROVE  ContractStep
<1>1. /\ UNCHANGED <<phase, ann, Member>> /\ cur \in Held /\ cur \in Pods /\ dir \in Dirs
      /\ pc \in ChaosStages \cup ResetStages
  BY CommandStays, WorkedOnIsHeld, DoneTypes
     DEF clusterVars, Member, Selected, PodStages, ChaosStages, ResetStages
<1>2. PICK p \in Pods, d \in Dirs : p = cur /\ d = dir
  BY <1>1
<1>3. ASSUME NEW q \in Pods, NEW e \in Dirs, q # p \/ e # d
      PROVE  NetOf(q, e)' = NetOf(q, e)
  BY <1>1, <1>2, <1>3, CommandSamePath, SameNet
<1>4. CASE phase[p] = "deleted"
  <2>1. NetOf(p, d)' = NetOf(p, d)
    BY <1>1, <1>4 DEF NetOf
  <2> QED
    BY <1>1, <1>3, <2>1, SilentStep
<1>5. CASE phase[p] # "deleted"
  <2>1. phase[p] \in Live
    BY <1>1, <1>2, <1>5, DoneTypes DEF AckInv, CopiesAreCurrent, Phases, Live
  <2>2. NeedUpdate(ann[p][d])
    BY <1>1, <1>2, <2>1, DoneTypes DEF CleanInv, RequestsStayOpen, AckInv, WorksOnDue
  <2>3. ann[p][d] \in Annotation /\ NetOf(p, d)' \in Contract!Nets
    <3>1. NetOf(p, d)' \in Contract!Nets
      BY NextNetTypes DEF AllNets
    <3> QED
      BY <3>1, DoneTypes
  <2> QED
    BY <1>1, <1>3, <2>2, <2>3, ShapedStep
<1> QED
  BY <1>4, <1>5

\* The sweep touches pods that have given up, or that ask for something.
LEMMA SweepShapes ==
  ASSUME DoneInv, ClearsAsk, Distinct, SweepFilter \/ SweepClass, TcTypeOK'
  PROVE  ContractStep
<1>1. /\ UNCHANGED <<phase, ann, Member, veth, link>> /\ pc \in {"sweepFilter", "sweepClass"}
      /\ dir \in Dirs /\ TcTypeOK
  BY SweepStays, DoneTypes DEF clusterVars, Member, Selected
<1>2. CASE SweepClass \/ UNCHANGED tcVars
  <2>1. ASSUME NEW q \in Pods, NEW e \in Dirs PROVE SamePath(q, e)
    BY <1>1, <1>2, SweepSamePath DEF SamePath, tcVars, Matching, HasClass
  <2> QED
    BY <1>1, <2>1, SameNet, SilentStep
<1>3. ASSUME NEW f \in Extra(dir), FilterDel(dir, f) PROVE ContractStep
  <2>1. \A q \in Pods : AddressOf[q] = f.cidr => q \notin listed
    BY <1>3 DEF Extra
  <2>2. ASSUME NEW q \in Pods, NEW e \in Dirs, AddressOf[q] # f.cidr \/ e # dir
        PROVE  NetOf(q, e)' = NetOf(q, e)
    <3>1. CASE AddressOf[q] # f.cidr
      <4>1. Same(q)
        BY <1>1, <1>3, <3>1, ForeignFilter DEF FilterDel
      <4> QED
        BY <1>1, <4>1, SameIsSamePath, SameNet
    <3>2. CASE e # dir
      <4>1. filters'[e] = filters[e] /\ UNCHANGED <<classes, rate, leaf>>
        BY <1>1, <1>3, <3>2 DEF FilterDel, TcTypeOK
      <4>2. SamePath(q, e)
        BY <1>1, <4>1 DEF SamePath, Matching, HasClass
      <4> QED
        BY <1>1, <4>2, SameNet
    <3> QED
      BY <2>2, <3>1, <3>2
  <2>3. CASE \A q \in Pods : AddressOf[q] # f.cidr
    BY <1>1, <2>2, <2>3, SilentStep
  <2>4. ASSUME NEW p \in Pods, AddressOf[p] = f.cidr PROVE ContractStep
    <3>1. PICK d \in Dirs : d = dir
      BY <1>1
    <3>2. ASSUME NEW q \in Pods, NEW e \in Dirs, q # p \/ e # d
          PROVE  NetOf(q, e)' = NetOf(q, e)
      BY <2>2, <2>4, <3>1, <3>2 DEF Distinct
    <3>3. CASE phase[p] = "deleted"
      <4>1. NetOf(p, d)' = NetOf(p, d)
        BY <1>1, <3>3 DEF NetOf
      <4> QED
        BY <1>1, <3>2, <4>1, SilentStep
    <3>4. CASE phase[p] # "deleted"
      <4>1. f \in Matching(d, AddressOf[p])
        BY <1>3, <2>4, <3>1 DEF Extra, Matching
      <4>2. phase[p] = "ready" /\ ann[p][d] # NoAnnotation
        <5>1. Own(d, p) # {} /\ AbsentMeansClean
          BY <4>1, DoneTypes, OwnUnlessShared
        <5> QED
          BY <3>4, <4>1, <5>1, DoneTypes DEF CleanInv, TracesFollowPhase, AbsentMeansClean
      <4>3. ann[p][d] \in Annotation /\ ann[p][d].done \in DoneFlag
        BY DoneTypes DEF Annotation
      <4>4. NeedUpdate(ann[p][d]) \/ p \notin Member
        <5>1. ann[p][d].done # "absent"
          BY <4>2, DoneTypes DEF ReleaseInv, AbsentIsNothing
        <5>2. p \in Selected => ~Acked(p)
          BY <1>1, <2>1, <2>4, DoneTypes DEF DoneParts, AckedAreListed
        <5> QED
          BY <4>3, <5>1, <5>2 DEF NeedUpdate, Member, Acked, DoneFlag
      <4>5. NetOf(p, d)' \in Contract!Nets
        BY NextNetTypes DEF AllNets
      <4> QED
        BY <1>1, <3>2, <4>2, <4>3, <4>4, <4>5, ShapedStep
    <3> QED
      BY <3>3, <3>4
  <2> QED
    BY <2>3, <2>4
<1> QED
  BY <1>2, <1>3 DEF SweepFilter

\* A pass, a turn and the set-up of the devices change no quality.
LEMMA PassIsSilent ==
  ASSUME DoneInv, Undisturbed, LinkUp \/ Pass
  PROVE  \A q \in Pods, e \in Dirs : NetOf(q, e)' = NetOf(q, e)
<1> SUFFICES ASSUME NEW q \in Pods, NEW e \in Dirs PROVE NetOf(q, e)' = NetOf(q, e)
  OBVIOUS
<1>1. CASE Pass
  <2>1. UNCHANGED phase /\ ~DeletePod(q)
    BY <1>1, PassStays, DoneTypes DEF DeletePod, Live
  <2> QED
    BY <1>1, <2>1, OutsideSamePath, SameNet
<1>2. CASE LinkUp
  <2>1. UNCHANGED <<veth, filters, classes, rate, leaf, phase>> /\ link' = [link EXCEPT ![dir] = TRUE]
    BY <1>2, NoDisturbance DEF LinkUp, Run, LinkSet, On, At, clusterVars
  <2>2. link \in [Dirs -> BOOLEAN] /\ dir \in Dirs
    BY DoneTypes DEF TcTypeOK
  <2>3. CASE link'[e] = link[e]
    <3>1. SamePath(q, e)
      BY <2>1, <2>3 DEF SamePath, Matching, HasClass
    <3> QED
      BY <2>1, <3>1, SameNet
  <2>4. CASE link'[e] # link[e]
    <3>1. filters[e] = {}
      BY <2>1, <2>2, <2>4 DEF DoneInv, LinksStayUp
    <3>2. Path(q, e) = {} /\ Path(q, e)' = {}
      BY <2>1, <3>1 DEF Path, Matching
    <3> QED
      BY <2>1, <3>1, <3>2 DEF NetOf, Matching
  <2> QED
    BY <2>3, <2>4
<1> QED
  BY <1>1, <1>2

\* The agent answers what is asked of it, truthfully, or not at all.
LEMMA UpdateAcknowledges ==
  ASSUME DoneInv, Undisturbed, ClearsAsk, Distinct, Update
  PROVE  ContractStep
<1>1. /\ UNCHANGED <<phase, labelled, Member>> /\ cur \in Held /\ cur \in Pods /\ pc = "update"
  BY UpdateAnswers DEF Member, Selected
<1>2. \A q \in Pods, e \in Dirs : NetOf(q, e)' = NetOf(q, e)
  BY PassIsSilent DEF Pass
<1>3. CASE ann' = ann
  BY <1>1, <1>2, <1>3, SilentStep
<1>4. CASE UpdateAccepted /\ ann' # ann
  <2>1. cur \notin stale /\ phase[cur] \in Live
    BY <1>4 DEF UpdateAccepted
  <2>2. snap[cur] = ann[cur] /\ cur \in Member /\ ann[cur] \in [Dirs -> Annotation]
    BY <1>1, <2>1, DoneTypes
       DEF AckInv, CopiesAreCurrent, DoneParts, CopiesAreLabelled, Member, Selected
  <2> DEFINE acked == SetPodChaosUpdated(ann[cur], Updated(ann[cur]), Cleared(ann[cur]))
  <2>3. ann' = [ann EXCEPT ![cur] = acked]
    BY <1>4, <2>2 DEF Update, UpdateStatus
  <2>4. Cleared(ann[cur]) \subseteq Updated(ann[cur])
    BY <1>1, DoneTypes DEF CleanInv, ClearIsPending, Cleared, Updated
  <2>5. Updated(ann[cur]) # {}
    <3> SUFFICES ASSUME Updated(ann[cur]) = {} PROVE FALSE
      OBVIOUS
    <3>1. acked = ann[cur]
      BY <2>2, <2>4 DEF SetPodChaosUpdated
    <3> QED
      BY <1>1, <1>4, <2>3, <3>1, DoneTypes
  <2>6. ASSUME NEW d \in Updated(ann[cur])
        PROVE  \/ NeedClear(ann[cur][d]) /\ NetOf(cur, d) = Clean
               \/ /\ ~NeedClear(ann[cur][d])
                  /\ ann[cur][d].info \in Infos /\ Valid(ann[cur][d].info) =>
                       NetOf(cur, d) = Contract!Effect(ann[cur][d].info)
    <3>1. d \in Dirs /\ NeedUpdate(ann[cur][d]) /\ Passed(d) /\ pc \in PodStages
      BY <1>1, <2>6 DEF Updated, Passed, PodStages
    <3>2. CASE NeedClear(ann[cur][d])
      <4>1. IsClean(cur, d)
        BY <2>1, <2>2, <3>1, <3>2, DoneTypes DEF CleanInv, ClearedSoFar
      <4> QED
        BY <3>1, <3>2, <4>1, CleanNet, DoneTypes, UpdateAnswers
    <3>3. CASE ~NeedClear(ann[cur][d])
      <4> SUFFICES ASSUME ann[cur][d].info \in Infos, Valid(ann[cur][d].info)
                   PROVE  NetOf(cur, d) = Contract!Effect(ann[cur][d].info)
        BY <3>3
      <4>1. Applied(cur, d, ann[cur][d].info)
        BY <1>1, <2>1, <2>2, <3>1, <3>3, DealtWith, InfosAssumption
      <4>2. OneFilterPerCidr /\ phase[cur] # "deleted"
        BY <2>1, DoneTypes DEF CleanInv, CidrInv, Live
      <4> QED
        BY <1>1, <3>1, <4>1, <4>2, AppliedNet
    <3> QED
      BY <3>2, <3>3
  <2>7. Contract!Acknowledged(cur)
    <3>1. /\ Contract!Updated(ann[cur]) = Updated(ann[cur])
          /\ Contract!Cleared(ann[cur]) = Cleared(ann[cur])
      BY DEF Contract!Updated, Updated, Contract!Cleared, Cleared, Contract!Dirs, Dirs,
             Contract!NeedUpdate, NeedUpdate, Contract!NeedClear, NeedClear
    <3>2. Contract!SetPodChaosUpdated(ann[cur], Updated(ann[cur]), Cleared(ann[cur])) = acked
      BY SameNames DEF Contract!SetPodChaosUpdated, SetPodChaosUpdated
    <3>3. \A d \in Dirs : /\ Contract!NeedClear(ann[cur][d]) <=> NeedClear(ann[cur][d])
                          /\ Contract!Valid(ann[cur][d].info) <=> Valid(ann[cur][d].info)
      BY DEF Contract!NeedClear, NeedClear, Contract!Valid, Valid
    <3>4. Net' = Net /\ \A d \in Dirs : Net[cur][d] = NetOf(cur, d)
      BY <1>1, <1>2 DEF Net
    <3>5. Updated(ann[cur]) \subseteq Dirs
      BY DEF Updated
    <3> HIDE DEF acked
    <3>6. \A d \in Updated(ann[cur]) :
            \/ Contract!NeedClear(ann[cur][d]) /\ Net[cur][d] = Contract!Clean
            \/ /\ ~Contract!NeedClear(ann[cur][d])
               /\ ann[cur][d].info \in Infos /\ Contract!Valid(ann[cur][d].info) =>
                    Net[cur][d] = Contract!Effect(ann[cur][d].info)
      BY <2>6, <3>3, <3>4, <3>5, SameNames
    <3> QED
      BY <1>1, <2>2, <2>3, <2>4, <2>5, <3>1, <3>2, <3>4, <3>6 DEF Contract!Acknowledged, Net
  <2> QED
    BY <1>1, <2>7 DEF ContractStep, Contract!Next
<1> QED
  BY <1>3, <1>4 DEF Update, UpdateStatus

-----------------------------------------------------------------------------
(* Those around the agent.                                                 *)

LEMMA LivesJoin ==
  ASSUME DoneInv, Undisturbed, Lives
  PROVE  ContractStep
<1>1. PICK p \in Pods : CreatePod(p) \/ Wire(p) \/ AssignIP(p) \/ DeletePod(p) \/ SetLabel(p)
  BY DEF Lives
<1>2. /\ Member \subseteq Pods /\ phase \in [Pods -> Phases] /\ Around
      /\ ann \in [Pods -> [Dirs -> Annotation]]
  BY DoneTypes DEF Member, Selected, Around
<1>3. ASSUME NEW q \in Pods, NEW e \in Dirs, ~DeletePod(q) PROVE NetOf(q, e)' = NetOf(q, e)
  <2>1. phase'[q] = "deleted" <=> phase[q] = "deleted"
    BY <1>1, <1>2, <1>3 DEF CreatePod, Wire, AssignIP, DeletePod, SetLabel
  <2> QED
    BY <1>2, <1>3, <2>1, OutsideSamePath, SameNet
<1>4. CASE ~DeletePod(p)
  <2>1. ann' = ann /\ \A q \in Pods : ~DeletePod(q)
    BY <1>1, <1>2, <1>4 DEF CreatePod, Wire, AssignIP, DeletePod, SetLabel, Live
  <2>2. Net' = Net
    BY <1>3, <2>1 DEF Net
  <2>3. CASE Member' = Member
    BY <2>1, <2>2, <2>3 DEF ContractStep
  <2>4. CASE Member' # Member
    <3>1. CASE Member' = Member \cup {p}
      <4>1. ~Acked(p)
        <5>1. CASE CreatePod(p)
          <6>1. ann[p] = Unannotated
            BY <5>1, DoneTypes DEF CreatePod, ReleaseInv, AnnotatedHasAddress
          <6> QED
            BY <6>1 DEF Acked, Unannotated, NoAnnotation
        <5>2. CASE SetLabel(p)
          <6>1. "relabel" \notin Disruptions
            BY NoDisturbance DEF Attentive
          <6>2. p \in labelled'
            BY <3>1 DEF Member, Selected
          <6>3. labelled' # labelled \ {p}
            BY <6>2
          <6>4. Acked(p) => "relabel" \in Disruptions
            BY <5>2, <6>3 DEF SetLabel
          <6> QED
            BY <6>1, <6>4
        <5>3. CASE Wire(p) \/ AssignIP(p)
          <6>1. labelled' = labelled /\ labelled \subseteq Pods
            BY <5>3, DoneTypes DEF Wire, AssignIP
          <6>2. \A q \in Pods : phase'[q] \in Live <=> phase[q] \in Live
            BY <1>2, <5>3 DEF Wire, AssignIP, Live
          <6> QED
            BY <2>4, <6>1, <6>2 DEF Member, Selected
        <5> QED
          BY <1>1, <1>4, <5>1, <5>2, <5>3
      <4>2. Contract!Joined(p)
        BY <2>1, <2>2, <2>4, <3>1, <4>1, SameNames DEF Contract!Joined, Acked, Net
      <4> QED
        BY <4>2 DEF ContractStep, Contract!Next
    <3>2. CASE Member' = Member \ {p}
      <4>1. Contract!Left(p)
        BY <2>1, <2>2, <2>4, <3>2 DEF Contract!Left, Net
      <4> QED
        BY <4>1 DEF ContractStep, Contract!Next
    <3>3. Member' \in {Member, Member \cup {p}, Member \ {p}}
      <4>1. \A q \in Pods \ {p} : phase'[q] = phase[q] /\ (q \in labelled' <=> q \in labelled)
        BY <1>1, <1>2, <1>4 DEF CreatePod, Wire, AssignIP, SetLabel
      <4>2. labelled' \subseteq Pods
        BY <1>1, <1>4, DoneTypes DEF CreatePod, Wire, AssignIP, SetLabel
      <4> QED
        BY <1>2, <4>1, <4>2, DoneTypes DEF Member, Selected
    <3> QED
      BY <2>4, <3>1, <3>2, <3>3
  <2> QED
    BY <2>3, <2>4
<1>5. CASE DeletePod(p)
  <2>1. Member' = Member \ {p}
    BY <1>2, <1>5, DoneTypes DEF DeletePod, Member, Selected, Live
  <2>2. \A q \in Pods \ {p} : ~DeletePod(q)
    BY <1>2, <1>5 DEF DeletePod, Live
  <2>3. \A e \in Dirs : NetOf(p, e)' = Clean
    BY <1>2, <1>5 DEF DeletePod, NetOf
  <2>4. Net' = [Net EXCEPT ![p] = [d \in Dirs |-> Clean]]
    BY <1>3, <2>2, <2>3 DEF Net
  <2>5. Contract!Gone(p)
    BY <1>5, <2>1, <2>4, SameNames DEF Contract!Gone, DeletePod, Net
  <2> QED
    BY <2>5 DEF ContractStep, Contract!Next
<1> QED
  BY <1>4, <1>5

LEMMA AskingAsks ==
  ASSUME DoneInv, Undisturbed, ClearsAsk, Asking
  PROVE  ContractStep
<1>1. PICK p \in Pods, d \in Dirs, a \in Annotation :
        /\ a.done = "no" /\ ann' = [ann EXCEPT ![p][d] = a]
        /\ UNCHANGED <<tcVars, phase, labelled>>
  BY AskingWrites DEF Writes
<1>2. Member' = Member
  BY <1>1 DEF Member, Selected
<1>3. ASSUME NEW q \in Pods, NEW e \in Dirs PROVE NetOf(q, e)' = NetOf(q, e)
  <2>1. SamePath(q, e)
    BY <1>1 DEF SamePath, tcVars, Matching, HasClass
  <2> QED
    BY <1>1, <2>1, SameNet
<1>4. Net' = Net
  BY <1>3 DEF Net
<1>5. NeedUpdate(a)
  BY <1>1 DEF NeedUpdate
<1>6. Contract!Asked(p, d)
  BY <1>1, <1>2, <1>4, <1>5, SameNames DEF Contract!Asked, Net
<1> QED
  BY <1>6, SameNames DEF ContractStep, Contract!Next

-----------------------------------------------------------------------------

LEMMA NextImplements ==
  /\ DoneInv /\ Undisturbed /\ ClearsAsk /\ Distinct /\ [Next]_vars
  => [Contract!Next]_(Contract!contractVars)
<1> SUFFICES ASSUME DoneInv, Undisturbed, ClearsAsk, Distinct, [Next]_vars PROVE ContractStep
  BY DEF ContractStep, Net, Contract!contractVars, Contract!Dirs, Dirs
<1>1. TcTypeOK'
  BY NextType, DoneTypes DEF TypeInv, TypeOK
<1>2. CASE LinkUp \/ (Pass /\ ~Update)
  <2>1. UNCHANGED <<ann, Member>>
    BY <1>2, PassStays
       DEF LinkUp, Pass, InitIfb, List, Pod, StartSweep, On, At, clusterVars, Member, Selected
  <2> QED
    BY <1>2, <2>1, PassIsSilent, SilentStep
<1>3. CASE UNCHANGED vars
  <2>1. UNCHANGED <<ann, Member>> /\ \A q \in Pods, e \in Dirs : NetOf(q, e)' = NetOf(q, e)
    <3>1. UNCHANGED <<ann, phase, labelled, tcVars>>
      BY <1>3 DEF vars, clusterVars
    <3>2. \A q \in Pods, e \in Dirs : SamePath(q, e)
      BY <3>1 DEF SamePath, tcVars, Matching, HasClass
    <3> QED
      BY <3>1, <3>2, SameNet DEF Member, Selected
  <2> QED
    BY <2>1, SilentStep
<1> QED
  BY <1>1, <1>2, <1>3, StepsLeft, CommandShapes, SweepShapes, UpdateAcknowledges, LivesJoin,
     AskingAsks DEF Around

LEMMA InitImplements == Init => Contract!Init
<1> SUFFICES ASSUME Init PROVE Contract!Init
  OBVIOUS
<1>1. Member = {} /\ ann = [p \in Pods |-> Unannotated]
  BY DEF Init, Member, Selected
<1>2. \A p \in Pods, d \in Dirs : NetOf(p, d) = Clean
  BY DEF Init, TcInit, NetOf, Matching
<1> QED
  BY <1>1, <1>2, SameNames DEF Contract!Init

\* Where nothing happens to the agent but that its updates fail, no two pods have
\* one address, users do nothing unusual but that they set what they are still
\* clearing, and the tables have room for every address of the pool, every step of
\* the agent and its cluster is a step of the contract or none.
THEOREM AgentKeepsContract ==
  Undisturbed /\ ClearsAsk /\ Distinct /\ Room => (Spec => ImplementsContract)
<1> SUFFICES ASSUME Undisturbed, ClearsAsk, Distinct, Room PROVE Spec => ImplementsContract
  OBVIOUS
<1>1. DoneInv /\ [Next]_vars => DoneInv'
  BY NextDone
<1>2. DoneInv /\ [Next]_vars => [Contract!Next]_(Contract!contractVars)
  BY NextImplements
<1> QED
  BY <1>1, <1>2, InitDone, InitImplements, PTL DEF Spec, ImplementsContract, Contract!Spec

\* ... and so users have from the agent what the contract holds for them: where a
\* direction has no keys the traffic is left alone, and where a request of a pod
\* with the label was answered the traffic is what was asked for.
THEOREM AgentIsHonest ==
  Undisturbed /\ ClearsAsk /\ Distinct /\ Room => (Spec => []Contract!Honest)
<1> SUFFICES ASSUME Undisturbed, ClearsAsk, Distinct, Room PROVE Spec => []Contract!Honest
  OBVIOUS
<1>1. DoneInv /\ [Next]_vars => DoneInv'
  BY NextDone
<1>2. DoneInv => Contract!Honest
  <2> SUFFICES ASSUME DoneInv, NEW p \in Pods, NEW d \in Dirs
               PROVE  /\ ann[p][d] = NoAnnotation => NetOf(p, d) = Clean
                      /\ p \in Member /\ ann[p][d].done = "yes" /\ ann[p][d].info \in Infos
                         /\ Valid(ann[p][d].info) =>
                           NetOf(p, d) = Contract!Effect(ann[p][d].info)
    BY SameNames DEF Contract!Honest, Contract!Valid, Valid, Contract!Accepts, Accepts,
                     Contract!RateOf, RateOf, Contract!NetemOf, NetemOf
  <2>1. ASSUME ann[p][d] = NoAnnotation PROVE NetOf(p, d) = Clean
    <3>1. CASE phase[p] = "deleted"
      BY <3>1 DEF NetOf
    <3>2. CASE phase[p] # "deleted"
      <4>1. IsClean(p, d)
        BY <2>1, <3>2, DoneTypes DEF CleanInv, KeylessIsClean, TracesFollowPhase, IsClean
      <4> QED
        BY <4>1, CleanNet, DoneTypes
    <3> QED
      BY <3>1, <3>2
  <2>2. ASSUME p \in Member, ann[p][d].done = "yes", ann[p][d].info \in Infos,
               Valid(ann[p][d].info)
        PROVE  NetOf(p, d) = Contract!Effect(ann[p][d].info)
    <3>1. p \in labelled /\ phase[p] \in Live
      BY <2>2 DEF Member, Selected
    <3>2. phase[p] = "ready"
      <4>1. ann[p] # Unannotated
        BY <2>2 DEF Unannotated, NoAnnotation
      <4> QED
        BY <3>1, <4>1, DoneTypes DEF ReleaseInv, AnnotatedHasAddress, Live
    <3>3. Applied(p, d, ann[p][d].info)
      BY <2>2, <3>1, <3>2, InfosAssumption DEF DoneInv, DoneMeansApplied
    <3>4. OneFilterPerCidr
      BY DoneTypes DEF CleanInv, CidrInv
    <3> QED
      BY <3>2, <3>3, <3>4, AppliedNet
  <2> QED
    BY <2>1, <2>2
<1> QED
  BY <1>1, <1>2, InitDone, PTL DEF Spec
=============================================================================
