------------------------ MODULE ChaosContractProofs ------------------------
(***************************************************************************)
(* The contract keeps its annotations honest, for any pods and settings.   *)
(***************************************************************************)
EXTENDS ChaosContract, TLAPS

\* Honest needs to know only that the annotations are a table over the pods.
HonestInv == ContractTypeOK /\ Honest

-----------------------------------------------------------------------------

LEMMA CleanIsNet == Clean \in Nets
BY DEF Nets

LEMMA NoAnnotationType ==
  NoAnnotation \in Annotation /\ Unannotated \in [Dirs -> Annotation]
BY DEF Unannotated, NoAnnotation, Annotation, DoneFlag

LEMMA YesType ==
  ASSUME NEW a \in Annotation
  PROVE  /\ [a EXCEPT !.done = "yes"] \in Annotation
         /\ [a EXCEPT !.done = "yes"].info = a.info
         /\ [a EXCEPT !.done = "yes"] # NoAnnotation
BY DEF Annotation, DoneFlag, NoAnnotation

LEMMA AckType ==
  ASSUME NEW anns \in [Dirs -> Annotation], NEW upd, NEW clr
  PROVE  SetPodChaosUpdated(anns, upd, clr) \in [Dirs -> Annotation]
<1>1. ASSUME NEW d \in Dirs PROVE [anns[d] EXCEPT !.done = "yes"] \in Annotation
  BY YesType
<1> QED
  BY <1>1, NoAnnotationType DEF SetPodChaosUpdated

LEMMA InitHonest == Init => HonestInv
<1> SUFFICES ASSUME Init PROVE HonestInv
  OBVIOUS
<1>1. ContractTypeOK
  BY NoAnnotationType, CleanIsNet DEF Init, ContractTypeOK
<1> QED
  BY <1>1 DEF Init, HonestInv, Honest

-----------------------------------------------------------------------------

LEMMA MemberHonest ==
  ASSUME HonestInv, NEW p \in Pods, Joined(p) \/ Left(p)
  PROVE  HonestInv'
<1>1. ContractTypeOK'
  BY DEF HonestInv, ContractTypeOK, Joined, Left
<1>2. UNCHANGED <<ann, net>>
  BY DEF Joined, Left
<1>3. ASSUME NEW q \in Pods, NEW d \in Dirs, q \in member', ann[q][d].done = "yes"
      PROVE  q \in member
  BY <1>3 DEF Joined, Left
<1> QED
  BY <1>1, <1>2, <1>3 DEF HonestInv, Honest

LEMMA GoneHonest ==
  ASSUME HonestInv, NEW p \in Pods, Gone(p)
  PROVE  HonestInv'
<1>1. ContractTypeOK'
  BY NoAnnotationType, CleanIsNet DEF HonestInv, ContractTypeOK, Gone
<1>2. ASSUME NEW q \in Pods, NEW d \in Dirs, q # p
      PROVE  ann'[q] = ann[q] /\ net'[q] = net[q] /\ (q \in member' => q \in member)
  BY <1>2 DEF HonestInv, ContractTypeOK, Gone
<1>3. ann'[p] = Unannotated /\ net'[p] = [d \in Dirs |-> Clean] /\ p \notin member'
  BY DEF HonestInv, ContractTypeOK, Gone
<1> QED
  BY <1>1, <1>2, <1>3 DEF HonestInv, Honest

LEMMA AskedHonest ==
  ASSUME HonestInv, NEW p \in Pods, NEW e \in Dirs, Asked(p, e)
  PROVE  HonestInv'
<1>1. PICK a \in Annotation : NeedUpdate(a) /\ ann' = [ann EXCEPT ![p][e] = a]
  BY DEF Asked
<1>2. a # NoAnnotation /\ a.done # "yes"
  BY <1>1 DEF NeedUpdate, NoAnnotation
<1>3. ContractTypeOK'
  BY <1>1 DEF HonestInv, ContractTypeOK, Asked
<1>4. ASSUME NEW q \in Pods, NEW d \in Dirs
      PROVE  ann'[q][d] = IF q = p /\ d = e THEN a ELSE ann[q][d]
  BY <1>1 DEF HonestInv, ContractTypeOK
<1> QED
  BY <1>2, <1>3, <1>4 DEF HonestInv, Honest, Asked

LEMMA ShapedHonest ==
  ASSUME HonestInv, NEW p \in Pods, NEW e \in Dirs, Shaped(p, e)
  PROVE  HonestInv'
<1>1. PICK n \in Nets : net' = [net EXCEPT ![p][e] = n]
  BY DEF Shaped
<1>2. ContractTypeOK'
  BY <1>1 DEF HonestInv, ContractTypeOK, Shaped
<1>3. ASSUME NEW q \in Pods, NEW d \in Dirs, ~(q = p /\ d = e)
      PROVE  net'[q][d] = net[q][d]
  BY <1>1, <1>3 DEF HonestInv, ContractTypeOK
<1>4. ann[p][e] # NoAnnotation /\ ~(p \in member /\ ann[p][e].done = "yes")
  BY DEF Shaped, NeedUpdate, NoAnnotation
<1> QED
  BY <1>2, <1>3, <1>4 DEF HonestInv, Honest, Shaped

LEMMA AcknowledgedHonest ==
  ASSUME HonestInv, NEW p \in Pods, Acknowledged(p)
  PROVE  HonestInv'
<1> DEFINE upd == Updated(ann[p])
           clr == Cleared(ann[p])
<1>1. ann[p] \in [Dirs -> Annotation]
  BY DEF HonestInv, ContractTypeOK
<1>2. ann' = [ann EXCEPT ![p] = SetPodChaosUpdated(ann[p], upd, clr)]
      /\ UNCHANGED <<member, net>>
  BY DEF Acknowledged
<1>3. ann'[p] = SetPodChaosUpdated(ann[p], upd, clr)
      /\ \A q \in Pods : q # p => ann'[q] = ann[q]
  BY <1>2 DEF HonestInv, ContractTypeOK
<1>4. ContractTypeOK'
  BY <1>1, <1>2, AckType DEF HonestInv, ContractTypeOK
<1>5. ASSUME NEW d \in Dirs
      PROVE  LET a == ann'[p][d]
             IN  /\ a = NoAnnotation => net[p][d] = Clean
                 /\ p \in member /\ a.done = "yes" /\ a.info \in Infos /\ Valid(a.info) =>
                      net[p][d] = Effect(a.info)
  <2>1. CASE d \in clr
    <3>1. ann'[p][d] = NoAnnotation
      BY <1>3, <2>1 DEF SetPodChaosUpdated
    <3>2. net[p][d] = Clean
      BY <2>1 DEF Acknowledged, Cleared
    <3> QED
      BY <3>1, <3>2 DEF NoAnnotation
  <2>2. CASE d \notin clr /\ d \in upd
    <3>1. ann'[p][d] = [ann[p][d] EXCEPT !.done = "yes"]
      BY <1>3, <2>2 DEF SetPodChaosUpdated
    <3>2. ann'[p][d] # NoAnnotation /\ ann'[p][d].info = ann[p][d].info
      BY <1>1, <3>1, YesType
    <3>3. ~NeedClear(ann[p][d])
      BY <2>2 DEF Cleared
    <3>4. ann[p][d].info \in Infos /\ Valid(ann[p][d].info) =>
            net[p][d] = Effect(ann[p][d].info)
      BY <2>2, <3>3 DEF Acknowledged
    <3> QED
      BY <3>2, <3>4
  <2>3. CASE d \notin clr /\ d \notin upd
    <3>1. ann'[p][d] = ann[p][d]
      BY <1>3, <2>3 DEF SetPodChaosUpdated
    <3> QED
      BY <3>1 DEF HonestInv, Honest
  <2> QED
    BY <2>1, <2>2, <2>3
<1> QED
  BY <1>2, <1>3, <1>4, <1>5 DEF HonestInv, Honest

-----------------------------------------------------------------------------

\* Annotations never lie about the traffic, in every behaviour the contract
\* allows: this is what users get from an agent that implements it.
THEOREM ContractIsHonest == Spec => []Honest
<1>1. HonestInv /\ [Next]_contractVars => HonestInv'
  <2> SUFFICES ASSUME HonestInv, [Next]_contractVars PROVE HonestInv'
    OBVIOUS
  <2>1. CASE UNCHANGED contractVars
    BY <2>1 DEF contractVars, HonestInv, ContractTypeOK, Honest
  <2>2. CASE Next
    BY <2>2, MemberHonest, GoneHonest, AskedHonest, ShapedHonest, AcknowledgedHonest
       DEF Next
  <2> QED
    BY <2>1, <2>2
<1>2. HonestInv => Honest
  BY DEF HonestInv
<1> QED
  BY InitHonest, <1>1, <1>2, PTL DEF Spec
=============================================================================
