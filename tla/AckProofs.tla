----------------------------- MODULE AckProofs -----------------------------
(***************************************************************************)
(* The agent acknowledges nothing that it has not executed: users write    *)
(* between the list and the UpdateStatus of a pass, commands and requests  *)
(* fail, the agent is killed, and yet "yes" is said only of what was asked *)
(* for last.                                                               *)
(***************************************************************************)
EXTENDS KubeChaosProofs, FiniteSetTheorems

-----------------------------------------------------------------------------
(* Why an acknowledgement is never stale: the inductive invariants behind  *)
(* AckIsCurrent and SettingKept.                                           *)

\* The pods of which the agent holds a listed copy.
Held == Pods \cap (todo \cup {cur})

\* A copy that the API server would accept is still the current version.
CopiesAreCurrent ==
  \A p \in Held : phase[p] # "none" /\ (p \notin stale /\ phase[p] \in Live => snap[p] = ann[p])

\* A setting that waits for an answer is the one users asked for last.
WaitingIsAsked ==
  \A p \in Pods, d \in Dirs :
    NeedUpdate(ann[p][d]) /\ ~NeedClear(ann[p][d]) => asked[p][d] = ann[p][d].info

\* What the agent is about to answer has not been answered yet.
UnansweredYet ==
  \A p \in Held, d \in Dirs : NeedUpdate(snap[p][d]) => ann[p][d].done # "yes"

\* The agent works on a direction that asks for it.
WorksOnDue ==
  /\ pc \in ChaosStages \cup ResetStages => NeedUpdate(snap[cur][dir])
  /\ pc \in ResetStages => NeedClear(snap[cur][dir])

\* What is done with of a pod's requests has been executed as it was listed.
Executed ==
  pc \in ChaosStages \cup ResetStages \cup {"update"} /\ phase[cur] \in Live =>
    \A d \in Dirs :
      /\ pc = "update" \/ (dir = "egress" /\ d = "ingress")
      /\ NeedUpdate(snap[cur][d]) /\ ~NeedClear(snap[cur][d])
      => tried[cur][d] = snap[cur][d].info

\* AckIsCurrent, of pods in any phase.
AcksAreCurrent ==
  \A p \in Pods, d \in Dirs :
    ann[p][d].done = "yes" /\ ~NeedClear(ann[p][d]) => tried[p][d] = asked[p][d]

\* Between two turns no pod is being processed, and what is left of a pass but
\* for the clearing of the node asks for something.
TurnsAreDue ==
  /\ pc \notin PodStages => cur = NoPod
  /\ pc \notin ClearStages => \A p \in todo : Updated(snap[p]) # {}

AckInv ==
  /\ TypeInv /\ TurnsAreDue /\ CopiesAreCurrent /\ WaitingIsAsked /\ UnansweredYet
  /\ WorksOnDue /\ Executed /\ AcksAreCurrent

\* Where users do not set what they are still clearing, and do not clear the
\* node, a clear key is what they asked for last.
ClearIsAsked ==
  /\ ~nodeClear /\ pc \notin ClearStages
  /\ \A p \in Pods, d \in Dirs : NeedClear(ann[p][d]) => asked[p][d] = "clear"

KeptInv == AckInv /\ ClearIsAsked /\ SettingKept

-----------------------------------------------------------------------------

\* What AckInv adds to TypeInv.
AckParts ==
  /\ TurnsAreDue /\ CopiesAreCurrent /\ WaitingIsAsked /\ UnansweredYet
  /\ WorksOnDue /\ Executed /\ AcksAreCurrent

Requested == <<phase, ann, asked>>
Copies    == <<todo, snap, stale, cur>>

TurnStages == ChaosStages \cup ResetStages \cup {"update"}

LEMMA AckTypes ==
  ASSUME AckInv
  PROVE  /\ ann \in [Pods -> [Dirs -> Annotation]] /\ snap \in [Pods -> [Dirs -> Annotation]]
         /\ asked \in [Pods -> [Dirs -> Requests]] /\ tried \in [Pods -> [Dirs -> Requests]]
         /\ dir \in Dirs /\ todo \subseteq Pods /\ NoPod \notin Pods
         /\ phase \in [Pods -> Phases]
BY KubeChaosAssumption DEF AckInv, TypeInv, TypeOK, ClusterTypeOK, AgentTypeOK

LEMMA InTurn ==
  ASSUME AckInv, pc \in TurnStages \cup {"clearMirroring", "clearUpdate"}
  PROVE  cur \in Pods /\ cur \in Held
BY InPodStage DEF AckInv, Held, PodStages, TurnStages, ChaosStages, ResetStages

-----------------------------------------------------------------------------
(* Steps of the agent that neither execute a request nor answer one.       *)

\* A step within a stretch of the code.
LEMMA StretchKeepsAck ==
  ASSUME AckInv, UNCHANGED <<Requested, Copies, tried>>,
         \/ pc \notin PodStages /\ pc' \notin PodStages
            /\ (pc \in ClearStages /\ pc' \notin ClearStages => todo = {})
         \/ {pc, pc'} \subseteq {"clearMirroring", "clearUpdate"}
         \/ {pc, pc'} \subseteq ChaosStages /\ dir' = dir
         \/ {pc, pc'} \subseteq ResetStages /\ dir' = dir
  PROVE  AckParts'
<1>1. CopiesAreCurrent' /\ WaitingIsAsked' /\ UnansweredYet' /\ AcksAreCurrent'
  BY DEF AckInv, CopiesAreCurrent, WaitingIsAsked, UnansweredYet, AcksAreCurrent, Held,
         Requested, Copies
<1>2. TurnsAreDue'
  BY DEF AckInv, TurnsAreDue, PodStages, ClearStages, ChaosStages, ResetStages, Copies
<1>3. WorksOnDue' /\ Executed'
  BY DEF AckInv, WorksOnDue, Executed, PodStages, ChaosStages, ResetStages, Copies, Requested
<1> QED
  BY <1>1, <1>2, <1>3 DEF AckParts

LEMMA SetUpKeepsAck ==
  ASSUME AckInv, LinkUp \/ InitIfb \/ LinkDown \/ ResetIfb
  PROVE  AckParts'
<1>1. UNCHANGED <<Requested, Copies, tried>>
  BY DEF LinkUp, InitIfb, LinkDown, ResetIfb, On, At, clusterVars, heldVars, Requested, Copies
<1>2. pc \notin PodStages /\ pc' \notin PodStages
  BY DEF LinkUp, InitIfb, LinkDown, ResetIfb, Run, On, At, NextIfb, Leap, PodStages
<1>3. pc \in ClearStages => pc' \in ClearStages
  BY DEF LinkUp, InitIfb, LinkDown, ResetIfb, Run, On, At, NextIfb, Leap, ClearStages
<1> QED
  BY <1>1, <1>2, <1>3, StretchKeepsAck

LEMMA ChaosKeepsAck ==
  ASSUME AckInv,
         \/ Reconcile \/ Wipe \/ Unredirect \/ Redirect \/ AddFilter \/ AddClass
         \/ DelNetem \/ AddNetem
  PROVE  AckParts'
<1>1. UNCHANGED <<Requested, Copies, tried>>
  BY DEF Reconcile, Wipe, Unredirect, Redirect, AddFilter, AddClass, DelNetem, AddNetem,
         On, At, clusterVars, heldVars, Requested, Copies
<1>2. {pc, pc'} \subseteq ChaosStages /\ dir' = dir
  BY DEF Reconcile, Wipe, Unredirect, Redirect, AddFilter, AddClass, DelNetem, AddNetem,
         Exec, Run, Goto, On, At, ChaosStages
<1> QED
  BY <1>1, <1>2, StretchKeepsAck

\* The agent's local state is lost.
LEMMA ForgetKeepsAck ==
  ASSUME AckInv, UNCHANGED <<Requested, tried>>, Forget, pc' \notin PodStages
  PROVE  AckParts'
<1>1. Held' = {} /\ todo' = {} /\ cur' = NoPod
  BY AckTypes DEF Forget, Held
<1>2. WaitingIsAsked' /\ AcksAreCurrent'
  BY DEF AckInv, WaitingIsAsked, AcksAreCurrent, Requested
<1> QED
  BY <1>1, <1>2 DEF AckParts, TurnsAreDue, CopiesAreCurrent, UnansweredYet, WorksOnDue, Executed,
                    PodStages, ChaosStages, ResetStages

LEMMA SweepKeepsAck ==
  ASSUME AckInv, StartSweep \/ SweepFilter \/ SweepClass \/ ClearMirroring \/ ClearNode
  PROVE  AckParts'
<1>1. UNCHANGED <<Requested, tried>>
  BY DEF StartSweep, SweepFilter, SweepClass, ClearMirroring, ClearNode, On, At, clusterVars,
         Requested
<1>2. CASE StartSweep \/ ClearNode
  <2>1. UNCHANGED Copies /\ pc \notin PodStages /\ pc' \notin PodStages /\ todo = {}
    BY <1>2 DEF StartSweep, ClearNode, On, At, Goto, heldVars, Copies, PodStages
  <2> QED
    BY <1>1, <2>1, StretchKeepsAck
<1>3. CASE ClearMirroring
  <2>1. UNCHANGED Copies /\ {pc, pc'} \subseteq {"clearMirroring", "clearUpdate"}
    BY <1>3 DEF ClearMirroring, Exec, Run, On, At, Goto, heldVars, Copies
  <2> QED
    BY <1>1, <2>1, StretchKeepsAck
<1>4. CASE SweepFilter \/ SweepClass
  <2>1. \/ Forget /\ pc' = "list"
        \/ /\ UNCHANGED Copies
           /\ {pc, pc'} \subseteq {"sweepFilter", "sweepClass"}
    BY <1>4 DEF SweepFilter, SweepClass, Run, At, NextIfb, EndPass, heldVars, Copies
  <2>2. CASE Forget /\ pc' = "list"
    BY <1>1, <2>2, ForgetKeepsAck DEF PodStages
  <2>3. CASE UNCHANGED Copies /\ {pc, pc'} \subseteq {"sweepFilter", "sweepClass"}
    BY <1>1, <2>3, StretchKeepsAck DEF PodStages, ClearStages
  <2> QED
    BY <2>1, <2>2, <2>3
<1> QED
  BY <1>2, <1>3, <1>4

LEMMA ListKeepsAck ==
  ASSUME AckInv, List
  PROVE  AckParts'
<1>1. /\ pc = "list" /\ cur = NoPod /\ cur' = NoPod /\ UNCHANGED <<Requested, tried>>
      /\ pc' \in {"linkDown", "pod"} /\ stale' = {}
  BY DEF List, StartPass, At, AckInv, TurnsAreDue, PodStages, clusterVars, Requested
<1>2. /\ todo' \subseteq Selected
      /\ snap' = [p \in Pods |-> IF p \in todo' THEN ann[p] ELSE Unannotated]
      /\ pc' = "pod" => \A p \in todo' : Updated(ann[p]) # {}
  BY DEF List, StartPass, Selected
<1>3. \A p \in todo' : p \in Pods /\ snap'[p] = ann[p] /\ phase[p] \in Live
  BY <1>2 DEF Selected, AckInv, TypeInv, TypeOK, ClusterTypeOK
<1>4. Held' = todo'
  BY <1>1, <1>3, AckTypes DEF Held
<1>5. TurnsAreDue'
  BY <1>1, <1>2, <1>3 DEF TurnsAreDue, PodStages, ClearStages
<1>6. CopiesAreCurrent'
  BY <1>1, <1>3, <1>4 DEF CopiesAreCurrent, Live, Requested
<1>7. UnansweredYet'
  BY <1>1, <1>3, <1>4 DEF UnansweredYet, NeedUpdate, Requested
<1>8. WaitingIsAsked' /\ AcksAreCurrent'
  BY <1>1 DEF AckInv, WaitingIsAsked, AcksAreCurrent, Requested
<1>9. WorksOnDue' /\ Executed'
  BY <1>1 DEF WorksOnDue, Executed, ChaosStages, ResetStages
<1> QED
  BY <1>5, <1>6, <1>7, <1>8, <1>9 DEF AckParts

\* The turn of p begins.
LEMMA TurnKeepsAck ==
  ASSUME AckInv, NEW p \in Pods, Pod(p) \/ ClearPod(p)
  PROVE  AckParts'
<1>1. /\ p \in todo /\ pc \in {"pod", "clearPod"} /\ cur = NoPod /\ UNCHANGED <<Requested, tried>>
  BY DEF Pod, ClearPod, GetWorkload, At, AckInv, TurnsAreDue, PodStages, clusterVars, Requested
<1>2. CASE Restart
  BY <1>1, <1>2, ForgetKeepsAck DEF Restart, PodStages
<1>3. CASE ~Restart
  <2>1. UNCHANGED <<todo, snap, stale>> /\ cur' = p
    BY <1>3 DEF Pod, ClearPod, GetWorkload
  <2>2. Held' = Held
    BY <1>1, <2>1, AckTypes DEF Held
  <2>3. CopiesAreCurrent' /\ WaitingIsAsked' /\ UnansweredYet' /\ AcksAreCurrent'
    BY <1>1, <2>1, <2>2
       DEF AckInv, CopiesAreCurrent, WaitingIsAsked, UnansweredYet, AcksAreCurrent, Requested
  <2>4. CASE ClearPod(p)
    <3>1. pc' = "clearMirroring"
      BY <1>3, <2>4 DEF ClearPod, GetWorkload
    <3> QED
      BY <2>1, <2>3, <3>1 DEF AckParts, TurnsAreDue, WorksOnDue, Executed, PodStages, ClearStages,
                              ChaosStages, ResetStages
  <2>5. CASE Pod(p)
    <3> DEFINE first == IF "ingress" \in Updated(snap[p]) THEN "ingress" ELSE "egress"
    <3>1. pc = "pod" /\ Begin(p, first)
      BY <1>3, <2>5 DEF Pod, GetWorkload, At
    <3>2. pc' \in {"unmirror", "reconcile"} /\ dir' = first
          /\ (pc' = "unmirror" => NeedClear(snap[p][first]))
      BY <3>1 DEF Begin
    <3>3. Updated(snap[p]) # {}
      BY <1>1, <3>1 DEF AckInv, TurnsAreDue, ClearStages
    <3>4. NeedUpdate(snap[p][first])
      BY <3>3 DEF Updated, Dirs
    <3>5. TurnsAreDue'
      BY <1>1, <2>1, <3>1, <3>2 DEF AckInv, TurnsAreDue, PodStages, ClearStages
    <3>6. WorksOnDue'
      BY <2>1, <3>2, <3>4 DEF WorksOnDue, ChaosStages, ResetStages
    <3>7. Executed'
      BY <2>1, <3>2 DEF Executed, Updated, Dirs
    <3> QED
      BY <2>3, <3>5, <3>6, <3>7 DEF AckParts
  <2> QED
    BY <2>4, <2>5
<1> QED
  BY <1>2, <1>3

-----------------------------------------------------------------------------
(* Steps that execute a request.                                           *)

\* What is executed has not been answered, so no answer becomes wrong.
LEMMA TriedKeepsAcks ==
  ASSUME AckInv, pc \in ChaosStages \cup ResetStages, UNCHANGED Requested,
         NEW w, tried' = [tried EXCEPT ![cur][dir] = w]
  PROVE  AcksAreCurrent'
<1>1. cur \in Held /\ cur \in Pods /\ dir \in Dirs
  BY InTurn, AckTypes DEF TurnStages
<1>2. ann[cur][dir].done # "yes"
  BY <1>1 DEF AckInv, WorksOnDue, UnansweredYet
<1>3. \A p \in Pods, d \in Dirs : p # cur \/ d # dir => tried'[p][d] = tried[p][d]
  BY <1>1, AckTypes
<1> QED
  BY <1>2, <1>3 DEF AckInv, AcksAreCurrent, Requested

\* A direction is left when it has been executed as listed, or cleared.
LEMMA LeaveKeepsAck ==
  ASSUME AckInv, pc \in ChaosStages \cup ResetStages, UNCHANGED <<Requested, Copies>>, Leave,
         AcksAreCurrent',
         \A d \in Dirs \ {dir} : tried'[cur][d] = tried[cur][d],
         \/ NeedClear(snap[cur][dir])
         \/ tried'[cur][dir] = snap[cur][dir].info
  PROVE  AckParts'
<1>1. cur \in Held /\ cur \in Pods /\ dir \in Dirs
  BY InTurn, AckTypes DEF TurnStages
<1>2. CopiesAreCurrent' /\ WaitingIsAsked' /\ UnansweredYet'
  BY DEF AckInv, CopiesAreCurrent, WaitingIsAsked, UnansweredYet, Held, Requested, Copies
<1>3. \/ /\ dir = "ingress" /\ dir' = "egress" /\ NeedUpdate(snap[cur]["egress"])
         /\ pc' = IF NeedClear(snap[cur]["egress"]) THEN "unmirror" ELSE "reconcile"
      \/ /\ pc' = "update" /\ (dir = "ingress" => ~NeedUpdate(snap[cur]["egress"]))
  BY DEF Leave, Begin, Updated, Dirs
<1>4. TurnsAreDue'
  BY <1>3 DEF AckInv, TurnsAreDue, PodStages, ClearStages, ChaosStages, ResetStages, Copies
<1>5. WorksOnDue'
  BY <1>3 DEF WorksOnDue, ChaosStages, ResetStages, Copies
<1>6. Executed'
  <2>1. ASSUME phase[cur] \in Live, dir = "egress", NeedUpdate(snap[cur]["ingress"]),
               ~NeedClear(snap[cur]["ingress"])
        PROVE  tried'[cur]["ingress"] = snap[cur]["ingress"].info
    BY <2>1 DEF AckInv, Executed, Dirs
  <2>2. UNCHANGED <<phase, snap, cur>>
    BY DEF Requested, Copies
  <2>3. CASE dir = "ingress"
    BY <1>3, <2>2, <2>3 DEF Executed, Dirs
  <2>4. CASE dir = "egress"
    BY <1>3, <2>1, <2>2, <2>4 DEF Executed, Dirs
  <2> QED
    BY <1>1, <2>3, <2>4 DEF Dirs
<1> QED
  BY <1>2, <1>4, <1>5, <1>6 DEF AckParts

LEMMA RateKeepsAck ==
  ASSUME AckInv, Rate \/ SetNetem
  PROVE  AckParts'
<1>1. /\ pc \in ChaosStages /\ UNCHANGED <<Requested, Copies>>
  BY DEF Rate, SetNetem, On, At, ChaosStages, clusterVars, heldVars, Requested, Copies
<1>2. CASE UNCHANGED tried /\ pc' = "netem" /\ dir' = dir
  BY <1>1, <1>2, StretchKeepsAck DEF ChaosStages
<1>3. CASE Leave /\ tried' = [tried EXCEPT ![cur][dir] = Setting]
  <2>1. cur \in Pods /\ dir \in Dirs
    BY <1>1, InTurn, AckTypes DEF TurnStages
  <2>2. /\ tried'[cur][dir] = snap[cur][dir].info
        /\ \A d \in Dirs \ {dir} : tried'[cur][d] = tried[cur][d]
    BY <1>3, <2>1, AckTypes DEF Setting
  <2>3. AcksAreCurrent'
    BY <1>1, <1>3, TriedKeepsAcks
  <2> QED
    BY <1>1, <1>3, <2>2, <2>3, LeaveKeepsAck
<1>4. CASE Rate
  BY <1>2, <1>3, <1>4 DEF Rate, Exec, Run, Goto
<1>5. CASE SetNetem
  BY <1>3, <1>5 DEF SetNetem, Exec, Run
<1> QED
  BY <1>4, <1>5

LEMMA UnmirrorKeepsAck ==
  ASSUME AckInv, Unmirror
  PROVE  AckParts'
<1>1. /\ pc = "unmirror" /\ pc' = "resetFilter" /\ dir' = dir /\ UNCHANGED <<Requested, Copies>>
      /\ tried' = [tried EXCEPT ![cur][dir] = "clear"]
  BY DEF Unmirror, Exec, Run, Goto, On, At, clusterVars, heldVars, Requested, Copies
<1>2. AcksAreCurrent'
  BY <1>1, TriedKeepsAcks DEF ResetStages
<1>3. CopiesAreCurrent' /\ WaitingIsAsked' /\ UnansweredYet' /\ TurnsAreDue' /\ WorksOnDue'
  BY <1>1 DEF AckInv, CopiesAreCurrent, WaitingIsAsked, UnansweredYet, TurnsAreDue, WorksOnDue,
              PodStages, ClearStages, ChaosStages, ResetStages, Held, Requested, Copies
<1>4. Executed'
  <2>1. cur \in Pods /\ dir \in Dirs
    BY <1>1, InTurn, AckTypes DEF TurnStages, ResetStages
  <2>2. \A d \in Dirs \ {dir} : tried'[cur][d] = tried[cur][d]
    BY <1>1, <2>1, AckTypes
  <2> QED
    BY <1>1, <2>2 DEF AckInv, Executed, ResetStages, Requested, Copies, Dirs
<1> QED
  BY <1>2, <1>3, <1>4 DEF AckParts

LEMMA ResetKeepsAck ==
  ASSUME AckInv, ResetFilter \/ ResetClass
  PROVE  AckParts'
<1>1. pc \in ResetStages /\ UNCHANGED <<Requested, Copies, tried>>
  BY DEF ResetFilter, ResetClass, On, At, ResetStages, clusterVars, heldVars, Requested, Copies
<1>2. CASE pc' = "resetClass" /\ dir' = dir
  BY <1>1, <1>2, StretchKeepsAck DEF ResetStages
<1>3. CASE Leave
  <2>1. NeedClear(snap[cur][dir]) /\ AcksAreCurrent'
    BY <1>1 DEF AckInv, WorksOnDue, AcksAreCurrent, Requested
  <2> QED
    BY <1>1, <1>3, <2>1, LeaveKeepsAck
<1> QED
  BY <1>2, <1>3 DEF ResetFilter, ResetClass, Exec, Run

-----------------------------------------------------------------------------
(* The answer.                                                             *)

\* Every annotation is what it was, or it is gone, or the agent has executed
\* what it says.
LEMMA AnswerIsTrue ==
  ASSUME AckInv, Update \/ ClearUpdate, NEW d \in Dirs
  PROVE  \/ ann'[cur][d] = ann[cur][d]
         \/ ann'[cur][d] = NoAnnotation
         \/ /\ ann'[cur][d] = [ann[cur][d] EXCEPT !.done = "yes"]
            /\ NeedUpdate(ann[cur][d])
            /\ NeedClear(ann[cur][d]) \/ tried[cur][d] = ann[cur][d].info
<1>1. cur \in Held /\ cur \in Pods
  BY InTurn DEF Update, ClearUpdate, TurnStages
<1>2. CASE UNCHANGED ann
  BY <1>2
<1>3. CASE UpdateAccepted /\ Update
                /\ ann' = [ann EXCEPT ![cur] =
                     SetPodChaosUpdated(snap[cur], Updated(snap[cur]), Cleared(snap[cur]))]
  <2>1. pc = "update" /\ phase[cur] \in Live /\ snap[cur] = ann[cur]
    BY <1>1, <1>3 DEF Update, UpdateAccepted, AckInv, CopiesAreCurrent
  <2>2. ann'[cur] = SetPodChaosUpdated(ann[cur], Updated(ann[cur]), Cleared(ann[cur]))
    BY <1>1, <1>3, <2>1, AckTypes
  <2>3. CASE d \in Cleared(ann[cur])
    BY <1>1, <2>2, <2>3, AckTypes DEF SetPodChaosUpdated
  <2>4. CASE d \in Updated(ann[cur]) \ Cleared(ann[cur])
    <3>1. NeedUpdate(ann[cur][d]) /\ ~NeedClear(ann[cur][d])
      BY <2>4 DEF Updated, Cleared
    <3>2. tried[cur][d] = ann[cur][d].info
      BY <2>1, <3>1 DEF AckInv, Executed
    <3>3. ann'[cur][d] = [ann[cur][d] EXCEPT !.done = "yes"]
      BY <1>1, <2>2, <2>4, AckTypes DEF SetPodChaosUpdated
    <3> QED
      BY <3>1, <3>2, <3>3
  <2>5. CASE d \notin Updated(ann[cur]) \cup Cleared(ann[cur])
    BY <1>1, <2>2, <2>5, AckTypes DEF SetPodChaosUpdated
  <2> QED
    BY <2>3, <2>4, <2>5
<1>4. CASE ClearUpdate /\ ann' = [ann EXCEPT ![cur] = SetPodChaosUpdated(snap[cur], {}, Dirs)]
  BY <1>1, <1>4, AckTypes DEF SetPodChaosUpdated
<1> QED
  BY <1>2, <1>3, <1>4 DEF Update, ClearUpdate, UpdateStatus

LEMMA AnswerKeepsAck ==
  ASSUME AckInv, Update \/ ClearUpdate
  PROVE  AckParts'
<1>1. /\ cur \in Held /\ cur \in Pods
      /\ pc \in {"update", "clearUpdate"} /\ pc' = (IF pc = "update" THEN "pod" ELSE "clearPod")
  BY InTurn DEF Update, ClearUpdate, UpdateStatus, NextPod, TurnStages
<1>2. /\ UNCHANGED <<phase, asked, tried>> /\ cur' = NoPod
      /\ todo' = todo \ {cur} /\ stale' = stale \ {cur}
      /\ snap' = [snap EXCEPT ![cur] = Unannotated]
  BY DEF Update, ClearUpdate, UpdateStatus, NextPod
<1>3. \A p \in Pods \ {cur} : ann'[p] = ann[p] /\ snap'[p] = snap[p]
  BY <1>1, <1>2, AckTypes DEF Update, ClearUpdate, UpdateStatus
<1>4. Held' = Held \ {cur}
  BY <1>1, <1>2, AckTypes DEF Held
<1>5. \A p \in Held' : p \in Held /\ p \in Pods \ {cur}
  BY <1>4 DEF Held
<1>6. TurnsAreDue'
  <2>1. \A p \in todo' : p \in Pods \ {cur} /\ p \in todo
    BY <1>2, AckTypes
  <2> QED
    BY <1>1, <1>2, <1>3, <2>1 DEF AckInv, TurnsAreDue, PodStages, ClearStages
<1>7. CopiesAreCurrent' /\ UnansweredYet'
  BY <1>2, <1>3, <1>5 DEF AckInv, CopiesAreCurrent, UnansweredYet
<1>8. WorksOnDue' /\ Executed'
  BY <1>1 DEF WorksOnDue, Executed, ChaosStages, ResetStages
<1>9. ASSUME NEW p \in Pods, NEW d \in Dirs
      PROVE  /\ NeedUpdate(ann'[p][d]) /\ ~NeedClear(ann'[p][d]) => asked[p][d] = ann'[p][d].info
             /\ ann'[p][d].done = "yes" /\ ~NeedClear(ann'[p][d]) => tried[p][d] = asked[p][d]
  <2>1. CASE ann'[p][d] = ann[p][d]
    BY <2>1 DEF AckInv, WaitingIsAsked, AcksAreCurrent
  <2>2. CASE ann'[p][d] = NoAnnotation
    BY <2>2 DEF NoAnnotation, NeedUpdate
  <2>3. CASE /\ p = cur /\ ann'[p][d] = [ann[p][d] EXCEPT !.done = "yes"]
             /\ NeedUpdate(ann[p][d])
             /\ NeedClear(ann[p][d]) \/ tried[p][d] = ann[p][d].info
    <3>1. ann[p][d] \in Annotation
      BY AckTypes
    <3>2. ~NeedUpdate(ann'[p][d]) /\ NeedClear(ann'[p][d]) = NeedClear(ann[p][d])
      BY <2>3, <3>1 DEF NeedUpdate, NeedClear, Annotation
    <3> QED
      BY <2>3, <3>2 DEF AckInv, WaitingIsAsked
  <2> QED
    BY <1>3, <2>1, <2>2, <2>3, AnswerIsTrue
<1>10. WaitingIsAsked' /\ AcksAreCurrent'
  BY <1>2, <1>9 DEF WaitingIsAsked, AcksAreCurrent
<1> QED
  BY <1>6, <1>7, <1>8, <1>10 DEF AckParts

-----------------------------------------------------------------------------
(* The cluster.                                                            *)

\* Nothing that the agent holds a copy of comes to life, and what is written is
\* known to be.
LEMMA WorldKeepsAck ==
  ASSUME AckInv, UNCHANGED <<ann, asked, tried, todo, cur, snap, pc, dir>>, stale \subseteq stale',
         \A p \in Held : phase'[p] # "none" /\ (phase'[p] \in Live => phase[p] \in Live)
  PROVE  AckParts'
<1>1. Held' = Held
  BY DEF Held
<1>2. TurnsAreDue' /\ WaitingIsAsked' /\ UnansweredYet' /\ WorksOnDue' /\ AcksAreCurrent'
  BY <1>1 DEF AckInv, TurnsAreDue, WaitingIsAsked, UnansweredYet, WorksOnDue, AcksAreCurrent
<1>3. CopiesAreCurrent'
  BY <1>1 DEF AckInv, CopiesAreCurrent
<1>4. Executed'
  BY InTurn DEF AckInv, Executed, TurnStages
<1> QED
  BY <1>2, <1>3, <1>4 DEF AckParts

LEMMA LivesKeepAck ==
  ASSUME AckInv, NEW p \in Pods, CreatePod(p) \/ Wire(p) \/ AssignIP(p) \/ SetLabel(p)
  PROVE  AckParts'
<1>1. UNCHANGED <<ann, asked, tried, todo, cur, snap, pc, dir>> /\ stale \subseteq stale'
  BY DEF CreatePod, Wire, AssignIP, SetLabel, Touch, AroundAgent
<1>2. \/ UNCHANGED phase
      \/ \E new \in Live : phase' = [phase EXCEPT ![p] = new]
         /\ (phase[p] \in Live \/ phase[p] = "none")
  BY DEF CreatePod, Wire, AssignIP, SetLabel, Live
<1>3. \A q \in Held : phase[q] # "none" /\ q \in Pods
  BY DEF AckInv, CopiesAreCurrent, Held
<1>4. \A q \in Held : phase'[q] # "none" /\ (phase'[q] \in Live => phase[q] \in Live)
  BY <1>2, <1>3, AckTypes DEF Live
<1> QED
  BY <1>1, <1>4, WorldKeepsAck

LEMMA NodeKeepsAck ==
  ASSUME AckInv, UserClearNode \/ LabelNode \/ UNCHANGED vars
  PROVE  AckParts'
<1>1. UNCHANGED <<phase, ann, asked, tried, todo, cur, snap, stale, pc, dir>>
  <2>1. CASE UserClearNode \/ LabelNode
    BY <2>1 DEF UserClearNode, LabelNode, AroundAgent
  <2>2. CASE UNCHANGED vars
    BY <2>2 DEF vars, clusterVars, agentVars, heldVars
  <2> QED
    BY <2>1, <2>2
<1> QED
  BY <1>1, WorldKeepsAck DEF AckInv, CopiesAreCurrent

\* A pod that is gone has neither requests nor answers.
LEMMA DeletePodKeepsAck ==
  ASSUME AckInv, NEW p \in Pods, DeletePod(p)
  PROVE  AckParts'
<1>1. /\ UNCHANGED <<todo, cur, snap, stale, pc, dir>>
      /\ ann' = [ann EXCEPT ![p] = Unannotated]
      /\ phase' = [phase EXCEPT ![p] = "deleted"]
      /\ asked' = [asked EXCEPT ![p] = [d \in Dirs |-> NoInfo]]
      /\ tried' = [tried EXCEPT ![p] = [d \in Dirs |-> NoInfo]]
  BY DEF DeletePod, AroundAgent
<1>2. \A q \in Pods \ {p} : /\ ann'[q] = ann[q] /\ phase'[q] = phase[q]
                            /\ asked'[q] = asked[q] /\ tried'[q] = tried[q]
  BY <1>1, AckTypes
<1>3. /\ \A d \in Dirs : ann'[p][d] = NoAnnotation
      /\ phase'[p] = "deleted" /\ phase'[p] \notin Live
  BY <1>1, AckTypes DEF Unannotated, Live
<1>4. Held' = Held
  BY <1>1 DEF Held
<1>5. TurnsAreDue' /\ WorksOnDue'
  BY <1>1 DEF AckInv, TurnsAreDue, WorksOnDue
<1>6. CopiesAreCurrent' /\ UnansweredYet'
  BY <1>1, <1>2, <1>3, <1>4
     DEF AckInv, CopiesAreCurrent, UnansweredYet, NoAnnotation, Held
<1>7. WaitingIsAsked' /\ AcksAreCurrent'
  BY <1>1, <1>2, <1>3 DEF AckInv, WaitingIsAsked, AcksAreCurrent, NoAnnotation, NeedUpdate
<1>8. Executed'
  <2>1. ASSUME pc \in TurnStages, phase'[cur] \in Live PROVE cur \in Pods \ {p}
    BY <1>3, <2>1, InTurn
  <2> QED
    BY <1>1, <1>2, <2>1 DEF AckInv, Executed, TurnStages
<1> QED
  BY <1>5, <1>6, <1>7, <1>8 DEF AckParts

\* What users write is what they ask for, and the copy of the agent is stale.
LEMMA AnnotateKeepsAck ==
  ASSUME AckInv, NEW p \in Pods, NEW d \in Dirs, NEW a, NEW wish, Annotate(p, d, a, wish),
         NeedUpdate(a) /\ ~NeedClear(a) => wish = a.info,
         a.done = "yes" => ann[p][d].done = "yes" /\ NeedClear(a)
  PROVE  AckParts'
<1>1. /\ UNCHANGED <<phase, tried, todo, cur, snap, pc, dir>> /\ Touch(p)
      /\ ann' = [ann EXCEPT ![p][d] = a] /\ asked' = [asked EXCEPT ![p][d] = wish]
  BY DEF Annotate, AroundAgent
<1>2. /\ ann'[p][d] = a /\ asked'[p][d] = wish
      /\ \A q \in Pods, e \in Dirs :
           q # p \/ e # d => ann'[q][e] = ann[q][e] /\ asked'[q][e] = asked[q][e]
      /\ \A q \in Pods \ {p} : ann'[q] = ann[q]
  BY <1>1, AckTypes
<1>3. Held' = Held /\ (p \in Held => p \in stale') /\ stale \subseteq stale'
  BY <1>1 DEF Held, Touch
<1>4. TurnsAreDue' /\ WorksOnDue' /\ Executed'
  BY <1>1 DEF AckInv, TurnsAreDue, WorksOnDue, Executed
<1>5. CopiesAreCurrent'
  BY <1>1, <1>2, <1>3 DEF AckInv, CopiesAreCurrent, Held
<1>6. UnansweredYet'
  BY <1>1, <1>2, <1>3 DEF AckInv, UnansweredYet, Held
<1>7. WaitingIsAsked' /\ AcksAreCurrent'
  BY <1>1, <1>2 DEF AckInv, WaitingIsAsked, AcksAreCurrent
<1> QED
  BY <1>4, <1>5, <1>6, <1>7 DEF AckParts

LEMMA UserKeepsAck ==
  ASSUME AckInv, NEW p \in Pods, NEW d \in UserDirs,
         \/ \E i \in Infos : UserSet(p, d, i)
         \/ UserRetry(p, d) \/ UserClear(p, d) \/ UserClearOnly(p, d)
  PROVE  AckParts'
<1>1. d \in Dirs /\ ann[p][d] \in Annotation
  BY AckTypes, KubeChaosAssumption
<1>2. CASE \E i \in Infos : UserSet(p, d, i)
  <2>1. PICK i \in Infos : UserSet(p, d, i)
    BY <1>2
  <2> DEFINE a == [ann[p][d] EXCEPT !.info = i, !.done = "no"]
  <2>2. Annotate(p, d, a, i)
    BY <2>1 DEF UserSet
  <2>3. a.done = "no" /\ a.info = i
    BY <1>1 DEF Annotation
  <2> HIDE DEF a
  <2> QED
    BY <1>1, <2>2, <2>3, AnnotateKeepsAck
<1>3. CASE UserRetry(p, d)
  <2> DEFINE a == [ann[p][d] EXCEPT !.done = "no"]
             wish == IF ann[p][d].clear THEN asked[p][d] ELSE ann[p][d].info
  <2>1. Annotate(p, d, a, wish)
    BY <1>3 DEF UserRetry
  <2>2. a.done = "no" /\ (~NeedClear(a) => wish = a.info)
    BY <1>1 DEF Annotation, NeedClear
  <2> HIDE DEF a, wish
  <2> QED
    BY <1>1, <2>1, <2>2, AnnotateKeepsAck
<1>4. CASE UserClear(p, d)
  <2> DEFINE a == [ann[p][d] EXCEPT !.clear = TRUE, !.done = "no"]
  <2>1. Annotate(p, d, a, "clear")
    BY <1>4 DEF UserClear
  <2>2. a.done = "no" /\ NeedClear(a)
    BY <1>1 DEF Annotation, NeedClear
  <2> HIDE DEF a
  <2> QED
    BY <1>1, <2>1, <2>2, AnnotateKeepsAck
<1>5. CASE UserClearOnly(p, d)
  <2> DEFINE a == [ann[p][d] EXCEPT !.clear = TRUE]
  <2>1. Annotate(p, d, a, "clear") /\ ann[p][d].done = "yes"
    BY <1>5 DEF UserClearOnly
  <2>2. NeedClear(a)
    BY <1>1 DEF Annotation, NeedClear
  <2> HIDE DEF a
  <2> QED
    BY <1>1, <2>1, <2>2, AnnotateKeepsAck
<1> QED
  BY <1>2, <1>3, <1>4, <1>5

-----------------------------------------------------------------------------

LEMMA NextAck == AckInv /\ [Next]_vars => AckInv'
<1> SUFFICES ASSUME AckInv, [Next]_vars PROVE AckParts'
  BY NextType DEF AckInv, AckParts
<1>1. CASE Loop
  BY <1>1, SetUpKeepsAck, ListKeepsAck, TurnKeepsAck, ChaosKeepsAck, RateKeepsAck, UnmirrorKeepsAck,
     ResetKeepsAck, AnswerKeepsAck, SweepKeepsAck DEF Loop
<1>2. CASE Crash \/ Kill \/ Start
  <2>1. UNCHANGED <<Requested, tried>> /\ Forget /\ pc' \notin PodStages
    BY <1>2 DEF Crash, Kill, Start, Restart, clusterVars, Requested, PodStages
  <2> QED
    BY <2>1, ForgetKeepsAck
<1>3. CASE Cluster
  BY <1>3, LivesKeepAck, DeletePodKeepsAck, UserKeepsAck, NodeKeepsAck DEF Cluster
<1>4. CASE UNCHANGED vars
  BY <1>4, NodeKeepsAck
<1> QED
  BY <1>1, <1>2, <1>3, <1>4 DEF Next

LEMMA InitAck == Init => AckInv
<1> SUFFICES ASSUME Init PROVE AckInv
  OBVIOUS
<1>1. Held = {} /\ todo = {} /\ pc = "linkUp" /\ cur = NoPod
  BY KubeChaosAssumption DEF Init, Held
<1>2. \A p \in Pods, d \in Dirs : ann[p][d] = NoAnnotation
  BY DEF Init, Unannotated
<1>3. TypeInv
  BY InitType
<1>4. TurnsAreDue /\ CopiesAreCurrent /\ UnansweredYet /\ WorksOnDue /\ Executed
  BY <1>1 DEF TurnsAreDue, CopiesAreCurrent, UnansweredYet, WorksOnDue, Executed,
              PodStages, ChaosStages, ResetStages
<1>5. WaitingIsAsked /\ AcksAreCurrent
  BY <1>2 DEF WaitingIsAsked, AcksAreCurrent, NeedUpdate, NoAnnotation
<1> QED
  BY <1>3, <1>4, <1>5 DEF AckInv

\* "yes" is never said of a request that the agent has not executed, or of one
\* that users have replaced meanwhile, whatever fails and whenever the agent is
\* killed.
THEOREM AcknowledgedIsAsked == Spec => []AckIsCurrent
<1>1. AckInv => AckIsCurrent
  BY DEF AckInv, AcksAreCurrent, AckIsCurrent
<1> QED
  BY <1>1, InitAck, NextAck, PTL DEF Spec

-----------------------------------------------------------------------------
(* No setting is lost, where users do not set what they are still clearing *)
(* and do not clear the node.                                              *)

Careful == Disruptions \cap {"overlap", "nodeClear"} = {}

LEMMA ClearIsNoSetting ==
  ASSUME NEW i \in Infos
  PROVE  i # "clear" /\ i # NoInfo
BY KubeChaosAssumption, InfosAssumption

\* The node is never cleared.
LEMMA NodeStays ==
  ASSUME KeptInv, Careful, [Next]_vars
  PROVE  ~nodeClear' /\ pc' \notin ClearStages
<1>1. ~nodeClear /\ pc \notin ClearStages
  BY DEF KeptInv, ClearIsAsked
<1>2. TypeInv
  BY DEF KeptInv, AckInv
<1>3. CASE LinkUp \/ InitIfb \/ LinkDown \/ ResetIfb
  <2>1. UNCHANGED nodeClear
    BY <1>3 DEF LinkUp, InitIfb, LinkDown, ResetIfb, On, At, clusterVars
  <2>2. pc' \notin ClearStages
    BY <1>1, <1>3 DEF LinkUp, InitIfb, LinkDown, ResetIfb, Run, On, At, NextIfb, Leap, ClearStages
  <2> QED
    BY <1>1, <2>1, <2>2
<1>4. CASE List \/ StartSweep \/ ClearNode \/ \E p \in Pods : Pod(p) \/ ClearPod(p)
  BY <1>1, <1>4 DEF List, StartPass, StartSweep, ClearNode, Pod, ClearPod, GetWorkload, Begin,
                    Restart, Goto, On, At, clusterVars, ClearStages
<1>5. CASE Reconcile \/ Wipe \/ Unredirect \/ Redirect \/ AddFilter \/ AddClass
           \/ DelNetem \/ AddNetem
  <2>1. UNCHANGED nodeClear
    BY <1>5 DEF Reconcile, Wipe, Unredirect, Redirect, AddFilter, AddClass, DelNetem, AddNetem,
                On, At, clusterVars
  <2>2. pc' \notin ClearStages
    BY <1>5 DEF Reconcile, Wipe, Unredirect, Redirect, AddFilter, AddClass, DelNetem, AddNetem,
                Exec, Run, Goto, ClearStages
  <2> QED
    BY <1>1, <2>1, <2>2
<1>6. CASE Rate \/ SetNetem \/ Unmirror \/ ResetFilter \/ ResetClass \/ ClearMirroring
  <2>1. UNCHANGED nodeClear /\ pc # "clearMirroring"
    BY <1>1, <1>6 DEF Rate, SetNetem, Unmirror, ResetFilter, ResetClass, ClearMirroring,
                      On, At, clusterVars, ClearStages
  <2>2. CASE Leave
    BY <1>1, <1>2, <2>1, <2>2, LeaveType DEF ClearStages
  <2>3. CASE ~Leave
    BY <1>1, <1>6, <2>1, <2>3 DEF Rate, SetNetem, Unmirror, ResetFilter, ResetClass, ClearMirroring,
                            Exec, Run, Goto, On, At, ClearStages
  <2> QED
    BY <1>1, <2>1, <2>2, <2>3
<1>7. CASE Update \/ ClearUpdate \/ SweepFilter \/ SweepClass
  BY <1>1, <1>7 DEF Update, ClearUpdate, UpdateStatus, NextPod, SweepFilter, SweepClass, Run,
                    NextIfb, EndPass, At, clusterVars, ClearStages
<1>8. CASE Crash \/ Kill \/ Start \/ UNCHANGED vars
  BY <1>1, <1>8 DEF Crash, Kill, Start, Restart, clusterVars, vars, agentVars, ClearStages
<1>9. CASE Cluster
  <2>1. UNCHANGED pc
    BY <1>9, AroundChangesLittle
  <2>2. ~nodeClear'
    <3>1. CASE \E p \in Pods :
                 CreatePod(p) \/ Wire(p) \/ AssignIP(p) \/ DeletePod(p) \/ SetLabel(p)
      <4>1. UNCHANGED nodeClear
        BY <3>1 DEF CreatePod, Wire, AssignIP, DeletePod, SetLabel
      <4> QED
        BY <1>1, <4>1
    <3>2. CASE \E p \in Pods, d \in UserDirs :
                 \/ \E i \in Infos : UserSet(p, d, i)
                 \/ UserRetry(p, d) \/ UserClear(p, d) \/ UserClearOnly(p, d)
      BY <1>1, <3>2, UsersAnnotate
    <3>3. CASE UserClearNode \/ LabelNode
      BY <1>1, <3>3 DEF UserClearNode, LabelNode, Careful
    <3> QED
      BY <1>9, <3>1, <3>2, <3>3 DEF Cluster
  <2> QED
    BY <1>1, <2>1, <2>2
<1> QED
  BY <1>3, <1>4, <1>5, <1>6, <1>7, <1>8, <1>9 DEF Next, Loop

\* What is answered is kept, and a clear key goes only when that was asked for.
LEMMA AnswerKeepsSetting ==
  ASSUME KeptInv, Update, NEW p \in Pods, NEW d \in Dirs
  PROVE  /\ NeedClear(ann'[p][d]) => asked'[p][d] = "clear"
         /\ asked'[p][d] \in Infos => ann'[p][d].info = asked'[p][d]
<1>1. cur \in Held /\ cur \in Pods /\ AckInv
  BY InTurn DEF Update, TurnStages, KeptInv
<1>2. UNCHANGED asked /\ ann[p][d] \in Annotation
  BY <1>1, AckTypes DEF Update, UpdateStatus, NextPod
<1>3. CASE ann'[p][d] = ann[p][d]
  BY <1>2, <1>3 DEF KeptInv, ClearIsAsked, SettingKept
<1>4. CASE UpdateAccepted /\ p = cur
           /\ ann' = [ann EXCEPT ![cur] =
                SetPodChaosUpdated(snap[cur], Updated(snap[cur]), Cleared(snap[cur]))]
  <2>1. snap[cur] = ann[cur]
    BY <1>1, <1>4 DEF UpdateAccepted, AckInv, CopiesAreCurrent
  <2>2. CASE NeedClear(ann[p][d])
    <3>1. asked[p][d] = "clear" /\ ann'[p][d] = NoAnnotation
      BY <1>1, <1>4, <2>1, <2>2, AckTypes
         DEF SetPodChaosUpdated, Cleared, KeptInv, ClearIsAsked
    <3> QED
      BY <1>2, <3>1, ClearIsNoSetting
  <2>3. CASE ~NeedClear(ann[p][d])
    <3>1. ann'[p][d] \in {ann[p][d], [ann[p][d] EXCEPT !.done = "yes"]}
      BY <1>1, <1>4, <2>1, <2>3, AckTypes DEF SetPodChaosUpdated, Cleared
    <3>2. ~NeedClear(ann'[p][d]) /\ ann'[p][d].info = ann[p][d].info
      BY <1>2, <2>3, <3>1 DEF NeedClear, Annotation
    <3> QED
      BY <1>2, <3>2 DEF KeptInv, SettingKept
  <2> QED
    BY <2>2, <2>3
<1> QED
  BY <1>1, <1>3, <1>4, AckTypes DEF Update, UpdateStatus

LEMMA UserKeepsSetting ==
  ASSUME KeptInv, Careful, NEW q \in Pods, NEW e \in UserDirs,
         \/ \E i \in Infos : UserSet(q, e, i)
         \/ UserRetry(q, e) \/ UserClear(q, e) \/ UserClearOnly(q, e),
         NEW p \in Pods, NEW d \in Dirs
  PROVE  /\ NeedClear(ann'[p][d]) => asked'[p][d] = "clear"
         /\ asked'[p][d] \in Infos => ann'[p][d].info = asked'[p][d]
<1>1. /\ AckInv /\ ann[q][e] \in Annotation /\ e \in Dirs
      /\ ann[q][e].clear => asked[q][e] = "clear"
      /\ NeedClear(ann[p][d]) => asked[p][d] = "clear"
      /\ asked[p][d] \in Infos => ann[p][d].info = asked[p][d]
  BY AckTypes, KubeChaosAssumption DEF KeptInv, ClearIsAsked, SettingKept, NeedClear
<1>2. ASSUME NEW a, NEW wish, Annotate(q, e, a, wish),
             NeedClear(a) => wish = "clear", wish \in Infos => a.info = wish
      PROVE  /\ NeedClear(ann'[p][d]) => asked'[p][d] = "clear"
             /\ asked'[p][d] \in Infos => ann'[p][d].info = asked'[p][d]
  <2>1. ann' = [ann EXCEPT ![q][e] = a] /\ asked' = [asked EXCEPT ![q][e] = wish]
    BY <1>2 DEF Annotate
  <2>2. CASE p = q /\ d = e
    BY <1>1, <1>2, <2>1, <2>2, AckTypes
  <2>3. CASE p # q \/ d # e
    BY <1>1, <2>1, <2>3, AckTypes
  <2> QED
    BY <2>2, <2>3
<1>3. CASE \E i \in Infos : UserSet(q, e, i)
  <2>1. PICK i \in Infos : UserSet(q, e, i)
    BY <1>3
  <2> DEFINE a == [ann[q][e] EXCEPT !.info = i, !.done = "no"]
  <2>2. Annotate(q, e, a, i) /\ ~ann[q][e].clear
    BY <2>1 DEF UserSet, Careful
  <2>3. ~NeedClear(a) /\ a.info = i
    BY <1>1, <2>2 DEF Annotation, NeedClear
  <2> HIDE DEF a
  <2> QED
    BY <1>2, <2>2, <2>3
<1>4. CASE UserRetry(q, e)
  <2> DEFINE a == [ann[q][e] EXCEPT !.done = "no"]
             wish == IF ann[q][e].clear THEN asked[q][e] ELSE ann[q][e].info
  <2>1. Annotate(q, e, a, wish)
    BY <1>4 DEF UserRetry
  <2>2. (NeedClear(a) => wish = "clear") /\ (wish \in Infos => a.info = wish)
    BY <1>1, ClearIsNoSetting DEF Annotation, NeedClear
  <2> HIDE DEF a, wish
  <2> QED
    BY <1>2, <2>1, <2>2
<1>5. CASE UserClear(q, e)
  <2> DEFINE a == [ann[q][e] EXCEPT !.clear = TRUE, !.done = "no"]
  <2>1. Annotate(q, e, a, "clear")
    BY <1>5 DEF UserClear
  <2> HIDE DEF a
  <2> QED
    BY <1>2, <2>1, ClearIsNoSetting
<1>6. CASE UserClearOnly(q, e)
  <2> DEFINE a == [ann[q][e] EXCEPT !.clear = TRUE]
  <2>1. Annotate(q, e, a, "clear")
    BY <1>6 DEF UserClearOnly
  <2> HIDE DEF a
  <2> QED
    BY <1>2, <2>1, ClearIsNoSetting
<1> QED
  BY <1>3, <1>4, <1>5, <1>6

\* Only these steps and the deletion of a pod touch annotations and wishes.
LEMMA NextKept == KeptInv /\ Careful /\ [Next]_vars => KeptInv'
<1> SUFFICES ASSUME KeptInv, Careful, [Next]_vars
             PROVE  /\ ~nodeClear' /\ pc' \notin ClearStages
                    /\ \A p \in Pods, d \in Dirs :
                         /\ NeedClear(ann'[p][d]) => asked'[p][d] = "clear"
                         /\ asked'[p][d] \in Infos => ann'[p][d].info = asked'[p][d]
  BY NextAck DEF KeptInv, ClearIsAsked, SettingKept
<1>1. ~nodeClear' /\ pc' \notin ClearStages
  BY NodeStays
<1>2. CASE UNCHANGED <<ann, asked>>
  BY <1>1, <1>2 DEF KeptInv, ClearIsAsked, SettingKept
<1>3. CASE Update
  BY <1>1, <1>3, AnswerKeepsSetting
<1>4. CASE \E q \in Pods, e \in UserDirs :
             \/ \E i \in Infos : UserSet(q, e, i)
             \/ UserRetry(q, e) \/ UserClear(q, e) \/ UserClearOnly(q, e)
  BY <1>1, <1>4, UserKeepsSetting
<1>5. CASE \E q \in Pods : DeletePod(q)
  <2>1. PICK q \in Pods : DeletePod(q)
    BY <1>5
  <2>2. /\ ann' = [ann EXCEPT ![q] = Unannotated]
        /\ asked' = [asked EXCEPT ![q] = [d \in Dirs |-> NoInfo]]
    BY <2>1 DEF DeletePod
  <2>3. AckInv
    BY DEF KeptInv
  <2>4. ASSUME NEW d \in Dirs PROVE ~NeedClear(ann'[q][d]) /\ asked'[q][d] \notin Infos
    BY <2>2, <2>3, AckTypes, InfosAssumption DEF Unannotated, NoAnnotation, NeedClear
  <2>5. \A p \in Pods \ {q} : ann'[p] = ann[p] /\ asked'[p] = asked[p]
    BY <2>2, <2>3, AckTypes
  <2> QED
    BY <1>1, <2>4, <2>5 DEF KeptInv, ClearIsAsked, SettingKept
<1>6. CASE Loop /\ ~Update
  <2>1. pc \notin ClearStages
    BY DEF KeptInv, ClearIsAsked
  <2>2. UNCHANGED <<ann, asked>>
    <3>1. CASE LinkUp \/ InitIfb \/ LinkDown \/ ResetIfb
      BY <3>1 DEF LinkUp, InitIfb, LinkDown, ResetIfb, On, At, clusterVars
    <3>2. CASE List \/ StartSweep \/ ClearNode \/ \E p \in Pods : Pod(p) \/ ClearPod(p)
      BY <3>2 DEF List, StartSweep, ClearNode, Pod, ClearPod, On, At, clusterVars
    <3>3. CASE Reconcile \/ Wipe \/ Unredirect \/ Redirect \/ AddFilter \/ AddClass
               \/ DelNetem \/ AddNetem \/ Rate \/ SetNetem
      BY <3>3 DEF Reconcile, Wipe, Unredirect, Redirect, AddFilter, AddClass, DelNetem, AddNetem,
                  Rate, SetNetem, On, At, clusterVars
    <3>4. CASE Unmirror \/ ResetFilter \/ ResetClass \/ ClearMirroring \/ SweepFilter \/ SweepClass
      BY <3>4 DEF Unmirror, ResetFilter, ResetClass, ClearMirroring, SweepFilter, SweepClass,
                  On, At, clusterVars
    <3>5. ~ClearUpdate
      BY <2>1 DEF ClearUpdate, ClearStages
    <3> QED
      BY <1>6, <3>1, <3>2, <3>3, <3>4, <3>5 DEF Loop
  <2> QED
    BY <1>2, <2>2
<1>7. CASE \/ Crash \/ Kill \/ Start \/ UNCHANGED vars \/ UserClearNode \/ LabelNode
           \/ \E q \in Pods : CreatePod(q) \/ Wire(q) \/ AssignIP(q) \/ SetLabel(q)
  <2>1. UNCHANGED <<ann, asked>>
    BY <1>7 DEF Crash, Kill, Start, vars, clusterVars, UserClearNode, LabelNode,
                CreatePod, Wire, AssignIP, SetLabel
  <2> QED
    BY <1>2, <2>1
<1> QED
  BY <1>3, <1>4, <1>5, <1>6, <1>7 DEF Next, Cluster

LEMMA InitKept == Init => KeptInv
<1> SUFFICES ASSUME Init PROVE ClearIsAsked /\ SettingKept
  BY InitAck DEF KeptInv
<1>1. \A p \in Pods, d \in Dirs : ann[p][d] = NoAnnotation /\ asked[p][d] = NoInfo
  BY DEF Init, Unannotated
<1>2. ~nodeClear /\ pc = "linkUp"
  BY DEF Init
<1> QED
  BY <1>1, <1>2, InfosAssumption
     DEF ClearIsAsked, SettingKept, ClearStages, NeedClear, NoAnnotation

\* A setting that users asked for last is in the annotations until they ask for
\* its end, whatever fails.
THEOREM SettingsAreKept == Careful => (Spec => []SettingKept)
<1> SUFFICES ASSUME Careful PROVE Spec => []SettingKept
  OBVIOUS
<1>1. KeptInv /\ [Next]_vars => KeptInv'
  BY NextKept
<1>2. KeptInv => SettingKept
  BY DEF KeptInv
<1> QED
  BY <1>1, <1>2, InitKept, PTL DEF Spec

-----------------------------------------------------------------------------
(* Every pass ends.                                                        *)

\* Only finitely many pods are listed and filters added so far.
FiniteInv ==
  /\ TypeInv
  /\ IsFiniteSet(labelled) /\ IsFiniteSet(todo)
  /\ \A d \in Dirs : IsFiniteSet(filters[d])

\* The steps ahead in each stage, one by one.
LEMMA Places ==
  /\ AheadOf["reconcile"] = 16 /\ AheadOf["wipe"] = 15 /\ AheadOf["unredirect"] = 14
  /\ AheadOf["redirect"] = 13 /\ AheadOf["addFilter"] = 12 /\ AheadOf["addClass"] = 9
  /\ AheadOf["delNetem"] = 8 /\ AheadOf["addNetem"] = 7 /\ AheadOf["rate"] = 6
  /\ AheadOf["netem"] = 5 /\ AheadOf["unmirror"] = 7 /\ AheadOf["resetFilter"] = 6
  /\ AheadOf["resetClass"] = 5 /\ AheadOf["update"] = 4 /\ AheadOf["pod"] = 3
  /\ AheadOf["sweepClass"] = 2 /\ AheadOf["sweepFilter"] = 1 /\ AheadOf["linkDown"] = 6
  /\ AheadOf["resetIfb"] = 4 /\ AheadOf["clearPod"] = 3 /\ AheadOf["clearMirroring"] = 5
  /\ AheadOf["clearUpdate"] = 4
BY DEF AheadOf

LEMMA Counts ==
  FiniteInv =>
    /\ PodsAhead \in Nat /\ FilterCount \in Nat /\ OtherDirection \in Nat
    /\ InPass => AheadOf[pc] \in Nat
<1> SUFFICES ASSUME FiniteInv
             PROVE  /\ PodsAhead \in Nat /\ FilterCount \in Nat /\ OtherDirection \in Nat
                    /\ InPass => AheadOf[pc] \in Nat
  OBVIOUS
<1>1. IsFiniteSet(todo \ {cur}) /\ IsFiniteSet(filters["egress"]) /\ IsFiniteSet(filters["ingress"])
  BY FS_RemoveElement DEF FiniteInv, Dirs
<1>2. PodsAhead \in Nat /\ FilterCount \in Nat
  BY <1>1, FS_CardinalityType DEF PodsAhead, FilterCount
<1>3. pc \in Stages
  BY AgentTypes DEF FiniteInv
<1>4. InPass => AheadOf[pc] \in Nat
  BY <1>3, Places DEF InPass, Stages
<1> QED
  BY <1>2, <1>4 DEF OtherDirection

LEMMA InitFinite == Init => FiniteInv
BY InitType, FS_EmptySet DEF Init, TcInit, FiniteInv

LEMMA StaysFinite ==
  ASSUME NEW S, IsFiniteSet(S), NEW x, NEW T, T \subseteq S \cup {x}
  PROVE  IsFiniteSet(T)
BY FS_AddElement, FS_Subset

\* A pod is labelled at a time.
LEMMA LabelsGrowByOne ==
  ASSUME [Next]_vars
  PROVE  \E p : labelled' \subseteq labelled \cup {p}
<1>1. CASE UNCHANGED labelled
  BY <1>1
<1>2. CASE Loop
  <2>1. UNCHANGED labelled
    BY <1>2 DEF Loop, LinkUp, InitIfb, List, Pod, Reconcile, Wipe, Unredirect, Redirect,
         AddFilter, AddClass, DelNetem, AddNetem, Rate, SetNetem, Unmirror, ResetFilter,
         ResetClass, Update, StartSweep, SweepFilter, SweepClass, LinkDown, ResetIfb,
         ClearPod, ClearMirroring, ClearUpdate, ClearNode, UpdateStatus, NextPod,
         On, At, clusterVars
  <2> QED
    BY <2>1, <1>1
<1>3. CASE Crash \/ Kill \/ Start
  BY <1>1, <1>3 DEF Crash, Kill, Start, clusterVars
<1>4. CASE \E p \in Pods : CreatePod(p) \/ Wire(p) \/ AssignIP(p) \/ DeletePod(p) \/ SetLabel(p)
  BY <1>4 DEF CreatePod, Wire, AssignIP, DeletePod, SetLabel
<1>5. CASE \E p \in Pods, d \in UserDirs :
             \/ \E i \in Infos : UserSet(p, d, i)
             \/ UserRetry(p, d) \/ UserClear(p, d) \/ UserClearOnly(p, d)
  BY <1>1, <1>5, UsersAnnotate
<1>6. CASE UserClearNode \/ LabelNode
  BY <1>1, <1>6 DEF UserClearNode, LabelNode
<1>7. CASE UNCHANGED vars
  BY <1>1, <1>7 DEF vars, clusterVars
<1> QED
  BY <1>2, <1>3, <1>4, <1>5, <1>6, <1>7 DEF Next, Cluster

\* What the pass has to process is what was listed.
LEMMA TodoIsListed ==
  ASSUME [Next]_vars
  PROVE  todo' \subseteq todo \/ todo' \subseteq labelled
<1>1. CASE UNCHANGED todo
  BY <1>1
<1>2. CASE List
  <2>1. PICK items \in {Selected, {}}, clear \in {nodeClear, FALSE} : StartPass(items, clear)
    BY <1>2 DEF List
  <2> QED
    BY <2>1 DEF StartPass, Selected
<1>3. CASE Restart \/ EndPass \/ Forget
  BY <1>3 DEF Restart, EndPass, Forget
<1>4. CASE Loop
  <2>1. UNCHANGED heldVars => UNCHANGED todo
    BY DEF heldVars
  <2>2. CASE Update \/ ClearUpdate
    BY <2>2 DEF Update, ClearUpdate, UpdateStatus, NextPod
  <2>3. CASE \E p \in Pods : Pod(p) \/ ClearPod(p)
    BY <1>1, <1>3, <2>3 DEF Pod, ClearPod, GetWorkload
  <2>4. CASE SweepFilter \/ SweepClass
    BY <1>1, <1>3, <2>1, <2>4 DEF SweepFilter, SweepClass, Run
  <2> QED
    BY <1>1, <1>2, <1>4, <2>1, <2>2, <2>3, <2>4
       DEF Loop, LinkUp, InitIfb, Reconcile, Wipe, Unredirect, Redirect, AddFilter, AddClass,
           DelNetem, AddNetem, Rate, SetNetem, Unmirror, ResetFilter, ResetClass, StartSweep,
           LinkDown, ResetIfb, ClearMirroring, ClearNode, On
<1>5. CASE Crash \/ Kill \/ Start
  BY <1>3, <1>5 DEF Crash, Kill, Start
<1>6. CASE Cluster \/ UNCHANGED vars
  BY <1>1, <1>6, AroundKeepsPlace
<1> QED
  BY <1>4, <1>5, <1>6 DEF Next

LEMMA FiltersGrowByOne ==
  ASSUME TypeInv, [Next]_vars, NEW d \in Dirs
  PROVE  \E f : filters'[d] \subseteq filters[d] \cup {f}
<1>1. CASE filters'[d] \subseteq filters[d]
  BY <1>1
<1>2. CASE AddFilter /\ ~UNCHANGED filters
  <2>1. PICK n \in ClassIds, h \in Handles :
          filters' = [filters EXCEPT ![dir] =
            @ \cup {[cidr |-> AddressOf[cur], flowid |-> n, handle |-> h]}]
    BY <1>2 DEF AddFilter, Run, FilterAdd, tcVars
  <2> QED
    BY <2>1, AgentTypes DEF TcTypeOK
<1>3. CASE Reconcile \/ Unredirect \/ Redirect \/ (AddFilter /\ UNCHANGED filters)
  BY <1>1, <1>3 DEF Reconcile, Unredirect, Redirect, Exec, Run, VethSet, tcVars
<1>4. CASE Wipe
  BY <1>1, <1>4, AgentTypes DEF Wipe, Run, FilterDelAll, TcTypeOK, tcVars
<1>5. CASE Quiet
  BY <1>1, <1>5 DEF Quiet
<1>6. CASE Cluster \/ UNCHANGED vars
  BY <1>1, <1>6, AroundChangesLittle
<1> QED
  BY <1>2, <1>3, <1>4, <1>5, <1>6, SetUpQuiet, PassQuiet, ChaosQuiet, RemovalQuiet, LifeQuiet
     DEF Next, Loop

LEMMA NextFinite == FiniteInv /\ [Next]_vars => FiniteInv'
<1> SUFFICES ASSUME FiniteInv, [Next]_vars PROVE FiniteInv'
  OBVIOUS
<1>1. TypeInv /\ TypeInv'
  BY NextType DEF FiniteInv
<1>2. IsFiniteSet(labelled')
  BY LabelsGrowByOne, StaysFinite DEF FiniteInv
<1>3. IsFiniteSet(todo')
  BY TodoIsListed, FS_Subset DEF FiniteInv
<1>4. \A d \in Dirs : IsFiniteSet(filters'[d])
  BY <1>1, FiltersGrowByOne, StaysFinite DEF FiniteInv
<1> QED
  BY <1>1, <1>2, <1>3, <1>4 DEF FiniteInv

\* A step of the agent that keeps the pods that are left.
LEMMA Smaller ==
  ASSUME FiniteInv, FiniteInv', InPass, InPass', PodsAhead' = PodsAhead,
         NEW k \in {0, 1}, FilterCount' <= FilterCount + k,
         AheadOf[pc'] + OtherDirection' + 2 * k < AheadOf[pc] + OtherDirection
  PROVE  StepsAhead' < StepsAhead
<1>1. /\ PodsAhead \in Nat /\ FilterCount \in Nat /\ OtherDirection \in Nat
      /\ AheadOf[pc] \in Nat
  BY Counts
<1>2. FiniteInv' => (/\ PodsAhead \in Nat /\ FilterCount \in Nat /\ OtherDirection \in Nat
                     /\ InPass => AheadOf[pc] \in Nat)'
  BY Counts, PTL
<1>3. /\ FilterCount' \in Nat /\ OtherDirection' \in Nat
      /\ AheadOf[pc'] \in Nat
  BY <1>2 DEF AheadOf
<1> QED
  BY <1>1, <1>2, <1>3 DEF StepsAhead

LEMMA FewerFilters ==
  ASSUME FiniteInv, \A d \in Dirs : filters'[d] \subseteq filters[d]
  PROVE  FilterCount' <= FilterCount
<1>1. "egress" \in Dirs /\ "ingress" \in Dirs
  BY DEF Dirs
<1>2. ASSUME NEW d \in Dirs
      PROVE  /\ Cardinality(filters'[d]) \in Nat /\ Cardinality(filters[d]) \in Nat
             /\ Cardinality(filters'[d]) <= Cardinality(filters[d])
  BY FS_Subset, FS_CardinalityType DEF FiniteInv
<1> QED
  BY <1>1, <1>2 DEF FilterCount

LEMMA OneTableChanges ==
  ASSUME FiniteInv, NEW d \in Dirs, NEW S, Cardinality(S) \in Nat,
         filters' = [filters EXCEPT ![d] = S]
  PROVE  FilterCount' = FilterCount - Cardinality(filters[d]) + Cardinality(S)
<1>1. filters \in [Dirs -> SUBSET Filter]
  BY AgentTypes DEF FiniteInv, TcTypeOK
<1>2. Cardinality(filters["egress"]) \in Nat /\ Cardinality(filters["ingress"]) \in Nat
  BY FS_CardinalityType DEF FiniteInv, Dirs
<1>3. CASE d = "egress"
  <2>1. filters'["egress"] = S /\ filters'["ingress"] = filters["ingress"]
    BY <1>1, <1>3 DEF Dirs
  <2>2. FilterCount' = Cardinality(S) + Cardinality(filters["ingress"])
    BY <2>1 DEF FilterCount
  <2> QED
    BY <1>2, <1>3, <2>2 DEF FilterCount
<1>4. CASE d = "ingress"
  <2>1. filters'["ingress"] = S /\ filters'["egress"] = filters["egress"]
    BY <1>1, <1>4 DEF Dirs
  <2>2. FilterCount' = Cardinality(filters["egress"]) + Cardinality(S)
    BY <2>1 DEF FilterCount
  <2> QED
    BY <1>2, <1>4, <2>2 DEF FilterCount
<1> QED
  BY <1>3, <1>4 DEF Dirs

LEMMA OneFilterLess ==
  ASSUME FiniteInv, NEW f \in filters[dir], FilterDel(dir, f)
  PROVE  FilterCount' = FilterCount - 1
<1>1. dir \in Dirs /\ FilterCount \in Nat
  BY AgentTypes, Counts DEF FiniteInv
<1>2. Cardinality(filters[dir]) \in Nat
  BY <1>1, FS_CardinalityType DEF FiniteInv
<1>3. /\ Cardinality(filters[dir] \ {f}) \in Nat
      /\ Cardinality(filters[dir] \ {f}) = Cardinality(filters[dir]) - 1
  BY <1>1, FS_RemoveElement, FS_CardinalityType DEF FiniteInv
<1>4. filters' = [filters EXCEPT ![dir] = filters[dir] \ {f}]
  BY DEF FilterDel
<1>5. FilterCount' = FilterCount - Cardinality(filters[dir]) + Cardinality(filters[dir] \ {f})
  BY <1>1, <1>3, <1>4, OneTableChanges
<1> QED
  BY <1>1, <1>2, <1>3, <1>5

\* A set grows by one element at most.
LEMMA OneElementMore ==
  ASSUME NEW S, IsFiniteSet(S), NEW x
  PROVE  /\ Cardinality(S) \in Nat /\ Cardinality(S \cup {x}) \in Nat
         /\ Cardinality(S \cup {x}) <= Cardinality(S) + 1
<1>1. IsFiniteSet(S \cup {x})
  BY FS_AddElement
<1>2. Cardinality(S) \in Nat /\ Cardinality(S \cup {x}) \in Nat
  BY <1>1, FS_CardinalityType
<1>3. CASE x \in S
  <2>1. Cardinality(S \cup {x}) = Cardinality(S)
    BY <1>3, FS_AddElement
  <2> QED
    BY <1>2, <2>1
<1>4. CASE x \notin S
  <2>1. Cardinality(S \cup {x}) = Cardinality(S) + 1
    BY <1>4, FS_AddElement
  <2> QED
    BY <1>2, <2>1
<1> QED
  BY <1>2, <1>3, <1>4

LEMMA OneFilterMore ==
  ASSUME FiniteInv, NEW a, NEW c, FilterAdd(dir, a, c)
  PROVE  FilterCount' <= FilterCount + 1
<1>1. dir \in Dirs /\ FilterCount \in Nat
  BY AgentTypes, Counts DEF FiniteInv
<1>2. PICK f : filters' = [filters EXCEPT ![dir] = filters[dir] \cup {f}]
  BY DEF FilterAdd
<1>3. Cardinality(filters[dir]) \in Nat
  BY <1>1, FS_CardinalityType DEF FiniteInv
<1>4. /\ Cardinality(filters[dir] \cup {f}) \in Nat
      /\ Cardinality(filters[dir] \cup {f}) <= Cardinality(filters[dir]) + 1
  <2>1. IsFiniteSet(filters[dir])
    BY <1>1 DEF FiniteInv
  <2> QED
    BY <2>1, OneElementMore
<1>5. FilterCount' = FilterCount - Cardinality(filters[dir]) + Cardinality(filters[dir] \cup {f})
  BY <1>1, <1>2, <1>4, OneTableChanges
<1> QED
  BY <1>1, <1>3, <1>4, <1>5

\* The turn goes on with the other direction, or with the update.
LEMMA LeaveNearer ==
  ASSUME Leave, pc \in {"rate", "netem", "resetFilter", "resetClass"}
  PROVE  AheadOf[pc'] + OtherDirection' < AheadOf[pc] + OtherDirection
<1>1. AheadOf[pc] \in 5 .. 6 /\ OtherDirection = IF dir = "ingress" THEN 12 ELSE 0
  BY Places DEF OtherDirection
<1>2. CASE dir = "ingress" /\ dir' = "egress" /\ pc' \in {"reconcile", "unmirror"}
  <2>1. AheadOf[pc'] \in {7, 16} /\ OtherDirection' = 0
    BY <1>2, Places DEF OtherDirection
  <2> QED
    BY <1>1, <1>2, <2>1
<1>3. CASE pc' = "update" /\ dir' = dir
  <2>1. AheadOf[pc'] = 4 /\ OtherDirection' = OtherDirection
    BY <1>1, <1>3, Places DEF OtherDirection
  <2> QED
    BY <1>1, <2>1
<1> QED
  BY <1>2, <1>3 DEF Leave, Begin

\* A step within the turn of a pod, or of the walk over the devices, that comes
\* later in its code and adds no filter.
LEMMA OnwardNearer ==
  ASSUME FiniteInv, FiniteInv', InPass, InPass', UNCHANGED <<todo, cur>>,
         \A d \in Dirs : filters'[d] \subseteq filters[d],
         AheadOf[pc'] + OtherDirection' < AheadOf[pc] + OtherDirection
  PROVE  StepsAhead' < StepsAhead
<1>1. PodsAhead' = PodsAhead
  BY DEF PodsAhead
<1>2. /\ FilterCount \in Nat /\ OtherDirection \in Nat /\ AheadOf[pc] \in Nat
  BY Counts
<1>3. FiniteInv' => (FilterCount \in Nat /\ OtherDirection \in Nat /\ (InPass => AheadOf[pc] \in Nat))'
  BY Counts, PTL
<1>4. FilterCount' \in Nat /\ OtherDirection' \in Nat /\ AheadOf[pc'] \in Nat
  BY <1>3 DEF AheadOf
<1>5. /\ FilterCount' <= FilterCount + 0
      /\ AheadOf[pc'] + OtherDirection' + 2 * 0 < AheadOf[pc] + OtherDirection
  BY <1>2, <1>4, FewerFilters
<1> QED
  BY <1>1, <1>5, Smaller

\* The next stage of a turn in the same direction.
Onward ==
  /\ pc \in ChaosStages \cup ResetStages /\ pc' \in ChaosStages \cup ResetStages
  /\ dir' = dir /\ AheadOf[pc'] < AheadOf[pc]

LEMMA ChaosNearer ==
  ASSUME FiniteInv, FiniteInv',
         \/ Reconcile \/ Wipe \/ Unredirect \/ Redirect \/ AddClass
         \/ DelNetem \/ AddNetem \/ Rate \/ SetNetem
         \/ Unmirror \/ ResetFilter \/ ResetClass \/ ClearMirroring
  PROVE  StepsAhead' < StepsAhead
<1>1. UNCHANGED <<todo, cur>> /\ TypeInv /\ TcTypeOK /\ dir \in Dirs
  BY AgentTypes DEF FiniteInv, Reconcile, Wipe, Unredirect, Redirect, AddClass, DelNetem, AddNetem, Rate,
     SetNetem, Unmirror, ResetFilter, ResetClass, ClearMirroring, On, heldVars
<1>2. \A d \in Dirs : filters'[d] \subseteq filters[d]
  <2>1. CASE Reconcile \/ Unredirect \/ Redirect
    BY <2>1 DEF Reconcile, Unredirect, Redirect, Exec, Run, VethSet, tcVars
  <2>2. CASE Wipe
    BY <1>1, <2>2 DEF Wipe, Run, FilterDelAll, TcTypeOK, tcVars
  <2> QED
    BY <1>1, <2>1, <2>2, ChaosQuiet, RemovalQuiet DEF Quiet
<1>3. /\ InPass /\ InPass'
      /\ AheadOf[pc'] + OtherDirection' < AheadOf[pc] + OtherDirection
  <2>1. CASE Leave /\ pc \in {"rate", "netem", "resetFilter", "resetClass"}
    BY <1>1, <2>1, LeaveNearer, LeaveType DEF InPass, Stages
  <2>2. CASE ClearMirroring
    <3>1. /\ pc = "clearMirroring"
          /\ \/ dir = "ingress" /\ dir' = "egress" /\ pc' = pc
             \/ dir' = dir /\ pc' = "clearUpdate"
      BY <1>1, <2>2 DEF ClearMirroring, On, At, Exec, Run, Goto
    <3>2. AheadOf[pc] = 5 /\ AheadOf[pc'] \in {4, 5} /\ (pc' = "clearUpdate" => AheadOf[pc'] = 4)
      BY <3>1, Places
    <3>3. \/ OtherDirection' = 0 /\ OtherDirection = 12
          \/ OtherDirection' = OtherDirection /\ OtherDirection \in Nat /\ pc' = "clearUpdate"
      BY <3>1 DEF OtherDirection
    <3>4. InPass /\ InPass'
      BY <3>1 DEF InPass, Stages
    <3> QED
      BY <3>2, <3>3, <3>4
  <2>3. CASE Onward
    <3>1. OtherDirection' = OtherDirection /\ OtherDirection \in Nat
      BY <2>3 DEF Onward, OtherDirection, ChaosStages, ResetStages
    <3>2. AheadOf[pc] \in Nat /\ AheadOf[pc'] \in Nat
      BY <2>3, Places DEF Onward, ChaosStages, ResetStages
    <3> QED
      BY <2>3, <3>1, <3>2 DEF Onward, InPass, ChaosStages, ResetStages, Stages
  <2>4. CASE Reconcile \/ Wipe \/ Unredirect \/ Redirect
    <3>1. /\ dir' = dir
          /\ \/ pc = "reconcile" /\ pc' \in {"wipe", "unredirect", "delNetem"}
             \/ pc = "wipe" /\ pc' \in {"unredirect", "delNetem"}
             \/ pc = "unredirect" /\ pc' = "redirect"
             \/ pc = "redirect" /\ pc' \in {"addFilter", "delNetem"}
      BY <2>4 DEF Reconcile, Wipe, Unredirect, Redirect, On, At, Exec, Run, Goto
    <3>2. Onward
      BY <3>1, Places DEF Onward, ChaosStages
    <3> QED
      BY <2>3, <3>2
  <2>5. CASE AddClass \/ DelNetem \/ AddNetem \/ Unmirror
    <3>1. /\ dir' = dir
          /\ \/ pc = "addClass" /\ pc' = "delNetem"
             \/ pc = "delNetem" /\ pc' = "addNetem"
             \/ pc = "addNetem" /\ pc' = "rate"
             \/ pc = "unmirror" /\ pc' = "resetFilter"
      BY <2>5 DEF AddClass, DelNetem, AddNetem, Unmirror, On, At, Exec, Run, Goto
    <3>2. Onward
      BY <3>1, Places DEF Onward, ChaosStages, ResetStages
    <3> QED
      BY <2>3, <3>2
  <2>6. CASE Rate \/ SetNetem \/ ResetFilter \/ ResetClass
    <3>1. \/ Leave /\ pc \in {"rate", "netem", "resetFilter", "resetClass"}
          \/ Onward
      BY <2>6, Places
         DEF Rate, SetNetem, ResetFilter, ResetClass, On, At, Exec, Run, Goto, Onward,
             ChaosStages, ResetStages
    <3> QED
      BY <2>1, <2>3, <3>1
  <2> QED
    BY <2>2, <2>4, <2>5, <2>6
<1> QED
  BY <1>1, <1>2, <1>3, OnwardNearer

LEMMA AddFilterNearer ==
  ASSUME FiniteInv, FiniteInv', AddFilter
  PROVE  StepsAhead' < StepsAhead
<1>1. /\ pc = "addFilter" /\ dir' = dir /\ UNCHANGED <<todo, cur>>
      /\ \/ UNCHANGED filters /\ pc' = "delNetem"
         \/ pc' = "addClass" /\ \E n \in ClassIds : FilterAdd(dir, AddressOf[cur], n)
  BY DEF AddFilter, On, At, Run, Goto, heldVars, tcVars
<1>2. /\ InPass /\ InPass' /\ OtherDirection' = OtherDirection /\ PodsAhead' = PodsAhead
      /\ AheadOf[pc] = 12 /\ (pc' = "delNetem" => AheadOf[pc'] = 8)
      /\ (pc' = "addClass" => AheadOf[pc'] = 9)
  BY <1>1, Places DEF InPass, Stages, OtherDirection, PodsAhead
<1>3. OtherDirection \in Nat /\ FilterCount \in Nat
  BY Counts
<1>4. FilterCount' <= FilterCount + 1
  <2>1. CASE UNCHANGED filters
    <3>1. FilterCount' = FilterCount
      BY <2>1 DEF FilterCount
    <3> QED
      BY <1>3, <3>1
  <2> QED
    BY <1>1, <2>1, OneFilterMore
<1>5. AheadOf[pc'] + OtherDirection' + 2 * 1 < AheadOf[pc] + OtherDirection
  BY <1>1, <1>2, <1>3
<1> QED
  BY <1>2, <1>4, <1>5, Smaller

\* The sweep: a filter is deleted, or the walk goes on with the other device.
LEMMA SweepNearer ==
  ASSUME FiniteInv, FiniteInv', StartSweep \/ SweepFilter \/ SweepClass, InPass'
  PROVE  StepsAhead' < StepsAhead
<1>1. CASE StartSweep
  <2>1. /\ pc = "pod" /\ pc' = "sweepFilter" /\ dir' = dir /\ UNCHANGED <<todo, cur, filters>>
    BY <1>1 DEF StartSweep, On, At, Goto, heldVars, tcVars
  <2>2. /\ AheadOf[pc] = 3 /\ AheadOf[pc'] = 1 /\ InPass
        /\ OtherDirection' \in {0, 1} /\ OtherDirection \in {0, 12}
    BY <2>1, Places DEF OtherDirection, InPass, Stages
  <2> QED
    BY <2>1, <2>2, OnwardNearer
<1>2. CASE SweepClass
  <2>1. /\ pc = "sweepClass" /\ pc' = "sweepFilter" /\ dir' = dir /\ UNCHANGED <<todo, cur>>
        /\ \A d \in Dirs : filters'[d] \subseteq filters[d]
    BY <1>2, RemovalQuiet
       DEF SweepClass, At, Run, EndPass, InPass, heldVars, Quiet, FiniteInv
  <2>2. /\ AheadOf[pc] = 2 /\ AheadOf[pc'] = 1 /\ InPass
        /\ OtherDirection' = OtherDirection /\ OtherDirection \in {0, 1}
    BY <2>1, Places DEF OtherDirection, InPass, Stages
  <2> QED
    BY <2>1, <2>2, OnwardNearer
<1>3. CASE SweepFilter /\ UNCHANGED filters
  <2>1. /\ pc = "sweepFilter" /\ pc' = "sweepFilter" /\ dir = "egress" /\ dir' = "ingress"
        /\ UNCHANGED <<todo, cur>>
    <3>1. ~\E f \in Extra(dir) : FilterDel(dir, f)
      BY <1>3, AgentTypes DEF FilterDel, Extra, FiniteInv, TcTypeOK
    <3> QED
      BY <1>3, <3>1 DEF SweepFilter, At, NextIfb, EndPass, InPass, heldVars
  <2>2. AheadOf[pc'] = AheadOf[pc] /\ AheadOf[pc] = 1 /\ InPass
    BY <2>1, Places DEF InPass, Stages
  <2>3. OtherDirection' = 0 /\ OtherDirection = 1
    BY <2>1 DEF OtherDirection
  <2> QED
    BY <1>3, <2>1, <2>2, <2>3, OnwardNearer
<1>4. CASE SweepFilter /\ ~UNCHANGED filters
  <2>1. PICK f \in Extra(dir) : FilterDel(dir, f)
    BY <1>4 DEF SweepFilter, tcVars
  <2>2. /\ pc = "sweepFilter" /\ pc' = "sweepClass" /\ dir' = dir /\ UNCHANGED <<todo, cur>>
    BY <1>4 DEF SweepFilter, At, heldVars, tcVars
  <2>3. FilterCount' = FilterCount - 1
    BY <2>1, OneFilterLess DEF Extra
  <2>4. /\ AheadOf[pc'] = 2 /\ AheadOf[pc] = 1 /\ PodsAhead' = PodsAhead
        /\ OtherDirection' = OtherDirection
    BY <2>2, Places DEF OtherDirection, PodsAhead
  <2>5. FilterCount \in Nat /\ PodsAhead \in Nat /\ OtherDirection \in Nat
    BY Counts
  <2> QED
    BY <2>3, <2>4, <2>5 DEF StepsAhead
<1> QED
  BY <1>1, <1>2, <1>3, <1>4

\* The devices are taken down one after the other.
LEMMA TakeDownNearer ==
  ASSUME FiniteInv, FiniteInv', LinkDown \/ ResetIfb
  PROVE  StepsAhead' < StepsAhead
<1>1. \A d \in Dirs : filters'[d] \subseteq filters[d]
  BY SetUpQuiet DEF Quiet, FiniteInv
<1>2. /\ UNCHANGED <<todo, cur>> /\ pc \in {"linkDown", "resetIfb"}
      /\ \/ pc' = pc /\ dir = "egress" /\ dir' = "ingress"
         \/ pc = "linkDown" /\ pc' \in {"resetIfb", "clearPod"} /\ dir' = "egress"
         \/ pc' = "clearPod" /\ dir' = "egress"
  BY DEF LinkDown, ResetIfb, On, At, Run, NextIfb, Leap, heldVars
<1>3. InPass /\ InPass'
  BY <1>2 DEF InPass, Stages
<1>4. /\ pc = "linkDown" => AheadOf[pc] = 6
      /\ pc = "resetIfb" => AheadOf[pc] = 4
      /\ pc' = "linkDown" => AheadOf[pc'] = 6
      /\ pc' = "resetIfb" => AheadOf[pc'] = 4
      /\ pc' = "clearPod" => AheadOf[pc'] = 3
  BY Places
<1>5. /\ OtherDirection = IF dir = "egress" THEN 1 ELSE 0
      /\ pc' \in {"linkDown", "resetIfb"} => OtherDirection' = IF dir' = "egress" THEN 1 ELSE 0
      /\ pc' = "clearPod" /\ dir' = "egress" => OtherDirection' = 0
  BY <1>2 DEF OtherDirection
<1>6. AheadOf[pc'] + OtherDirection' < AheadOf[pc] + OtherDirection
  BY <1>2, <1>4, <1>5
<1> QED
  BY <1>1, <1>2, <1>3, <1>6, OnwardNearer

\* The turn of a pod begins.
LEMMA TurnNearer ==
  ASSUME FiniteInv, FiniteInv', TurnsAreDue, NEW p \in Pods, Pod(p) \/ ClearPod(p), InPass'
  PROVE  StepsAhead' < StepsAhead
<1>1. /\ p \in todo /\ cur' = p /\ UNCHANGED <<todo, filters>>
      /\ \/ pc = "pod" /\ pc' \in {"reconcile", "unmirror"}
         \/ pc = "clearPod" /\ pc' = "clearMirroring"
  BY DEF Pod, ClearPod, GetWorkload, Begin, Restart, At, InPass, tcVars
<1>2. cur = NoPod /\ cur \notin todo
  BY <1>1, AgentTypes, KubeChaosAssumption
     DEF TurnsAreDue, PodStages, FiniteInv, TypeInv, TypeOK, AgentTypeOK
<1>3. PodsAhead = Cardinality(todo) /\ PodsAhead' = Cardinality(todo \ {p})
  <2>1. todo \ {cur} = todo
    BY <1>2
  <2> QED
    BY <1>1, <2>1 DEF PodsAhead
<1>4. PodsAhead \in Nat /\ PodsAhead' = PodsAhead - 1
  BY <1>1, <1>3, Counts, FS_RemoveElement DEF FiniteInv
<1>5. FilterCount' = FilterCount /\ FilterCount \in Nat
  BY <1>1, Counts DEF FilterCount
<1>6. AheadOf[pc] = 3 /\ AheadOf[pc'] \in {5, 7, 16}
  BY <1>1, Places
<1>7. OtherDirection \in Nat /\ OtherDirection' \in {0, 12}
  BY <1>1, Counts DEF OtherDirection
<1> QED
  BY <1>4, <1>5, <1>6, <1>7 DEF StepsAhead

\* The turn of a pod ends, be its update accepted or refused.
LEMMA UpdateNearer ==
  ASSUME FiniteInv, FiniteInv', Update \/ ClearUpdate
  PROVE  StepsAhead' < StepsAhead
<1>1. /\ todo' = todo \ {cur} /\ cur' = NoPod /\ UNCHANGED filters /\ dir' = "egress"
      /\ \/ pc = "update" /\ pc' = "pod"
         \/ pc = "clearUpdate" /\ pc' = "clearPod"
  BY DEF Update, ClearUpdate, UpdateStatus, NextPod, tcVars
<1>2. todo' \ {cur'} = todo \ {cur}
  BY <1>1, KubeChaosAssumption DEF FiniteInv, TypeInv, TypeOK, AgentTypeOK
<1>3. PodsAhead' = PodsAhead /\ PodsAhead \in Nat
  BY <1>2, Counts DEF PodsAhead
<1>4. FilterCount' = FilterCount /\ FilterCount \in Nat
  BY <1>1, Counts DEF FilterCount
<1>5. AheadOf[pc] = 4 /\ AheadOf[pc'] = 3
  BY <1>1, Places
<1>6. OtherDirection \in Nat /\ OtherDirection' = 0
  BY <1>1, Counts DEF OtherDirection
<1> QED
  BY <1>3, <1>4, <1>5, <1>6 DEF StepsAhead

LEMMA LoopNearer ==
  ASSUME FiniteInv, FiniteInv', TurnsAreDue, Loop, InPass, InPass'
  PROVE  StepsAhead' < StepsAhead
<1>1. ~(LinkUp \/ InitIfb \/ List \/ ClearNode)
  BY DEF LinkUp, InitIfb, List, ClearNode, On, At, Goto, InPass
<1> QED
  BY <1>1, ChaosNearer, AddFilterNearer, SweepNearer, TakeDownNearer, TurnNearer, UpdateNearer
     DEF Loop

\* Whatever fails in a pass and whatever users do during it, each step of the
\* agent brings its end nearer, by a count that starts with 26 for each pod to be
\* processed, 2 for each filter there is and at most 7 for the devices.
THEOREM PassesEnd == Spec => EveryPassEnds
<1> DEFINE Inv == AckInv /\ FiniteInv
<1>1. Init => Inv
  BY InitAck, InitFinite
<1>2. Inv /\ [Next]_vars => Inv'
  BY NextAck, NextFinite
<1>3. Inv /\ Inv' /\ [Next]_vars =>
        [InPass /\ InPass' =>
           StepsAhead' \in 0 .. StepsAhead /\ (Loop => StepsAhead' < StepsAhead)]_vars
  <2> SUFFICES ASSUME AckInv, FiniteInv, FiniteInv', [Next]_vars, InPass, InPass'
               PROVE  StepsAhead' \in 0 .. StepsAhead /\ (Loop => StepsAhead' < StepsAhead)
    OBVIOUS
  <2>1. FiniteInv' => (/\ PodsAhead \in Nat /\ FilterCount \in Nat /\ OtherDirection \in Nat
                       /\ InPass => AheadOf[pc] \in Nat)'
    BY Counts, PTL
  <2>2. /\ PodsAhead' \in Nat /\ FilterCount' \in Nat /\ OtherDirection' \in Nat
        /\ AheadOf[pc'] \in Nat
    BY <2>1 DEF AheadOf
  <2>3. StepsAhead' \in Nat /\ StepsAhead \in Nat
    BY <2>2, Counts DEF StepsAhead
  <2>4. Loop => StepsAhead' < StepsAhead
    BY LoopNearer DEF AckInv
  <2>5. Cluster \/ UNCHANGED vars => StepsAhead' = StepsAhead
    BY AroundChangesLittle, AroundKeepsPlace
       DEF StepsAhead, PodsAhead, FilterCount, OtherDirection
  <2>6. ~(Crash \/ Kill \/ Start)
    BY DEF Crash, Kill, Start, Restart, InPass
  <2> QED
    BY <2>3, <2>4, <2>5, <2>6 DEF Next
<1> QED
  BY <1>1, <1>2, <1>3, PTL DEF Spec, EveryPassEnds
=============================================================================
