----------------------------- MODULE DoneProofs -----------------------------
(***************************************************************************)
(* An acknowledged setting is in force: nothing is interrupted, every pod  *)
(* has an address of its own, and the tables have room for all of them.    *)
(***************************************************************************)
EXTENDS CleanProofs, FiniteSetTheorems

-----------------------------------------------------------------------------
(* Why an acknowledged setting is in force: the inductive invariant behind *)
(* DoneMeansApplied and the refinement of the contract.                    *)

\* The node is not cleared, so the agent stays on it.
NodeIsKept == ~nodeClear /\ nodeLabel /\ pc \notin ClearStages \cup {"parked", "stopped"}

\* Once InitIfbModule is through with it, a device is up.
LinksStayUp ==
  \A d \in Dirs : link[d] \/ (pc = "linkUp" /\ filters[d] = {} /\ (d = "egress" => dir = "egress"))

\* The filter of a live pod is fed by the pod's interface, but while it is removed.
FilteredIsMirrored ==
  \A p \in Pods, d \in Dirs :
    phase[p] \in Live /\ Matching(d, AddressOf[p]) # {} =>
      veth[p][d] \/ (pc = "resetFilter" /\ cur = p /\ dir = d)

\* Who is processed has an address in the list, and so has who was answered.
HeldAreListed == Held \subseteq listed
AckedAreListed ==
  pc \in {"pod", "sweepFilter", "sweepClass"} \cup PodStages =>
    \A p \in Selected : Acked(p) => p \in listed

\* A copy that would be accepted is of a pod that still carries the label.
CopiesAreLabelled == \A p \in Held \ stale : phase[p] \in Live => p \in labelled

\* What has been set up so far for the direction being processed.
SetUpSoFar ==
  pc \in ChaosStages /\ phase[cur] \in Live =>
    /\ pc = "redirect" => ~veth[cur][dir]
    /\ pc = "addFilter" => veth[cur][dir]
    /\ pc \in {"addClass", "delNetem", "addNetem", "rate", "netem"} =>
         \E f \in Matching(dir, AddressOf[cur]) : f.flowid = cid
    /\ pc \in {"delNetem", "addNetem", "rate", "netem"} => HasClass(dir, cid)
    /\ pc = "addNetem" => leaf[dir][cid] = Pfifo
    /\ pc \in {"rate", "netem"} => leaf[dir][cid] # Pfifo
    /\ pc = "netem" /\ Accepts(RateOf(Setting)) => rate[dir][cid] = RateOf(Setting)

\* What has been dealt with of the pod's requests is in force.
AppliedSoFar ==
  pc \in PodStages /\ phase[cur] \in Live =>
    \A d \in Dirs :
      LET a == snap[cur][d]
      IN  Passed(d) /\ NeedUpdate(a) /\ ~NeedClear(a) /\ a.info # NoInfo /\ Valid(a.info) =>
            Applied(cur, d, a.info)

DoneInv ==
  /\ ReleaseInv /\ ApartInv
  /\ NodeIsKept /\ LinksStayUp /\ FilteredIsMirrored
  /\ HeldAreListed /\ AckedAreListed /\ CopiesAreLabelled
  /\ SetUpSoFar /\ AppliedSoFar /\ DoneMeansApplied

-----------------------------------------------------------------------------

\* Nothing happens to the agent but that its updates fail, and users do nothing
\* unusual but that they set what they are still clearing and write a clear key
\* by itself.
Undisturbed == Disruptions \subseteq {"update", "overlap", "clearOnly"}

\* There is a class id and a filter handle for every address of the pool.
Room ==
  /\ IsFiniteSet(Addresses)
  /\ Cardinality(Addresses) <= MaxClass /\ Cardinality(Addresses) <= MaxFilter

LEMMA NoDisturbance ==
  ASSUME Undisturbed
  PROVE  /\ Orderly /\ Attentive /\ Uninterrupted
         /\ \A kind \in {"crash", "tc", "etcd", "list"} : ~Fault(kind)
         /\ "nodeClear" \notin Disruptions
BY DEF Undisturbed, Orderly, Attentive, Uninterrupted, Fault

-----------------------------------------------------------------------------
(* There is always room for one more filter.                               *)

RoomInv == CidrInv /\ ClassInv /\ ClearInv

\* Some natural number of a set is the least.
LEMMA LeastExists ==
  ASSUME NEW S, S \subseteq Nat, S # {}
  PROVE  \E n \in S : \A m \in S : n <= m
<1> DEFINE Less == OpToRel(<, Nat)
<1>1. IsWellFoundedOn(Less, Nat)
  BY NatLessThanWellFounded
<1> HIDE DEF Less
<1>2. PICK n \in S : \A m \in S : <<m, n>> \notin Less
  BY <1>1, WFMin
<1>3. ASSUME NEW m \in S PROVE n <= m
  <2>1. <<m, n>> \notin Less
    BY <1>2
  <2> QED
    BY <2>1 DEF Less, OpToRel
<1> QED
  BY <1>3

\* A set is as large as what it numbers, at least.
LEMMA EnoughToNumber ==
  ASSUME NEW S, IsFiniteSet(S), NEW n \in Nat, NEW g \in [S -> Nat],
         \A k \in 1 .. n : \E x \in S : g[x] = k
  PROVE  n <= Cardinality(S)
<1> DEFINE T == {x \in S : g[x] \in 1 .. n}
           h == [x \in T |-> g[x]]
<1>1. IsFiniteSet(T) /\ Cardinality(T) <= Cardinality(S)
  BY FS_Subset
<1>2. h \in Surjection(T, 1 .. n)
  BY DEF Surjection
<1>3. Cardinality(1 .. n) <= Cardinality(T)
  BY <1>1, <1>2, FS_Surjection
<1>4. Cardinality(1 .. n) = n
  BY FS_Interval
<1>5. Cardinality(T) \in Nat /\ Cardinality(S) \in Nat
  BY <1>1, FS_CardinalityType
<1> QED
  BY <1>1, <1>3, <1>4, <1>5

\* As long as an address of the pool has no filter there are fewer filters than
\* addresses.
LEMMA FewFilters ==
  ASSUME TcTypeOK, OneFilterPerCidr, IsFiniteSet(Addresses), NEW d \in Dirs, NEW a \in Addresses,
         Matching(d, a) = {}
  PROVE  IsFiniteSet(filters[d]) /\ Cardinality(filters[d]) < Cardinality(Addresses)
<1> DEFINE T == Addresses \ {a}
           h == [f \in filters[d] |-> f.cidr]
<1>1. \A f \in filters[d] : f.cidr \in T
  BY DEF TcTypeOK, Filter, Matching
<1>2. h \in Injection(filters[d], T)
  BY <1>1 DEF OneFilterPerCidr, Injection, IsInjective
<1>3. IsFiniteSet(T) /\ Cardinality(T) = Cardinality(Addresses) - 1
  BY FS_RemoveElement
<1>4. IsFiniteSet(filters[d]) /\ Cardinality(filters[d]) <= Cardinality(T)
  BY <1>2, <1>3, FS_Injection
<1>5. Cardinality(T) \in Nat /\ Cardinality(filters[d]) \in Nat /\ Cardinality(Addresses) \in Nat
  BY <1>3, <1>4, FS_CardinalityType
<1> QED
  BY <1>3, <1>4, <1>5

LEMMA RoomForOne ==
  ASSUME RoomInv, Room, pc = "addFilter"
  PROVE  CanAddFilter(dir) /\ ~(ClassIds \subseteq classes[dir])
<1>1. /\ TcTypeOK /\ OneFilterPerCidr /\ dir \in Dirs /\ cur \in Pods
      /\ Matching(dir, AddressOf[cur]) = {}
  BY AgentTypes, InPodStage DEF RoomInv, CidrInv, AddressIsFree, PodStages
<1>2. /\ IsFiniteSet(filters[dir]) /\ Cardinality(filters[dir]) < Cardinality(Addresses)
      /\ Cardinality(filters[dir]) \in Nat /\ Cardinality(Addresses) \in Nat
  <2>1. AddressOf[cur] \in Addresses
    BY <1>1, KubeChaosAssumption
  <2> QED
    BY <1>1, <2>1, FewFilters, FS_CardinalityType DEF Room
<1>3. MaxClass \in Nat /\ MaxFilter \in Nat
  BY LimitsAssumption
<1>4. \A f \in filters[dir] : f.flowid \in Nat /\ f.handle \in Nat
  BY <1>1, <1>3 DEF TcTypeOK, Filter, ClassIds, Handles
<1>5. ~(ClassIds \subseteq classes[dir])
  <2> SUFFICES ASSUME ClassIds \subseteq classes[dir] PROVE FALSE
    OBVIOUS
  <2> DEFINE g == [f \in filters[dir] |-> f.flowid]
  <2>1. \A k \in 1 .. MaxClass : \E f \in filters[dir] : g[f] = k
    BY <1>1 DEF RoomInv, ClassInv, NoLeakedClass, BeingReset, ClassIds
  <2>2. MaxClass <= Cardinality(filters[dir])
    BY <1>2, <1>3, <1>4, <2>1, EnoughToNumber
  <2> QED
    BY <1>2, <1>3, <2>2 DEF Room
<1>6. Handles # {f.handle : f \in filters[dir]}
  <2> SUFFICES ASSUME Handles = {f.handle : f \in filters[dir]} PROVE FALSE
    OBVIOUS
  <2> DEFINE g == [f \in filters[dir] |-> f.handle]
  <2>1. \A k \in 1 .. MaxFilter : \E f \in filters[dir] : g[f] = k
    BY DEF Handles
  <2>2. MaxFilter <= Cardinality(filters[dir])
    BY <1>2, <1>3, <1>4, <2>1, EnoughToNumber
  <2> QED
    BY <1>2, <1>3, <2>2 DEF Room
<1>7. root[dir]
  BY <1>1 DEF RoomInv, ClearInv, RootsFollow, EarlyStages, LateStages
<1> QED
  BY <1>5, <1>6, <1>7 DEF CanAddFilter

\* Where the agent is not killed and no command fails by itself, class ids and
\* filter handles never run out as long as there is one of each for every
\* address of the pool: whatever users set, clear and set again, and however
\* often pods come and go.
THEOREM RoomNeverRunsOut == Uninterrupted /\ Room => (Spec => []RoomIsLeft)
<1> SUFFICES ASSUME Uninterrupted, Room PROVE Spec => []RoomIsLeft
  OBVIOUS
<1>1. RoomInv /\ [Next]_vars => RoomInv'
  BY NextCidr, NextClasses, NextClear DEF RoomInv, Uninterrupted, TcIsSound
<1>2. RoomInv => RoomIsLeft
  <2> SUFFICES ASSUME RoomInv, pc = "addFilter"
               PROVE  (\E n \in ClassIds : IsNextClassID(n, classes[dir])) /\ CanAddFilter(dir)
    BY DEF RoomIsLeft
  <2>1. CanAddFilter(dir) /\ ClassIds \ classes[dir] # {}
    BY RoomForOne
  <2>2. ClassIds \subseteq Nat
    BY LimitsAssumption DEF ClassIds
  <2>3. PICK n \in ClassIds \ classes[dir] : \A m \in ClassIds \ classes[dir] : n <= m
    BY <2>1, <2>2, LeastExists
  <2> QED
    BY <2>1, <2>3 DEF IsNextClassID
<1>3. Init => RoomInv
  BY InitClean, InitClasses DEF RoomInv, CleanInv
<1> QED
  BY <1>1, <1>2, <1>3, PTL DEF Spec

-----------------------------------------------------------------------------
(* The steps that are left, and what they leave alone.                     *)

DoneParts ==
  /\ NodeIsKept /\ LinksStayUp /\ FilteredIsMirrored
  /\ HeldAreListed /\ AckedAreListed /\ CopiesAreLabelled
  /\ SetUpSoFar /\ AppliedSoFar /\ DoneMeansApplied

LEMMA DoneTypes ==
  ASSUME DoneInv
  PROVE  /\ ReleaseInv /\ CleanInv /\ ApartInv /\ ClassInv /\ AckInv /\ TypeInv /\ DoneParts
         /\ TcTypeOK /\ dir \in Dirs /\ todo \subseteq Pods /\ listed \subseteq Pods
         /\ labelled \subseteq Pods /\ NoPod \notin Pods
         /\ phase \in [Pods -> Phases] /\ veth \in [Pods -> [Dirs -> BOOLEAN]]
         /\ ann \in [Pods -> [Dirs -> Annotation]] /\ snap \in [Pods -> [Dirs -> Annotation]]
BY CleanTypes, ReleaseTypes, TableTypes DEF DoneInv, DoneParts, ReleaseInv, ApartInv

\* Set up or torn down, for the direction of the pod being processed.
Command ==
  \/ Reconcile \/ Unredirect \/ Redirect \/ AddFilter \/ AddClass
  \/ DelNetem \/ AddNetem \/ Rate \/ SetNetem
  \/ Unmirror \/ ResetFilter \/ ResetClass

\* Steps that leave the tables alone, of the agent and of those around it.
Pass == InitIfb \/ List \/ (\E p \in Pods : Pod(p)) \/ StartSweep \/ Update

Lives == \E p \in Pods :
  CreatePod(p) \/ Wire(p) \/ AssignIP(p) \/ DeletePod(p) \/ SetLabel(p)

Asking == \E p \in Pods, d \in UserDirs :
  \/ \E i \in Infos : UserSet(p, d, i)
  \/ UserRetry(p, d) \/ UserClear(p, d) \/ UserClearOnly(p, d)

Around == Lives \/ Asking \/ UNCHANGED vars

LEMMA StepsLeft ==
  ASSUME DoneInv, Undisturbed, [Next]_vars
  PROVE  LinkUp \/ Pass \/ Command \/ SweepFilter \/ SweepClass \/ Around
<1>1. /\ nodeLabel /\ pc \notin ClearStages \cup {"parked", "stopped", "wipe"}
  BY DEF DoneInv, NodeIsKept, ApartInv, ClassInv, NotInterrupted
<1>2. ~Wipe /\ ~LinkDown /\ ~ResetIfb /\ ~ClearMirroring /\ ~ClearUpdate /\ ~ClearNode
      /\ \A p \in Pods : ~ClearPod(p)
  BY <1>1 DEF Wipe, LinkDown, ResetIfb, ClearMirroring, ClearUpdate, ClearNode, ClearPod, On, At,
              ClearStages
<1>3. ~Crash /\ ~Kill /\ ~Start
  BY <1>1, NoDisturbance DEF Crash, Kill, Start
<1>4. ~UserClearNode /\ ~LabelNode
  BY <1>1, NoDisturbance DEF UserClearNode, LabelNode
<1>5. CASE Loop
  BY <1>2, <1>5 DEF Loop, Command, Pass
<1>6. CASE Cluster
  BY <1>4, <1>6 DEF Cluster, Around, Lives, Asking
<1> QED
  BY <1>3, <1>5, <1>6 DEF Next, Around

LEMMA CommandStays ==
  ASSUME DoneInv, Command
  PROVE  /\ UNCHANGED <<clusterVars, heldVars, link, root>>
         /\ pc \in ChaosStages \cup ResetStages
         /\ pc' \in ChaosStages \cup ResetStages \cup {"update"}
<1>1. UNCHANGED <<clusterVars, heldVars>> /\ pc \in ChaosStages \cup ResetStages
  BY DEF Command, Reconcile, Unredirect, Redirect, AddFilter, AddClass, DelNetem, AddNetem, Rate,
         SetNetem, Unmirror, ResetFilter, ResetClass, On, At, ChaosStages, ResetStages
<1>2. UNCHANGED <<link, root>>
  BY DEF Command, Reconcile, Unredirect, Redirect, AddFilter, AddClass, DelNetem, AddNetem, Rate,
         SetNetem, Unmirror, ResetFilter, ResetClass, Exec, Run, VethSet, FilterAdd, FilterDel,
         ClassAdd, ClassDel, ClassChange, LeafSet, tcVars
<1>3. pc' \in ChaosStages \cup ResetStages \cup {"update"}
  <2>1. CASE Leave
    BY <2>1, LeaveType, DoneTypes DEF ChaosStages, ResetStages
  <2>2. CASE ~Leave
    BY <2>2 DEF Command, Reconcile, Unredirect, Redirect, AddFilter, AddClass, DelNetem, AddNetem,
                Rate, SetNetem, Unmirror, ResetFilter, ResetClass, Exec, Run, Goto, ChaosStages,
                ResetStages
  <2> QED
    BY <2>1, <2>2
<1> QED
  BY <1>1, <1>2, <1>3

\* The way of p's traffic in direction d stays as it is.
SamePath(p, d) ==
  /\ veth'[p][d] = veth[p][d] /\ link'[d] = link[d]
  /\ Matching(d, AddressOf[p])' = Matching(d, AddressOf[p])
  /\ \A f \in Matching(d, AddressOf[p]) :
       /\ HasClass(d, f.flowid)' <=> HasClass(d, f.flowid)
       /\ rate'[d][f.flowid] = rate[d][f.flowid]
       /\ leaf'[d][f.flowid] = leaf[d][f.flowid]

LEMMA SameIsSamePath ==
  ASSUME NEW p, NEW d \in Dirs, Same(p), veth'[p][d] = veth[p][d], link'[d] = link[d]
  PROVE  SamePath(p, d)
<1> DEFINE share(f) == <<f, f.flowid \in classes[d], rate[d][f.flowid], leaf[d][f.flowid]>>
           shareNext(f) == <<f, f.flowid \in classes'[d], rate'[d][f.flowid], leaf'[d][f.flowid]>>
           here == Matching(d, AddressOf[p])
           next == Matching(d, AddressOf[p])'
<1>1. {shareNext(f) : f \in next} = {share(f) : f \in here}
  BY DEF Same, Share
<1>2. ASSUME NEW f \in here PROVE f \in next /\ shareNext(f) = share(f)
  <2>1. PICK g \in next : shareNext(g) = share(f)
    BY <1>1
  <2> QED
    BY <2>1
<1>3. ASSUME NEW f \in next PROVE f \in here
  <2>1. PICK g \in here : shareNext(f) = share(g)
    BY <1>1
  <2> QED
    BY <2>1
<1>4. ASSUME NEW f \in here
      PROVE  /\ HasClass(d, f.flowid)' <=> HasClass(d, f.flowid)
             /\ rate'[d][f.flowid] = rate[d][f.flowid]
             /\ leaf'[d][f.flowid] = leaf[d][f.flowid]
  BY <1>2 DEF HasClass
<1>5. here = next
  BY <1>2, <1>3
<1> QED
  BY <1>4, <1>5 DEF SamePath

LEMMA AppliedStays ==
  ASSUME NEW p, NEW d, NEW i, SamePath(p, d), Applied(p, d, i)
  PROVE  Applied(p, d, i)'
BY DEF SamePath, Applied

\* A command touches only what it is for.
LEMMA CommandSamePath ==
  ASSUME DoneInv, Distinct, Command, NEW p \in Pods, NEW d \in Dirs, p # cur \/ d # dir
  PROVE  SamePath(p, d)
<1>1. /\ UNCHANGED link /\ TcTypeOK /\ dir \in Dirs /\ cur \in Pods
      /\ veth \in [Pods -> [Dirs -> BOOLEAN]]
  BY CommandStays, DoneTypes, InPodStage DEF PodStages, ChaosStages, ResetStages
<1>2. veth'[p][d] = veth[p][d]
  BY <1>1 DEF Command, Reconcile, Unredirect, Redirect, AddFilter, AddClass, DelNetem, AddNetem,
       Rate, SetNetem, Unmirror, ResetFilter, ResetClass, Exec, Run, VethSet, FilterAdd, FilterDel,
       ClassAdd, ClassDel, ClassChange, LeafSet, tcVars
<1>3. CASE p # cur
  <2>1. Same(p)
    BY <1>3, DoneTypes, IdleApart, AddFilterApart, ClassApart, ResetApart DEF Command
  <2> QED
    BY <1>1, <1>2, <2>1, SameIsSamePath
<1>4. CASE d # dir
  <2>1. /\ filters'[d] = filters[d] /\ (classes'[d] = classes[d])
        /\ rate'[d] = rate[d] /\ leaf'[d] = leaf[d]
    BY <1>1, <1>4
       DEF Command, Reconcile, Unredirect, Redirect, AddFilter, AddClass, DelNetem, AddNetem,
           Rate, SetNetem, Unmirror, ResetFilter, ResetClass, Exec, Run, VethSet, FilterAdd,
           FilterDel, ClassAdd, ClassDel, ClassChange, LeafSet, tcVars, TcTypeOK
  <2> QED
    BY <1>1, <1>2, <2>1 DEF SamePath, Matching, HasClass
<1> QED
  BY <1>3, <1>4

\* The sweep touches no pod of the list.
LEMMA SweepSamePath ==
  ASSUME DoneInv, Distinct, SweepFilter \/ SweepClass, NEW p \in Pods, NEW d \in Dirs,
         p \in listed \/ SweepClass
  PROVE  SamePath(p, d)
<1>1. UNCHANGED <<veth, link>>
  BY DEF SweepFilter, SweepClass, Run, FilterDel, ClassDel, tcVars
<1>2. p # cur
  BY DoneTypes DEF SweepFilter, SweepClass, At, AckInv, TurnsAreDue, PodStages
<1>3. Same(p)
  BY <1>2, DoneTypes, ResetApart
<1> QED
  BY <1>1, <1>3, SameIsSamePath

LEMMA PassStays ==
  ASSUME Pass
  PROVE  UNCHANGED <<phase, labelled, nodeClear, nodeLabel, link, veth, filters, classes, rate, leaf>>
<1>1. CASE InitIfb
  BY <1>1 DEF InitIfb, Run, RootAdd, On, At, tcVars, clusterVars
<1>2. CASE List \/ StartSweep \/ \E q \in Pods : Pod(q)
  BY <1>2 DEF List, StartSweep, Pod, GetWorkload, On, At, tcVars, clusterVars
<1>3. CASE Update
  BY <1>3 DEF Update, UpdateStatus, NextPod, tcVars
<1> QED
  BY <1>1, <1>2, <1>3 DEF Pass

\* What users write to a direction: a request, or, if they may, a clear key
\* beside the answer and the setting that are there.
Writes(p, d, a) ==
  \/ a.done = "no"
  \/ ~ClearsAsk /\ a.done = "yes" /\ ann[p][d].done = "yes" /\ a.info = ann[p][d].info

\* Users write to pods that have an address.
LEMMA AskingWrites ==
  ASSUME DoneInv, Undisturbed, Asking
  PROVE  \E p \in Pods, d \in Dirs, a \in Annotation :
           /\ Writes(p, d, a) /\ ann' = [ann EXCEPT ![p][d] = a]
           /\ phase[p] = "ready" /\ Touch(p) /\ AroundAgent
           /\ UNCHANGED <<tcVars, phase, labelled, nodeClear, nodeLabel>>
<1>1. PICK p \in Pods, d \in UserDirs :
        \/ \E i \in Infos : UserSet(p, d, i)
        \/ UserRetry(p, d) \/ UserClear(p, d) \/ UserClearOnly(p, d)
  BY DEF Asking
<1>2. d \in Dirs /\ ann[p][d] \in Annotation
  BY DoneTypes, KubeChaosAssumption
<1>3. ASSUME NEW a \in Annotation, Writes(p, d, a), NEW wish, Annotate(p, d, a, wish)
      PROVE  \E q \in Pods, e \in Dirs, b \in Annotation :
               /\ Writes(q, e, b) /\ ann' = [ann EXCEPT ![q][e] = b]
               /\ phase[q] = "ready" /\ Touch(q) /\ AroundAgent
               /\ UNCHANGED <<tcVars, phase, labelled, nodeClear, nodeLabel>>
  <2>1. /\ ann' = [ann EXCEPT ![p][d] = a] /\ phase[p] = "ready" /\ Touch(p) /\ AroundAgent
        /\ UNCHANGED <<tcVars, phase, labelled, nodeClear, nodeLabel>>
    BY <1>3, NoDisturbance DEF Annotate, Attentive
  <2> QED
    BY <1>2, <1>3, <2>1
<1>4. CASE \E i \in Infos : UserSet(p, d, i)
  <2>1. PICK i \in Infos : UserSet(p, d, i)
    BY <1>4
  <2> DEFINE a == [ann[p][d] EXCEPT !.info = i, !.done = "no"]
  <2>2. a \in Annotation /\ a.done = "no" /\ Annotate(p, d, a, i)
    BY <1>2, <2>1 DEF UserSet, Annotation, DoneFlag
  <2> HIDE DEF a
  <2> QED
    BY <1>3, <2>2 DEF Writes
<1>5. CASE UserRetry(p, d)
  <2> DEFINE a == [ann[p][d] EXCEPT !.done = "no"]
  <2>1. a \in Annotation /\ a.done = "no" /\ \E wish : Annotate(p, d, a, wish)
    BY <1>2, <1>5 DEF UserRetry, Annotation, DoneFlag
  <2> HIDE DEF a
  <2> QED
    BY <1>3, <2>1 DEF Writes
<1>6. CASE UserClear(p, d)
  <2> DEFINE a == [ann[p][d] EXCEPT !.clear = TRUE, !.done = "no"]
  <2>1. a \in Annotation /\ a.done = "no" /\ Annotate(p, d, a, "clear")
    BY <1>2, <1>6 DEF UserClear, Annotation, DoneFlag
  <2> HIDE DEF a
  <2> QED
    BY <1>3, <2>1 DEF Writes
<1>7. CASE UserClearOnly(p, d)
  <2> DEFINE a == [ann[p][d] EXCEPT !.clear = TRUE]
  <2>1. /\ a \in Annotation /\ a.done = "yes" /\ a.info = ann[p][d].info
        /\ ~ClearsAsk /\ ann[p][d].done = "yes" /\ Annotate(p, d, a, "clear")
    BY <1>2, <1>7 DEF UserClearOnly, ClearsAsk, Annotation, DoneFlag
  <2> HIDE DEF a
  <2> QED
    BY <1>3, <2>1 DEF Writes
<1> QED
  BY <1>1, <1>4, <1>5, <1>6, <1>7

LEMMA AroundStays ==
  ASSUME DoneInv, Undisturbed, Around
  PROVE  UNCHANGED <<pc, todo, listed, snap, cur, dir, cid, nodeClear, nodeLabel,
                     link, filters, classes, rate, leaf>>
<1>1. CASE UNCHANGED vars
  BY <1>1 DEF vars, agentVars, heldVars, clusterVars, tcVars
<1>2. CASE Lives
  BY <1>2 DEF Lives, CreatePod, Wire, AssignIP, DeletePod, SetLabel, AroundAgent, VethGone, tcVars
<1>3. CASE Asking
  BY <1>3, AskingWrites DEF AroundAgent, tcVars
<1> QED
  BY <1>1, <1>2, <1>3 DEF Around

\* Of those around the agent, only who deletes a pod touches its traffic.
LEMMA OutsideSamePath ==
  ASSUME DoneInv, Undisturbed, Pass \/ Around, NEW p \in Pods, ~DeletePod(p), NEW d \in Dirs
  PROVE  SamePath(p, d)
<1>1. UNCHANGED <<link, filters, classes, rate, leaf>>
  BY PassStays, AroundStays
<1>2. veth'[p] = veth[p]
  <2>1. CASE Pass
    BY <2>1, PassStays
  <2>2. CASE Lives
    BY <2>2, DoneTypes
       DEF Lives, CreatePod, Wire, AssignIP, DeletePod, SetLabel, VethGone, tcVars
  <2>3. CASE Asking
    BY <2>3, AskingWrites DEF tcVars
  <2>4. CASE UNCHANGED vars
    BY <2>4 DEF vars, tcVars
  <2> QED
    BY <2>1, <2>2, <2>3, <2>4 DEF Around
<1> QED
  BY <1>1, <1>2 DEF SamePath, Matching, HasClass

\* Who is alive and held has been so for long; who is alive and answered, too.
LEMMA AroundLives ==
  ASSUME DoneInv, Undisturbed, Around, NEW p \in Pods, phase'[p] \in Live
  PROVE  /\ ~DeletePod(p)
         /\ phase[p] = "none" => p \notin Held
         /\ phase[p] \in Live \cup {"none"}
<1>1. phase[p] = "none" => p \notin Held
  BY DoneTypes DEF AckInv, CopiesAreCurrent
<1>2. ~DeletePod(p)
  BY DoneTypes DEF DeletePod, Live
<1>3. phase[p] \in Live \cup {"none"}
  <2>1. CASE Lives
    BY <1>2, <2>1, DoneTypes DEF Lives, CreatePod, Wire, AssignIP, DeletePod, SetLabel, Live
  <2>2. CASE Asking
    BY <2>2, AskingWrites
  <2>3. CASE UNCHANGED vars
    BY <2>3 DEF vars, clusterVars
  <2> QED
    BY <2>1, <2>2, <2>3 DEF Around
<1> QED
  BY <1>1, <1>2, <1>3

LEMMA AroundAnswered ==
  ASSUME DoneInv, Undisturbed, Around, NEW p \in Pods, p \in labelled', phase'[p] \in Live,
         NEW d \in Dirs, ann'[p][d].done = "yes"
  PROVE  /\ p \in labelled /\ phase[p] = "ready" /\ phase'[p] = "ready"
         /\ ann[p][d].done = "yes" /\ ann'[p][d].info = ann[p][d].info
<1>1. \A q \in Pods : phase[q] \in {"none", "created", "wired"} => ann[q][d].done # "yes"
  BY DoneTypes DEF ReleaseInv, AnnotatedHasAddress, Unannotated, NoAnnotation
<1>2. ~DeletePod(p) /\ phase[p] \in Live \cup {"none"}
  BY AroundLives
<1>3. CASE Lives
  <2>1. PICK q \in Pods : CreatePod(q) \/ Wire(q) \/ AssignIP(q) \/ DeletePod(q) \/ SetLabel(q)
    BY <1>3 DEF Lives
  <2>2. CASE q # p
    <3>1. /\ p \in labelled /\ phase'[p] = phase[p] /\ ann'[p] = ann[p]
      BY <2>1, <2>2, DoneTypes DEF CreatePod, Wire, AssignIP, DeletePod, SetLabel
    <3> QED
      BY <1>1, <1>2, <3>1 DEF Live
  <2>3. CASE q = p /\ (CreatePod(q) \/ Wire(q) \/ AssignIP(q))
    <3>1. phase[p] \in {"none", "created", "wired"} /\ ann' = ann
      BY <2>3 DEF CreatePod, Wire, AssignIP
    <3> QED
      BY <1>1, <3>1
  <2>4. CASE q = p /\ SetLabel(q)
    <3>1. /\ ann' = ann /\ phase' = phase
          /\ p \notin labelled => ~Acked(p)
      BY <2>4, NoDisturbance DEF SetLabel, Attentive
    <3> QED
      BY <1>1, <1>2, <3>1 DEF Acked, Live
  <2> QED
    BY <1>2, <2>1, <2>2, <2>3, <2>4
<1>4. CASE Asking
  <2>1. PICK q \in Pods, e \in Dirs, a \in Annotation :
          /\ Writes(q, e, a) /\ ann' = [ann EXCEPT ![q][e] = a]
          /\ UNCHANGED <<phase, labelled>>
    BY <1>4, AskingWrites
  <2>2. ann[p][d].done = "yes" /\ ann'[p][d].info = ann[p][d].info
    <3>1. CASE q = p /\ e = d
      BY <2>1, <3>1, DoneTypes DEF Writes
    <3>2. CASE ~(q = p /\ e = d)
      BY <2>1, <3>2, DoneTypes
    <3> QED
      BY <3>1, <3>2
  <2> QED
    BY <1>1, <1>2, <2>1, <2>2 DEF Live
<1>5. CASE UNCHANGED vars
  BY <1>1, <1>2, <1>5 DEF vars, clusterVars, Live
<1> QED
  BY <1>3, <1>4, <1>5 DEF Around
-----------------------------------------------------------------------------
(* The node, the devices and the pass.                                     *)

LEMMA InitialStages ==
  ASSUME LinkUp \/ InitIfb \/ StartSweep, Undisturbed
  PROVE  /\ UNCHANGED <<clusterVars, heldVars, filters, classes, rate, leaf, veth>>
         /\ \/ /\ LinkUp /\ pc = "linkUp" /\ link' = [link EXCEPT ![dir] = TRUE]
               /\ \/ dir = "egress" /\ dir' = "ingress" /\ pc' = "linkUp"
                  \/ dir # "egress" /\ dir' = "egress" /\ pc' = "initIfb"
            \/ InitIfb /\ pc = "initIfb" /\ pc' \in {"initIfb", "list"} /\ link' = link
            \/ StartSweep /\ pc = "pod" /\ pc' = "sweepFilter" /\ link' = link
<1>1. ~Fault("tc")
  BY NoDisturbance
<1> QED
  BY <1>1 DEF LinkUp, InitIfb, StartSweep, Run, NextIfb, Goto, LinkSet, RootAdd, On, At, tcVars

\* A pass begins with the labelled pods, and a pod that asks or was answered has
\* an address.
LEMMA ListIsComplete ==
  ASSUME DoneInv, Undisturbed, List
  PROVE  /\ UNCHANGED <<tcVars, cur, phase, labelled, ann, nodeClear, nodeLabel>>
         /\ pc = "list" /\ pc' = "pod" /\ cur = NoPod
         /\ todo' \subseteq Selected \cap listed'
         /\ \A p \in Selected : Acked(p) => p \in listed'
<1>1. /\ StartPass(Selected, nodeClear) /\ ~nodeClear
      /\ UNCHANGED <<tcVars, cur, phase, labelled, ann, nodeClear, nodeLabel>> /\ pc = "list"
  BY NoDisturbance DEF List, At, clusterVars, DoneInv, NodeIsKept
<1>2. cur = NoPod
  BY <1>1, DoneTypes DEF AckInv, TurnsAreDue, PodStages
<1>3. ASSUME NEW p \in Selected, p \in todo' \/ Acked(p) PROVE p \in listed'
  <2>1. p \in Pods /\ phase[p] \in Live
    BY DoneTypes DEF Selected
  <2>2. ann[p] # Unannotated
    BY <1>1, <1>3, <2>1 DEF StartPass, Acked, Updated, NeedUpdate, Unannotated, NoAnnotation
  <2>3. phase[p] = "ready"
    BY <2>1, <2>2, DoneTypes DEF ReleaseInv, AnnotatedHasAddress, Live
  <2> QED
    BY <1>1, <2>3 DEF StartPass
<1> QED
  BY <1>1, <1>2, <1>3 DEF StartPass

LEMMA PodBegins ==
  ASSUME DoneInv, Undisturbed, NEW p \in Pods, Pod(p)
  PROVE  /\ UNCHANGED <<tcVars, phase, labelled, ann, nodeClear, nodeLabel>>
         /\ pc = "pod" /\ cur = NoPod /\ p \in todo
         /\ \/ /\ cur' = p /\ UNCHANGED <<todo, listed, snap, stale>>
               /\ pc' \in {"reconcile", "unmirror"}
               /\ dir' = IF "ingress" \in Updated(snap[p]) THEN "ingress" ELSE "egress"
            \/ pc' = "linkUp" /\ Forget
<1>1. cur = NoPod
  BY DoneTypes DEF Pod, At, AckInv, TurnsAreDue, PodStages
<1> QED
  BY <1>1 DEF Pod, GetWorkload, Begin, Restart, At, clusterVars

LEMMA UpdateAnswers ==
  ASSUME DoneInv, Update
  PROVE  /\ UNCHANGED <<tcVars, phase, labelled, nodeClear, nodeLabel, listed>>
         /\ pc = "update" /\ pc' = "pod" /\ cur \in Held /\ cur \in Pods
         /\ todo' = todo \ {cur} /\ stale' = stale \ {cur} /\ cur' = NoPod
         /\ Held' \subseteq Held \ {cur}
         /\ \A p \in Pods : p # cur => ann'[p] = ann[p]
<1>1. cur \in Held /\ cur \in Pods /\ pc = "update"
  BY DoneTypes, InTurn DEF Update, TurnStages
<1>2. /\ UNCHANGED <<tcVars, phase, labelled, nodeClear, nodeLabel, listed>> /\ pc' = "pod"
      /\ todo' = todo \ {cur} /\ stale' = stale \ {cur} /\ cur' = NoPod
  BY DEF Update, UpdateStatus, NextPod
<1>3. \A p \in Pods : p # cur => ann'[p] = ann[p]
  BY DoneTypes DEF Update, UpdateStatus
<1>4. Held' \subseteq Held \ {cur}
  BY <1>2, DoneTypes DEF Held
<1> QED
  BY <1>1, <1>2, <1>3, <1>4

LEMMA SweepStays ==
  ASSUME DoneInv, SweepFilter \/ SweepClass
  PROVE  /\ UNCHANGED <<clusterVars, link, veth>>
         /\ pc \in {"sweepFilter", "sweepClass"}
         /\ \/ pc' \in {"sweepFilter", "sweepClass"} /\ UNCHANGED heldVars
            \/ pc' = "list" /\ UNCHANGED heldVars
            \/ pc' = "list" /\ Forget
         /\ \A d \in Dirs : filters'[d] \subseteq filters[d]
BY DoneTypes DEF SweepFilter, SweepClass, Run, NextIfb, EndPass, FilterDel, ClassDel, At, tcVars,
                 TcTypeOK

LEMMA HeldStays ==
  ASSUME UNCHANGED <<todo, cur>>
  PROVE  Held' = Held
BY DEF Held

LEMMA NextNodeIsKept ==
  ASSUME DoneInv, Undisturbed, [Next]_vars
  PROVE  NodeIsKept'
<1>1. CASE LinkUp \/ InitIfb \/ StartSweep
  <2>1. UNCHANGED <<nodeClear, nodeLabel>>
    BY <1>1, InitialStages DEF clusterVars
  <2>2. pc' \in {"linkUp", "initIfb", "list", "sweepFilter"}
    BY <1>1, InitialStages
  <2> QED
    BY <2>1, <2>2 DEF DoneInv, NodeIsKept, ClearStages
<1>2. CASE List
  BY <1>2, ListIsComplete DEF DoneInv, NodeIsKept, ClearStages
<1>3. CASE \E p \in Pods : Pod(p)
  BY <1>3, PodBegins DEF DoneInv, NodeIsKept, ClearStages
<1>4. CASE Update
  BY <1>4, UpdateAnswers DEF DoneInv, NodeIsKept, ClearStages
<1>5. CASE Command
  BY <1>5, CommandStays DEF DoneInv, NodeIsKept, ClearStages, clusterVars, ChaosStages, ResetStages
<1>6. CASE SweepFilter \/ SweepClass
  <2>1. UNCHANGED <<nodeClear, nodeLabel>>
    BY <1>6, SweepStays DEF clusterVars
  <2>2. pc' \in {"sweepFilter", "sweepClass", "list"}
    BY <1>6, SweepStays
  <2> QED
    BY <2>1, <2>2 DEF DoneInv, NodeIsKept, ClearStages
<1>7. CASE Around
  BY <1>7, AroundStays DEF DoneInv, NodeIsKept
<1> QED
  BY <1>1, <1>2, <1>3, <1>4, <1>5, <1>6, <1>7, StepsLeft DEF Pass

LEMMA NextLinksStayUp ==
  ASSUME DoneInv, Undisturbed, [Next]_vars
  PROVE  LinksStayUp'
<1>1. CASE LinkUp
  <2>1. /\ link' = [link EXCEPT ![dir] = TRUE] /\ filters' = filters /\ pc = "linkUp"
        /\ \/ dir = "egress" /\ dir' = "ingress" /\ pc' = "linkUp"
           \/ dir # "egress" /\ dir' = "egress" /\ pc' = "initIfb"
    <3>1. pc = "linkUp"
      BY <1>1 DEF LinkUp, On, At
    <3> QED
      BY <1>1, <3>1, InitialStages
  <2>2. link \in [Dirs -> BOOLEAN] /\ dir \in Dirs
    BY DoneTypes DEF TcTypeOK
  <2> QED
    BY <2>1, <2>2 DEF DoneInv, LinksStayUp, Dirs
<1>2. CASE pc # "linkUp" /\ link' = link
  BY <1>2 DEF DoneInv, LinksStayUp
<1>3. CASE Around
  BY <1>3, AroundStays DEF DoneInv, LinksStayUp
<1>4. CASE InitIfb \/ StartSweep \/ List \/ Update \/ \E p \in Pods : Pod(p)
  <2>1. link' = link
    BY <1>4, PassStays DEF Pass
  <2> QED
    BY <1>2, <1>4, <2>1 DEF InitIfb, StartSweep, List, Update, Pod, On, At
<1>5. CASE Command
  BY <1>2, <1>5, CommandStays DEF ChaosStages, ResetStages
<1>6. CASE SweepFilter \/ SweepClass
  BY <1>2, <1>6, SweepStays
<1> QED
  BY <1>1, <1>3, <1>4, <1>5, <1>6, StepsLeft DEF Pass

LEMMA NextHeldAreListed ==
  ASSUME DoneInv, Undisturbed, [Next]_vars
  PROVE  HeldAreListed'
<1> DEFINE Kept == UNCHANGED <<todo, cur, listed>>
<1>1. CASE Kept
  BY <1>1, HeldStays DEF DoneInv, HeldAreListed
<1>2. CASE Forget
  BY <1>2, DoneTypes DEF Forget, HeldAreListed, Held
<1>3. CASE List
  BY <1>3, ListIsComplete, DoneTypes DEF HeldAreListed, Held
<1>4. CASE Update
  BY <1>4, UpdateAnswers DEF DoneInv, HeldAreListed
<1>5. ASSUME NEW p \in Pods, Pod(p) PROVE HeldAreListed'
  <2>1. CASE cur' = p /\ UNCHANGED <<todo, listed>>
    BY <2>1, <1>5, PodBegins DEF DoneInv, HeldAreListed, Held
  <2> QED
    BY <1>2, <1>5, <2>1, PodBegins
<1>6. CASE LinkUp \/ InitIfb \/ StartSweep
  BY <1>1, <1>6, InitialStages DEF heldVars
<1>7. CASE Command
  BY <1>1, <1>7, CommandStays DEF heldVars
<1>8. CASE SweepFilter \/ SweepClass
  BY <1>1, <1>2, <1>8, SweepStays DEF heldVars
<1>9. CASE Around
  BY <1>1, <1>9, AroundStays
<1> QED
  BY <1>3, <1>4, <1>5, <1>6, <1>7, <1>8, <1>9, StepsLeft DEF Pass

LEMMA NextAckedAreListed ==
  ASSUME DoneInv, Undisturbed, [Next]_vars
  PROVE  AckedAreListed'
<1> DEFINE Lists == {"pod", "sweepFilter", "sweepClass"} \cup PodStages
<1>1. CASE pc' \notin Lists
  BY <1>1 DEF AckedAreListed
<1>2. CASE pc \in Lists /\ UNCHANGED <<phase, labelled, ann, listed>>
  BY <1>2 DEF DoneInv, AckedAreListed, Selected, Acked
<1>3. CASE List
  BY <1>3, ListIsComplete DEF AckedAreListed, Selected, Acked
<1>4. CASE Update
  <2>1. ASSUME NEW p \in Selected', Acked(p)', p # cur PROVE p \in listed'
    <3>1. p \in Selected /\ Acked(p)
      BY <1>4, <2>1, UpdateAnswers, DoneTypes DEF Selected, Acked
    <3> QED
      BY <1>4, <3>1, UpdateAnswers DEF DoneInv, AckedAreListed, PodStages
  <2>2. cur \in listed'
    BY <1>4, UpdateAnswers DEF DoneInv, HeldAreListed
  <2> QED
    BY <2>1, <2>2 DEF AckedAreListed
<1>5. ASSUME NEW p \in Pods, Pod(p) PROVE AckedAreListed'
  <2>1. CASE UNCHANGED listed
    BY <1>2, <1>5, <2>1, PodBegins
  <2>2. CASE pc' = "linkUp"
    BY <1>1, <2>2 DEF PodStages
  <2> QED
    BY <1>5, <2>1, <2>2, PodBegins
<1>6. CASE LinkUp \/ InitIfb
  BY <1>1, <1>6, InitialStages DEF PodStages, StartSweep, On, At, LinkUp, InitIfb
<1>7. CASE StartSweep
  BY <1>2, <1>7, InitialStages DEF heldVars, clusterVars, LinkUp, InitIfb, StartSweep, On, At
<1>8. CASE Command
  BY <1>2, <1>8, CommandStays DEF heldVars, clusterVars, ChaosStages, ResetStages, PodStages
<1>9. CASE SweepFilter \/ SweepClass
  BY <1>1, <1>2, <1>9, SweepStays DEF heldVars, clusterVars, PodStages
<1>10. CASE Around
  <2> SUFFICES ASSUME pc' \in Lists, NEW p \in Selected', Acked(p)' PROVE p \in listed'
    BY DEF AckedAreListed
  <2>1. pc \in Lists /\ listed' = listed
    BY <1>10, AroundStays
  <2>2. p \in Pods /\ p \in labelled' /\ phase'[p] \in Live
    <3>1. labelled' \subseteq Pods
      BY NextType, DoneTypes DEF TypeInv, TypeOK, ClusterTypeOK
    <3> QED
      BY <3>1 DEF Selected
  <2>3. PICK d \in Dirs : ann'[p][d].done = "yes"
    BY DEF Acked
  <2>4. p \in Selected /\ Acked(p)
    BY <1>10, <2>2, <2>3, AroundAnswered DEF Selected, Acked, Live
  <2> QED
    BY <2>1, <2>4 DEF DoneInv, AckedAreListed
<1> QED
  BY <1>3, <1>4, <1>5, <1>6, <1>7, <1>8, <1>9, <1>10, StepsLeft DEF Pass

LEMMA NextCopiesAreLabelled ==
  ASSUME DoneInv, Undisturbed, [Next]_vars
  PROVE  CopiesAreLabelled'
<1>1. CASE UNCHANGED <<todo, cur, stale, phase, labelled>>
  BY <1>1, HeldStays DEF DoneInv, CopiesAreLabelled
<1>2. CASE Forget
  BY <1>2, DoneTypes DEF Forget, CopiesAreLabelled, Held
<1>3. CASE List
  BY <1>3, ListIsComplete, DoneTypes DEF CopiesAreLabelled, Held, Selected
<1>4. CASE Update
  BY <1>4, UpdateAnswers DEF DoneInv, CopiesAreLabelled
<1>5. ASSUME NEW p \in Pods, Pod(p) PROVE CopiesAreLabelled'
  <2>1. CASE cur' = p /\ UNCHANGED <<todo, stale>>
    BY <2>1, <1>5, PodBegins DEF DoneInv, CopiesAreLabelled, Held
  <2> QED
    BY <1>2, <1>5, <2>1, PodBegins
<1>6. CASE LinkUp \/ InitIfb \/ StartSweep
  BY <1>1, <1>6, InitialStages DEF heldVars, clusterVars
<1>7. CASE Command
  BY <1>1, <1>7, CommandStays DEF heldVars, clusterVars
<1>8. CASE SweepFilter \/ SweepClass
  BY <1>1, <1>2, <1>8, SweepStays DEF heldVars, clusterVars
<1>9. CASE Around
  <2> SUFFICES ASSUME NEW p \in Held', p \notin stale', phase'[p] \in Live PROVE p \in labelled'
    BY DEF CopiesAreLabelled
  <2>1. Held' = Held /\ p \in Held /\ p \in Pods
    BY <1>9, AroundStays, HeldStays DEF Held
  <2>2. ~DeletePod(p) /\ phase[p] \in Live
    BY <1>9, <2>1, AroundLives
  <2>3. CASE Lives
    <3>1. PICK q \in Pods : CreatePod(q) \/ Wire(q) \/ AssignIP(q) \/ DeletePod(q) \/ SetLabel(q)
      BY <2>3 DEF Lives
    <3>2. p \notin stale
      BY <3>1 DEF CreatePod, Wire, AssignIP, DeletePod, SetLabel, Touch
    <3>3. p \in labelled
      BY <2>1, <2>2, <3>2 DEF DoneInv, CopiesAreLabelled
    <3>4. CASE SetLabel(q)
      <4>1. p # q
        BY <2>1, <3>4 DEF SetLabel, Touch, Held
      <4> QED
        BY <3>3, <3>4, <4>1 DEF SetLabel
    <3>5. CASE DeletePod(q)
      BY <2>2, <3>3, <3>5 DEF DeletePod
    <3> QED
      BY <3>1, <3>3, <3>4, <3>5 DEF CreatePod, Wire, AssignIP
  <2>4. CASE Asking
    BY <2>1, <2>2, <2>4, AskingWrites DEF Touch, DoneInv, CopiesAreLabelled
  <2>5. CASE UNCHANGED vars
    BY <2>1, <2>2, <2>5 DEF vars, agentVars, heldVars, clusterVars, DoneInv, CopiesAreLabelled
  <2> QED
    BY <1>9, <2>3, <2>4, <2>5 DEF Around
<1> QED
  BY <1>3, <1>4, <1>5, <1>6, <1>7, <1>8, <1>9, StepsLeft DEF Pass

-----------------------------------------------------------------------------
(* The redirects.                                                          *)

\* Of a live pod without a filter or with a redirect, when nothing happens to either.
LEMMA SamePathMirrored ==
  ASSUME DoneInv, NEW p \in Pods, NEW d \in Dirs, SamePath(p, d),
         phase[p] \in Live \/ Matching(d, AddressOf[p]) = {},
         ~(pc = "resetFilter" /\ cur = p /\ dir = d)
  PROVE  Matching(d, AddressOf[p])' # {} => veth'[p][d]
BY DEF SamePath, DoneInv, FilteredIsMirrored

LEMMA TurnMirrored ==
  ASSUME DoneInv, Undisturbed, Command, NEW p \in Pods, p = cur, phase[p] \in Live,
         NEW d \in Dirs, d = dir, Matching(d, AddressOf[p])' # {}
  PROVE  veth'[p][d] \/ (pc' = "resetFilter" /\ cur' = cur /\ dir' = dir)
<1>1. /\ veth \in [Pods -> [Dirs -> BOOLEAN]] /\ dir \in Dirs /\ TcTypeOK /\ ~Fault("tc")
  BY DoneTypes, NoDisturbance
<1>2. CASE Reconcile \/ AddClass \/ DelNetem \/ AddNetem \/ Rate \/ SetNetem \/ ResetClass
  <2>1. UNCHANGED <<filters, veth>> /\ pc # "resetFilter"
    BY <1>2 DEF Reconcile, AddClass, DelNetem, AddNetem, Rate, SetNetem, ResetClass, Exec, Run,
                ClassAdd, ClassDel, ClassChange, LeafSet, tcVars, On, At
  <2> QED
    BY <1>1, <2>1 DEF DoneInv, FilteredIsMirrored, Matching
<1>3. CASE Unredirect \/ Redirect
  <2>1. filters' = filters /\ pc \in {"unredirect", "redirect"}
    BY <1>3 DEF Unredirect, Redirect, Exec, Run, VethSet, tcVars, On, At
  <2>2. Matching(d, AddressOf[p]) = {}
    BY <2>1, DoneTypes DEF CleanInv, CidrInv, AddressIsFree
  <2> QED
    BY <2>1, <2>2 DEF Matching
<1>4. CASE AddFilter
  <2>1. veth' = veth /\ pc = "addFilter"
    BY <1>4 DEF AddFilter, Run, FilterAdd, tcVars, On, At
  <2>2. veth[p][d]
    BY <2>1 DEF DoneInv, SetUpSoFar, ChaosStages
  <2> QED
    BY <2>1, <2>2
<1>5. CASE Unmirror
  BY <1>5 DEF Unmirror, Exec, Run, Goto, On, heldVars
<1>6. CASE ResetFilter
  <2>1. HasCidr /\ pc = "resetFilter"
    BY <1>6, DoneTypes, WorkedOnIsHeld DEF HasCidr, DoneParts, HeldAreListed, ResetFilter, On, At, PodStages
  <2>2. Matching(d, AddressOf[p])' = {}
    <3>1. CASE NotFound /\ UNCHANGED tcVars
      BY <3>1 DEF NotFound, tcVars, Matching
    <3>2. ASSUME NEW f \in filters[dir], Found(f), FilterDel(dir, f)
          PROVE Matching(d, AddressOf[p])' = {}
      <4>1. filters'[d] = filters[d] \ {f} /\ f.cidr = AddressOf[p]
        BY <1>1, <3>2 DEF FilterDel, Found, Finds, Matching, TcTypeOK
      <4> QED
        BY <1>1, <4>1, DoneTypes DEF CleanInv, CidrInv, OneFilterPerCidr, Matching
    <3> QED
      BY <1>1, <1>6, <2>1, <3>1, <3>2 DEF ResetFilter
  <2> QED
    BY <2>2
<1> QED
  BY <1>2, <1>3, <1>4, <1>5, <1>6 DEF Command

LEMMA NextFilteredIsMirrored ==
  ASSUME DoneInv, Undisturbed, Distinct, [Next]_vars
  PROVE  FilteredIsMirrored'
<1> SUFFICES ASSUME NEW p \in Pods, NEW d \in Dirs, phase'[p] \in Live,
                    Matching(d, AddressOf[p])' # {}
             PROVE  veth'[p][d] \/ (pc' = "resetFilter" /\ cur' = p /\ dir' = d)
  BY DEF FilteredIsMirrored
<1>1. CASE Command
  <2>1. phase[p] \in Live /\ cur' = cur
    BY <1>1, CommandStays DEF clusterVars, heldVars
  <2>2. CASE p = cur /\ d = dir
    BY <1>1, <2>1, <2>2, TurnMirrored
  <2>3. CASE p # cur \/ d # dir
    BY <1>1, <2>1, <2>3, CommandSamePath, SamePathMirrored
  <2> QED
    BY <2>2, <2>3
<1>2. CASE SweepFilter \/ SweepClass
  <2>1. /\ phase[p] \in Live /\ veth' = veth /\ pc \in {"sweepFilter", "sweepClass"}
        /\ filters'[d] \subseteq filters[d]
    BY <1>2, SweepStays DEF clusterVars
  <2> QED
    BY <2>1 DEF DoneInv, FilteredIsMirrored, Matching
<1>3. CASE LinkUp
  <2>1. UNCHANGED <<filters, veth, phase>> /\ pc = "linkUp"
    BY <1>3 DEF LinkUp, Run, LinkSet, tcVars, On, At, clusterVars
  <2> QED
    BY <2>1 DEF DoneInv, FilteredIsMirrored, Matching
<1>4. CASE Pass
  <2>1. UNCHANGED <<filters, veth, phase>>
    BY <1>4, PassStays
  <2>2. pc # "resetFilter"
    BY <1>4 DEF Pass, InitIfb, List, StartSweep, Update, Pod, On, At
  <2> QED
    BY <2>1, <2>2 DEF DoneInv, FilteredIsMirrored, Matching
<1>5. CASE Around
  <2>1. ~DeletePod(p) /\ phase[p] \in Live \cup {"none"}
    BY <1>5, AroundLives
  <2>2. SamePath(p, d)
    BY <1>5, <2>1, OutsideSamePath
  <2>3. phase[p] = "none" => Matching(d, AddressOf[p]) = {}
    BY DoneTypes, OwnUnlessShared DEF CleanInv, TracesFollowPhase
  <2>4. CASE pc = "resetFilter" /\ cur = p /\ dir = d
    BY <1>5, <2>4, AroundStays
  <2> QED
    BY <2>1, <2>2, <2>3, <2>4, SamePathMirrored
<1> QED
  BY <1>1, <1>2, <1>3, <1>4, <1>5, StepsLeft

-----------------------------------------------------------------------------
(* The chaos that is set up.                                               *)

LEMMA CommandSetsUp ==
  ASSUME DoneInv, Undisturbed, Room, Command, phase[cur] \in Live
  PROVE  SetUpSoFar'
<1>1. /\ veth \in [Pods -> [Dirs -> BOOLEAN]] /\ dir \in Dirs /\ TcTypeOK /\ cur \in Pods
      /\ ~Fault("tc") /\ ~Fault("etcd") /\ cid \in ClassIds \cup {0} /\ HasCidr /\ Reachable
      /\ UNCHANGED heldVars
  BY DoneTypes, NoDisturbance, CommandStays, WorkedOnIsHeld, AgentTypes
     DEF HasCidr, DoneParts, HeldAreListed, PodStages, ChaosStages, ResetStages, CleanInv,
         InterfaceIsKnown
<1>2. cur' = cur
  BY <1>1 DEF heldVars
<1>3. CASE pc' \notin {"redirect", "addFilter", "addClass", "delNetem", "addNetem", "rate", "netem"}
  BY <1>3 DEF SetUpSoFar
<1>4. CASE Leave
  BY <1>3, <1>4, LeaveType, DoneTypes
<1>5. CASE Reconcile
  <2>1. CASE NotFound /\ Goto("unredirect")
    BY <1>3, <2>1 DEF Goto
  <2>2. ASSUME NEW f \in filters[dir], Found(f),
               IF HasClass(dir, f.flowid)
               THEN pc' = "delNetem" /\ cid' = f.flowid /\ UNCHANGED dir
               ELSE Goto("wipe")
        PROVE  SetUpSoFar'
    <3>1. f.flowid \in classes[dir]
      BY <1>1, <1>5, <2>2, DoneTypes DEF ApartInv, ClassInv, FiltersLead, Reconcile, On, At
    <3>2. /\ pc' = "delNetem" /\ cid' = f.flowid /\ dir' = dir /\ UNCHANGED tcVars
          /\ f \in Matching(dir, AddressOf[cur])
      BY <1>5, <2>2, <3>1 DEF HasClass, Found, Finds, Reconcile
    <3> QED
      BY <1>2, <3>1, <3>2 DEF SetUpSoFar, Matching, HasClass, tcVars
  <2> QED
    BY <1>1, <1>5, <2>1, <2>2 DEF Reconcile
<1>6. CASE Unredirect
  <2>1. VethSet(cur, dir, FALSE) /\ pc' = "redirect" /\ dir' = dir
    BY <1>1, <1>6 DEF Unredirect, Exec, Run, Goto
  <2>2. ~veth'[cur][dir]
    BY <1>1, <2>1 DEF VethSet
  <2> QED
    BY <1>2, <2>1, <2>2 DEF SetUpSoFar
<1>7. CASE Redirect
  <2>1. pc = "redirect" /\ ~veth[cur][dir]
    BY <1>7 DEF Redirect, On, At, DoneInv, SetUpSoFar, ChaosStages
  <2>2. VethSet(cur, dir, TRUE) /\ pc' = "addFilter" /\ dir' = dir
    BY <1>1, <1>7, <2>1 DEF Redirect, Run, Goto
  <2>3. veth'[cur][dir]
    BY <1>1, <2>2 DEF VethSet
  <2> QED
    BY <1>2, <2>2, <2>3 DEF SetUpSoFar
<1>8. CASE AddFilter
  <2>1. pc = "addFilter"
    BY <1>8 DEF AddFilter, On, At
  <2>2. CanAddFilter(dir) /\ ~(ClassIds \subseteq classes[dir])
    BY <2>1, RoomForOne, DoneTypes DEF RoomInv, CleanInv
  <2>3. PICK n \in ClassIds :
          FilterAdd(dir, AddressOf[cur], n) /\ pc' = "addClass" /\ cid' = n /\ dir' = dir
    BY <1>1, <1>8, <2>2 DEF AddFilter, Run
  <2>4. PICK h \in Handles :
          filters' = [filters EXCEPT ![dir] =
            filters[dir] \cup {[cidr |-> AddressOf[cur], flowid |-> n, handle |-> h]}]
    BY <2>3 DEF FilterAdd
  <2> DEFINE f == [cidr |-> AddressOf[cur], flowid |-> n, handle |-> h]
  <2>5. f \in filters'[dir]
    BY <1>1, <2>4 DEF TcTypeOK
  <2>6. f \in Matching(dir, AddressOf[cur])' /\ f.flowid = n
    BY <1>2, <2>3, <2>5 DEF Matching
  <2> QED
    BY <2>3, <2>6 DEF SetUpSoFar
<1>9. CASE AddClass
  <2>1. pc = "addClass"
    BY <1>9 DEF AddClass, On, At
  <2>2. CanAddClass(dir, cid)
    BY <2>1, DoneTypes DEF ApartInv, ClassInv, ClassIsDue, CanAddClass
  <2>3. ClassAdd(dir, cid) /\ pc' = "delNetem" /\ dir' = dir /\ cid' = cid
    BY <1>1, <1>9, <2>2 DEF AddClass, Exec, Run, Goto
  <2>4. cid \in classes'[dir] /\ filters' = filters
    BY <1>1, <2>3 DEF ClassAdd, TcTypeOK
  <2>5. \E f \in Matching(dir, AddressOf[cur]) : f.flowid = cid
    BY <2>1 DEF DoneInv, SetUpSoFar, ChaosStages
  <2> QED
    BY <1>2, <2>3, <2>4, <2>5 DEF SetUpSoFar, Matching, HasClass
<1>10. CASE DelNetem \/ AddNetem \/ Rate \/ SetNetem
  <2>1. pc \in {"delNetem", "addNetem", "rate", "netem"} /\ UNCHANGED <<filters, classes>>
    BY <1>10 DEF DelNetem, AddNetem, Rate, SetNetem, Exec, Run, On, At, LeafSet, ClassChange, tcVars
  <2>2. /\ \E f \in Matching(dir, AddressOf[cur]) : f.flowid = cid
        /\ HasClass(dir, cid)
        /\ pc = "addNetem" => leaf[dir][cid] = Pfifo
        /\ pc \in {"rate", "netem"} => leaf[dir][cid] # Pfifo
    BY <2>1 DEF DoneInv, SetUpSoFar, ChaosStages
  <2>3. cid \in ClassIds /\ leaf \in [Dirs -> [ClassIds -> Leaves]]
        /\ rate \in [Dirs -> [ClassIds -> Rates]]
    BY <1>1, <2>2 DEF HasClass, TcTypeOK
  <2>4. CASE DelNetem
    <3>1. /\ pc' = "addNetem" /\ dir' = dir /\ cid' = cid
          /\ LeafSet(dir, cid, Pfifo) \/ (~HasLeaf(dir, cid) /\ UNCHANGED tcVars)
      BY <1>1, <2>4 DEF DelNetem, Exec, Run, Goto
    <3>2. leaf'[dir][cid] = Pfifo
      BY <1>1, <2>2, <2>3, <3>1 DEF LeafSet, HasLeaf, HasClass, tcVars
    <3> QED
      BY <1>2, <2>1, <2>2, <3>1, <3>2 DEF SetUpSoFar, Matching, HasClass
  <2>5. CASE AddNetem
    <3>1. pc = "addNetem"
      BY <2>5 DEF AddNetem, On, At
    <3>2. /\ pc' = "rate" /\ dir' = dir /\ cid' = cid /\ LeafSet(dir, cid, Netem)
      BY <1>1, <2>2, <2>5, <3>1 DEF AddNetem, Exec, Run, Goto, LacksLeaf, HasClass
    <3>3. leaf'[dir][cid] # Pfifo
      BY <1>1, <2>3, <3>2 DEF LeafSet, Netem, Pfifo
    <3> QED
      BY <1>2, <2>1, <2>2, <3>2, <3>3 DEF SetUpSoFar, Matching, HasClass
  <2>6. CASE Rate
    <3>1. CASE ~Leave
      <4>1. /\ pc = "rate" /\ pc' = "netem" /\ dir' = dir /\ cid' = cid
            /\ \/ ClassChange(dir, cid, RateOf(Setting))
               \/ ~Accepts(RateOf(Setting)) /\ UNCHANGED tcVars
        BY <1>1, <2>2, <2>6, <3>1 DEF Rate, Exec, Run, Goto, On, At
      <4>2. Setting' = Setting
        BY <1>1, <4>1 DEF Setting, heldVars
      <4>3. Accepts(RateOf(Setting)) => rate'[dir][cid] = RateOf(Setting)
        BY <1>1, <2>3, <4>1 DEF ClassChange
      <4>4. leaf' = leaf
        BY <4>1 DEF ClassChange, tcVars
      <4>5. \E f \in Matching(dir, AddressOf[cur])' : f.flowid = cid
        BY <1>2, <2>1, <2>2, <4>1 DEF Matching
      <4> QED
        BY <1>2, <2>1, <2>2, <4>1, <4>2, <4>3, <4>4, <4>5 DEF SetUpSoFar, HasClass
    <3> QED
      BY <1>4, <3>1
  <2>7. CASE SetNetem
    BY <1>4, <2>7 DEF SetNetem, Exec, Run
  <2> QED
    BY <1>10, <2>4, <2>5, <2>6, <2>7
<1>11. CASE Unmirror \/ ResetFilter \/ ResetClass
  BY <1>3, <1>4, <1>11 DEF Unmirror, ResetFilter, ResetClass, Exec, Run, Goto
<1> QED
  BY <1>5, <1>6, <1>7, <1>8, <1>9, <1>10, <1>11 DEF Command

LEMMA NextSetUpSoFar ==
  ASSUME DoneInv, Undisturbed, Room, [Next]_vars
  PROVE  SetUpSoFar'
<1>1. CASE pc' \notin ChaosStages \/ pc' = "reconcile"
  BY <1>1 DEF SetUpSoFar
<1>2. CASE Command
  <2>1. UNCHANGED <<phase, cur>>
    BY <1>2, CommandStays DEF clusterVars, heldVars
  <2>2. CASE phase[cur] \in Live
    BY <1>2, <2>2, CommandSetsUp
  <2>3. CASE phase[cur] \notin Live
    BY <2>1, <2>3 DEF SetUpSoFar
  <2> QED
    BY <2>2, <2>3
<1>3. CASE SweepFilter \/ SweepClass
  BY <1>1, <1>3, SweepStays DEF ChaosStages
<1>4. CASE LinkUp \/ InitIfb \/ StartSweep
  BY <1>1, <1>4, InitialStages DEF ChaosStages
<1>5. CASE List \/ Update
  BY <1>1, <1>5, ListIsComplete, UpdateAnswers DEF ChaosStages
<1>6. CASE \E p \in Pods : Pod(p)
  <2>1. pc' \in {"reconcile", "unmirror", "linkUp"}
    BY <1>6, PodBegins
  <2> QED
    BY <1>1, <2>1 DEF ChaosStages
<1>7. CASE Around
  <2>1. UNCHANGED <<pc, snap, cur, dir, cid, filters, classes, rate, leaf>>
    BY <1>7, AroundStays
  <2> SUFFICES ASSUME pc \in ChaosStages, phase'[cur] \in Live, NEW p \in Pods, p = cur PROVE SetUpSoFar'
    <3>1. pc \in ChaosStages => cur \in Pods
      BY WorkedOnIsHeld, DoneTypes DEF PodStages, ChaosStages
    <3> QED
      BY <2>1, <3>1 DEF SetUpSoFar
  <2>2. p \in Held
    BY DoneTypes, WorkedOnIsHeld DEF PodStages, ChaosStages
  <2>3. ~DeletePod(p) /\ phase[p] \in Live
    BY <1>7, <2>2, AroundLives
  <2>4. veth'[p][dir] = veth[p][dir]
    BY <1>7, <2>3, OutsideSamePath, DoneTypes DEF SamePath
  <2> QED
    BY <2>1, <2>3, <2>4 DEF DoneInv, SetUpSoFar, Matching, HasClass, Setting
<1> QED
  BY <1>2, <1>3, <1>4, <1>5, <1>6, <1>7, StepsLeft DEF Pass

-----------------------------------------------------------------------------
(* What is in force.                                                       *)

\* tc takes every field of a valid setting, and what is made of an empty one.
LEMMA ValidIsAccepted ==
  ASSUME NEW i \in Infos, Valid(i)
  PROVE  /\ Accepts(RateOf(i)) /\ Accepts(NetemOf(i))
         /\ RateOf(i) \in (IF RateField[i] = "" THEN {FullRate} ELSE {RateField[i]})
<1>1. FullRate # "" /\ Netem # "" /\ FullRate \notin Refused /\ Netem \notin Refused
  BY QueuesAssumption DEF FullRate, Netem
<1>2. RateField[i] \notin Refused /\ NetemField[i] \notin Refused
  BY DEF Valid
<1> QED
  BY <1>1, <1>2 DEF Accepts, RateOf, NetemOf

\* The last command of a direction puts its setting in force.
LEMMA SetNetemApplies ==
  ASSUME DoneInv, Undisturbed, SetNetem, NEW p \in Pods, p = cur, NEW d \in Dirs, d = dir,
         phase[p] \in Live, NEW i \in Infos, i = Setting, Valid(i)
  PROVE  Applied(p, d, i)'
<1>1. pc = "netem" /\ ~Fault("tc")
  BY NoDisturbance DEF SetNetem, On, At
<1>2. PICK f \in Matching(d, AddressOf[p]) : f.flowid = cid
  BY <1>1 DEF DoneInv, SetUpSoFar, ChaosStages
<1>3. HasClass(d, cid) /\ leaf[d][cid] # Pfifo /\ rate[d][cid] = RateOf(i)
  BY <1>1, ValidIsAccepted DEF DoneInv, SetUpSoFar, ChaosStages
<1>4. LeafSet(d, cid, NetemOf(i))
  BY <1>1, <1>3, ValidIsAccepted DEF SetNetem, Exec, Run, HasLeaf, HasClass
<1>5. UNCHANGED <<link, filters, classes, rate, veth>> /\ leaf'[d][cid] = NetemOf(i)
  <2>1. leaf \in [Dirs -> [ClassIds -> Leaves]] /\ cid \in ClassIds
    BY <1>3, DoneTypes DEF TcTypeOK, HasClass
  <2> QED
    BY <1>4, <2>1 DEF LeafSet
<1>6. veth[p][d] /\ link[d]
  BY <1>1, <1>2 DEF DoneInv, FilteredIsMirrored, LinksStayUp
<1>7. f \in Matching(d, AddressOf[p])'
  BY <1>2, <1>5 DEF Matching
<1>8. rate'[d][f.flowid] \in (IF RateField[i] = "" THEN {FullRate} ELSE {RateField[i]})
  BY <1>2, <1>3, <1>5, ValidIsAccepted
<1> QED
  BY <1>2, <1>3, <1>5, <1>6, <1>7, <1>8 DEF Applied, HasClass

\* A valid setting that has been dealt with is in force.
LEMMA DealtWith ==
  ASSUME NEW p \in Pods, NEW d \in Dirs, DoneInv, pc \in PodStages, p = cur, phase[p] \in Live,
         Passed(d), NeedUpdate(snap[p][d]), ~NeedClear(snap[p][d]),
         snap[p][d].info # NoInfo, Valid(snap[p][d].info)
  PROVE  Applied(p, d, snap[p][d].info)
BY DEF DoneInv, AppliedSoFar

LEMMA CommandApplies ==
  ASSUME DoneInv, Undisturbed, Distinct, Command, phase[cur] \in Live
  PROVE  AppliedSoFar'
<1>1. /\ UNCHANGED <<phase, cur, snap>> /\ cur \in Pods /\ dir \in Dirs
      /\ pc \in ChaosStages \cup ResetStages /\ pc \in PodStages
      /\ pc' \in ChaosStages \cup ResetStages \cup {"update"}
  BY CommandStays, DoneTypes, WorkedOnIsHeld
     DEF clusterVars, heldVars, PodStages, ChaosStages, ResetStages
<1> SUFFICES ASSUME NEW p \in Pods, p = cur, NEW d \in Dirs, Passed(d)', NEW a, a = snap[p][d],
                    NeedUpdate(a), ~NeedClear(a), a.info # NoInfo, Valid(a.info)
             PROVE  Applied(p, d, a.info)'
  BY <1>1 DEF AppliedSoFar
<1>2. a.info \in Infos
  BY DoneTypes DEF Annotation
<1>3. CASE Passed(d) /\ d # dir
  <2>1. Applied(p, d, a.info)
    BY <1>1, <1>3, DealtWith
  <2> QED
    BY <1>3, <2>1, CommandSamePath, AppliedStays
<1>4. CASE ~Leave
  <2>1. dir' = dir /\ pc' # "update"
    BY <1>4 DEF Command, Reconcile, Unredirect, Redirect, AddFilter, AddClass, DelNetem, AddNetem,
                Rate, SetNetem, Unmirror, ResetFilter, ResetClass, Exec, Run, Goto
  <2>2. Passed(d) /\ d # dir
    BY <1>1, <2>1 DEF Passed
  <2> QED
    BY <1>3, <2>2
<1>5. CASE Leave
  <2>1. CASE d # dir
    <3>1. ~(dir = "ingress" /\ d = "egress" /\ pc' = "update")
      BY <1>1, <1>5 DEF Leave, Begin, Updated, Dirs
    <3>2. Passed(d)
      BY <1>1, <1>5, <2>1, <3>1 DEF Leave, Begin, Passed, Dirs
    <3> QED
      BY <1>3, <2>1, <3>2
  <2>2. CASE d = dir
    <3>1. a.info = Setting
      BY <2>2 DEF Setting
    <3>2. pc \notin ResetStages
      BY <2>2, DoneTypes DEF AckInv, WorksOnDue
    <3>3. SetNetem
      BY <1>5, <3>1, <3>2, LeaveType, DoneTypes
         DEF Command, Reconcile, Unredirect, Redirect, AddFilter, AddClass, DelNetem, AddNetem,
             Rate, Unmirror, ResetFilter, ResetClass, Exec, Run, Goto, On, At, ResetStages
    <3> QED
      BY <1>1, <1>2, <2>2, <3>1, <3>3, SetNetemApplies
  <2> QED
    BY <2>1, <2>2
<1> QED
  BY <1>4, <1>5

LEMMA NextAppliedSoFar ==
  ASSUME DoneInv, Undisturbed, Distinct, [Next]_vars
  PROVE  AppliedSoFar'
<1>1. CASE pc' \notin PodStages
  BY <1>1 DEF AppliedSoFar
<1>2. CASE Command
  <2>1. UNCHANGED <<phase, cur>>
    BY <1>2, CommandStays DEF clusterVars, heldVars
  <2>2. CASE phase[cur] \in Live
    BY <1>2, <2>2, CommandApplies
  <2>3. CASE phase[cur] \notin Live
    BY <2>1, <2>3 DEF AppliedSoFar
  <2> QED
    BY <2>2, <2>3
<1>3. CASE SweepFilter \/ SweepClass
  BY <1>1, <1>3, SweepStays DEF PodStages
<1>4. CASE LinkUp \/ InitIfb \/ StartSweep
  BY <1>1, <1>4, InitialStages DEF PodStages
<1>5. CASE List \/ Update
  BY <1>1, <1>5, ListIsComplete, UpdateAnswers DEF PodStages
<1>6. ASSUME NEW p \in Pods, Pod(p) PROVE AppliedSoFar'
  <2>1. CASE /\ cur' = p /\ UNCHANGED snap
             /\ pc' \in {"reconcile", "unmirror"}
             /\ dir' = IF "ingress" \in Updated(snap[p]) THEN "ingress" ELSE "egress"
    <3> SUFFICES ASSUME NEW d \in Dirs, Passed(d)', NeedUpdate(snap[p][d]) PROVE FALSE
      BY <2>1 DEF AppliedSoFar
    <3>1. dir' = "egress" /\ d = "ingress"
      BY <2>1 DEF Passed
    <3>2. "ingress" \in Updated(snap[p])
      BY <3>1 DEF Updated
    <3> QED
      BY <2>1, <3>1, <3>2
  <2>2. CASE pc' = "linkUp"
    BY <1>1, <2>2 DEF PodStages
  <2> QED
    BY <1>6, <2>1, <2>2, PodBegins
<1>7. CASE Around
  <2>1. UNCHANGED <<pc, snap, cur, dir>>
    BY <1>7, AroundStays
  <2>2. pc \in PodStages => cur \in Held /\ cur \in Pods
    BY WorkedOnIsHeld, DoneTypes
  <2> SUFFICES ASSUME pc \in PodStages, NEW p \in Pods, p = cur, phase'[p] \in Live,
                      NEW d \in Dirs, Passed(d)', NEW a, a = snap[p][d],
                      NeedUpdate(a), ~NeedClear(a), a.info # NoInfo, Valid(a.info)
               PROVE  Applied(p, d, a.info)'
    BY <2>1, <2>2 DEF AppliedSoFar
  <2>3. ~DeletePod(p) /\ phase[p] \in Live
    BY <1>7, <2>2, AroundLives
  <2>4. Passed(d)
    BY <2>1 DEF Passed
  <2>5. Applied(p, d, a.info)
    BY <2>3, <2>4, DealtWith
  <2> QED
    BY <1>7, <2>3, <2>5, OutsideSamePath, AppliedStays
<1> QED
  BY <1>2, <1>3, <1>4, <1>5, <1>6, <1>7, StepsLeft DEF Pass

\* What has just been answered is in force.
LEMMA AnsweredIsApplied ==
  ASSUME DoneInv, Update, NEW p \in Pods, p = cur, NEW d \in Dirs, phase[p] = "ready",
         NEW a, a = ann'[p][d], a.done = "yes", ann[p][d].done # "yes",
         a.info # NoInfo, Valid(a.info)
  PROVE  Applied(p, d, a.info)
<1>1. /\ p \in Held /\ pc = "update"
      /\ ann[p] \in [Dirs -> Annotation]
  BY UpdateAnswers, DoneTypes
<1>2. a = [ann[p][d] EXCEPT !.done = "yes"] /\ NeedUpdate(ann[p][d]) /\ ~NeedClear(ann[p][d])
  <2>1. a # ann[p][d] /\ a # NoAnnotation
    BY DEF NoAnnotation
  <2>2. a = [ann[p][d] EXCEPT !.done = "yes"] /\ ~NeedClear(ann[p][d])
    BY <2>1, KeysGoWhenClean, DoneTypes
  <2>3. NeedUpdate(ann[p][d])
    BY <2>1, AnswerIsTrue, DoneTypes
  <2> QED
    BY <2>2, <2>3
<1>3. a.info = ann[p][d].info
  BY <1>1, <1>2 DEF Annotation
<1>4. p \notin stale
  BY <1>2 DEF Update, UpdateStatus, UpdateAccepted
<1>5. snap[p] = ann[p]
  BY <1>1, <1>4, DoneTypes DEF AckInv, CopiesAreCurrent, Live
<1> QED
  BY <1>1, <1>2, <1>3, <1>5, DealtWith DEF Passed, PodStages, Live

LEMMA NextDoneMeansApplied ==
  ASSUME DoneInv, Undisturbed, Distinct, [Next]_vars
  PROVE  DoneMeansApplied'
<1> SUFFICES ASSUME NEW p \in Pods, p \in labelled', NEW d \in Dirs, NEW a, a = ann'[p][d],
                    phase'[p] = "ready", a.done = "yes", a.info # NoInfo, Valid(a.info)
             PROVE  Applied(p, d, a.info)'
  <2>1. labelled' \subseteq Pods
    BY NextType, DoneTypes DEF TypeInv, TypeOK, ClusterTypeOK
  <2> QED
    BY <2>1 DEF DoneMeansApplied
<1>1. ASSUME p \in labelled, ann[p][d].done = "yes", ann[p][d].info = a.info, phase[p] = "ready"
      PROVE  Applied(p, d, a.info)
  BY <1>1 DEF DoneInv, DoneMeansApplied
<1>2. CASE LinkUp
  <2>1. Applied(p, d, a.info)
    BY <1>1, <1>2, InitialStages DEF clusterVars
  <2>2. UNCHANGED <<veth, filters, classes, rate, leaf>> /\ link' = [link EXCEPT ![dir] = TRUE]
    BY <1>2, NoDisturbance DEF LinkUp, Run, LinkSet
  <2>3. link \in [Dirs -> BOOLEAN]
    BY DoneTypes DEF TcTypeOK
  <2> QED
    BY <2>1, <2>2, <2>3 DEF Applied, Matching, HasClass
<1>3. CASE Pass
  <2>1. SamePath(p, d) /\ phase[p] = "ready" /\ p \in labelled
    <3>1. UNCHANGED <<phase, labelled>> /\ ~DeletePod(p)
      BY <1>3, PassStays, DoneTypes DEF DeletePod
    <3> QED
      BY <1>3, <3>1, OutsideSamePath
  <2>2. Applied(p, d, a.info)
    <3>1. CASE ann'[p] = ann[p]
      BY <1>1, <2>1, <3>1
    <3>2. CASE Update /\ p = cur
      <4>1. CASE ann[p][d].done # "yes"
        BY <2>1, <3>2, <4>1, AnsweredIsApplied
      <4>2. CASE ann[p][d].done = "yes"
        <5>1. ~NeedUpdate(ann[p][d]) /\ ann'[p][d] # NoAnnotation
          BY <4>2 DEF NeedUpdate, NoAnnotation
        <5>2. \/ ann'[p][d] = ann[p][d] \/ ann'[p][d] = NoAnnotation \/ NeedUpdate(ann[p][d])
          BY <3>2, AnswerIsTrue, DoneTypes
        <5>3. ann'[p][d] = ann[p][d]
          BY <5>1, <5>2
        <5> QED
          BY <1>1, <2>1, <5>3
      <4> QED
        BY <4>1, <4>2
    <3>3. CASE Update /\ p # cur
      BY <3>1, <3>3, UpdateAnswers
    <3>4. CASE ~Update
      <4>1. ann' = ann
        BY <1>3, <3>4 DEF Pass, InitIfb, List, StartSweep, Pod, On, At, clusterVars
      <4> QED
        BY <3>1, <4>1
    <3> QED
      BY <3>2, <3>3, <3>4
  <2> QED
    BY <2>1, <2>2, AppliedStays
<1>4. CASE Command
  <2>1. UNCHANGED <<phase, ann, labelled>> /\ pc \in ChaosStages \cup ResetStages
    BY <1>4, CommandStays DEF clusterVars
  <2>2. ~(p = cur /\ d = dir)
    <3>1. phase[p] \in Live /\ ~NeedUpdate(ann[p][d])
      BY <2>1 DEF Live, NeedUpdate
    <3>2. p = cur => p \in Held
      BY <2>1, WorkedOnIsHeld, DoneTypes DEF PodStages, ChaosStages, ResetStages
    <3> QED
      BY <2>1, <3>1, <3>2, DoneTypes DEF CleanInv, RequestsStayOpen, AckInv, WorksOnDue
  <2> QED
    BY <1>1, <1>4, <2>1, <2>2, CommandSamePath, AppliedStays
<1>5. CASE SweepFilter \/ SweepClass
  <2>1. UNCHANGED <<phase, ann, labelled>> /\ pc \in {"sweepFilter", "sweepClass"}
    BY <1>5, SweepStays DEF clusterVars
  <2>2. p \in listed
    BY <2>1 DEF DoneInv, AckedAreListed, Selected, Acked, Live
  <2> QED
    BY <1>1, <1>5, <2>1, <2>2, SweepSamePath, AppliedStays
<1>6. CASE Around
  <2>1. /\ p \in labelled /\ phase[p] = "ready"
        /\ ann[p][d].done = "yes" /\ ann[p][d].info = a.info
    BY <1>6, AroundAnswered DEF Live
  <2>2. ~DeletePod(p)
    BY <1>6, AroundLives DEF Live
  <2> QED
    BY <1>1, <1>6, <2>1, <2>2, OutsideSamePath, AppliedStays
<1> QED
  BY <1>2, <1>3, <1>4, <1>5, <1>6, StepsLeft

-----------------------------------------------------------------------------

LEMMA NextDone == DoneInv /\ Undisturbed /\ Distinct /\ Room /\ [Next]_vars => DoneInv'
<1> SUFFICES ASSUME DoneInv, Undisturbed, Distinct, Room, [Next]_vars PROVE DoneInv'
  OBVIOUS
<1>1. Orderly /\ Attentive /\ Uninterrupted
  BY NoDisturbance
<1>2. pc # "clearUpdate"
  BY DEF DoneInv, NodeIsKept, ClearStages
<1>3. ReleaseInv'
  BY <1>1, <1>2, NextRelease, DoneTypes
<1>4. ApartInv'
  BY <1>1, NextClasses, NextListed, NextOwn, DoneTypes DEF ApartInv
<1> QED
  BY <1>3, <1>4, NextNodeIsKept, NextLinksStayUp, NextFilteredIsMirrored, NextHeldAreListed,
     NextAckedAreListed, NextCopiesAreLabelled, NextSetUpSoFar, NextAppliedSoFar,
     NextDoneMeansApplied DEF DoneInv

LEMMA InitDone == Init => DoneInv
<1> SUFFICES ASSUME Init PROVE DoneInv
  OBVIOUS
<1>1. /\ Held = {} /\ labelled = {} /\ pc = "linkUp" /\ dir = "egress" /\ ~nodeClear /\ nodeLabel
      /\ \A d \in Dirs : filters[d] = {}
  BY KubeChaosAssumption DEF Init, TcInit, Held
<1>2. NodeIsKept /\ LinksStayUp /\ FilteredIsMirrored
  BY <1>1 DEF NodeIsKept, ClearStages, LinksStayUp, FilteredIsMirrored, Matching
<1>3. HeldAreListed /\ AckedAreListed /\ CopiesAreLabelled
  BY <1>1 DEF HeldAreListed, AckedAreListed, CopiesAreLabelled, PodStages
<1>4. SetUpSoFar /\ AppliedSoFar /\ DoneMeansApplied
  BY <1>1 DEF SetUpSoFar, AppliedSoFar, DoneMeansApplied, ChaosStages, PodStages
<1> QED
  BY <1>2, <1>3, <1>4, InitRelease, InitApart DEF DoneInv

\* Where nothing happens to the agent but that its updates fail, no two pods have
\* one address, users do nothing unusual but that they set what they are still
\* clearing or write a clear key by itself, and the tables have room for every
\* address of the pool, "yes" in the done key of a labelled pod means that its
\* current setting, unless tc refuses a field of it, is what its traffic goes
\* through.
THEOREM DoneIsApplied == Undisturbed /\ Distinct /\ Room => (Spec => []DoneMeansApplied)
<1> SUFFICES ASSUME Undisturbed, Distinct, Room PROVE Spec => []DoneMeansApplied
  OBVIOUS
<1>1. DoneInv /\ [Next]_vars => DoneInv'
  BY NextDone
<1>2. DoneInv => DoneMeansApplied
  BY DEF DoneInv
<1> QED
  BY <1>1, <1>2, InitDone, PTL DEF Spec
=============================================================================
