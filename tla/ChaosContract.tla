--------------------------- MODULE ChaosContract ---------------------------
(***************************************************************************)
(* What kube-chaos promises to the users of a node, without its tables,    *)
(* its passes and its program counter: a direction of a pod's traffic is   *)
(* touched only while a request for it is open or after the pod was given  *)
(* up, and the acknowledgement is written only when the traffic is what    *)
(* was asked for (doc/README.md:219-226).                                  *)
(*                                                                         *)
(* KubeChaos implements this under the conditions of the run "calm"; the   *)
(* refinement mapping is in ChaosRefinement.                               *)
(***************************************************************************)
EXTENDS ChaosInfo

CONSTANT Pods

VARIABLES
  member,  \* the live pods that carry the agent's label
  ann,     \* ann[p][d]: p's annotations for direction d
  net      \* net[p][d]: what happens to p's traffic in direction d

contractVars == <<member, ann, net>>

Quality == [rate : Rates, leaf : Leaves]

\* The traffic is left alone, or is on its way from one quality to another.
Clean == [rate |-> "none", leaf |-> "none"]
Mixed == [rate |-> "mixed", leaf |-> "mixed"]

Nets == Quality \cup {Clean, Mixed}

\* What setting i asks for.
Effect(i) == [rate |-> RateOf(i), leaf |-> NetemOf(i)]

ContractTypeOK ==
  /\ member \subseteq Pods
  /\ ann \in [Pods -> [Dirs -> Annotation]]
  /\ net \in [Pods -> [Dirs -> Nets]]

Init ==
  /\ member = {}
  /\ ann = [p \in Pods |-> Unannotated]
  /\ net = [p \in Pods |-> [d \in Dirs |-> Clean]]

-----------------------------------------------------------------------------

Joined(p) ==
  /\ p \notin member /\ \A d \in Dirs : ann[p][d].done # "yes"
  /\ member' = member \cup {p} /\ UNCHANGED <<ann, net>>

Left(p) ==
  /\ p \in member
  /\ member' = member \ {p} /\ UNCHANGED <<ann, net>>

\* The pod is deleted, and its interface with it.
Gone(p) ==
  /\ member' = member \ {p}
  /\ ann' = [ann EXCEPT ![p] = Unannotated]
  /\ net' = [net EXCEPT ![p] = [d \in Dirs |-> Clean]]

\* A user asks for something in direction d: a setting, or the end of chaos.
Asked(p, d) ==
  /\ \E a \in Annotation :
       /\ NeedUpdate(a)
       /\ ann' = [ann EXCEPT ![p][d] = a]
  /\ UNCHANGED <<member, net>>

\* The traffic changes: for an open request, or since nobody wants it shaped.
Shaped(p, d) ==
  /\ NeedUpdate(ann[p][d]) \/ (p \notin member /\ ann[p][d] # NoAnnotation)
  /\ \E n \in Nets : net' = [net EXCEPT ![p][d] = n]
  /\ UNCHANGED <<member, ann>>

\* The open requests of the pod are answered, and every answer is true.  No
\* quality is promised for a setting that is empty or that tc refuses.
Acknowledged(p) ==
  /\ p \in member /\ Updated(ann[p]) # {}
  /\ \A d \in Updated(ann[p]) :
       \/ NeedClear(ann[p][d]) /\ net[p][d] = Clean
       \/ /\ ~NeedClear(ann[p][d])
          /\ ann[p][d].info \in Infos /\ Valid(ann[p][d].info) =>
               net[p][d] = Effect(ann[p][d].info)
  /\ Cleared(ann[p]) \subseteq Updated(ann[p])
  /\ ann' = [ann EXCEPT ![p] = SetPodChaosUpdated(@, Updated(@), Cleared(@))]
  /\ UNCHANGED <<member, net>>

-----------------------------------------------------------------------------

Next == \E p \in Pods :
  \/ Joined(p) \/ Left(p) \/ Gone(p) \/ Acknowledged(p)
  \/ \E d \in Dirs : Asked(p, d) \/ Shaped(p, d)

Spec == Init /\ [][Next]_contractVars

-----------------------------------------------------------------------------

\* The annotations tell the truth about the traffic: no keys, no chaos; and an
\* acknowledged setting of a pod that still carries the label is in force.
Honest ==
  \A p \in Pods, d \in Dirs :
    LET a == ann[p][d]
    IN  /\ a = NoAnnotation => net[p][d] = Clean
        /\ p \in member /\ a.done = "yes" /\ a.info \in Infos /\ Valid(a.info) =>
             net[p][d] = Effect(a.info)
=============================================================================
