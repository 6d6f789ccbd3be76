-------------------------- MODULE ChaosAnnotations --------------------------
(***************************************************************************)
(* The annotation protocol between a user and the agent, pkg/flow/utils.go.*)
(* Every pod carries, for each direction of its traffic, three keys:       *)
(*   kubernetes.io/<direction>-chaos        the setting                    *)
(*   kubernetes.io/done-<direction>-chaos   "no" asks, "yes" acknowledges  *)
(*   kubernetes.io/clear-<direction>-chaos  present when chaos is to end   *)
(* A setting is opaque here: all the agent does with its text is to split  *)
(* it at commas and to pass the pieces to tc.                              *)
(***************************************************************************)
CONSTANTS
  Infos,     \* the settings a user may ask for
  NoInfo     \* "": the setting's key is absent

ASSUME InfosAssumption == NoInfo \notin Infos

Dirs == {"ingress", "egress"}

\* Any value of the done key other than "yes" asks for an update; "no" stands
\* for all of them.
DoneFlag == {"absent", "no", "yes"}

Annotation == [info : Infos \cup {NoInfo}, done : DoneFlag, clear : BOOLEAN]

NoAnnotation == [info |-> NoInfo, done |-> "absent", clear |-> FALSE]

Unannotated == [d \in Dirs |-> NoAnnotation]

NeedUpdate(a) == a.done \notin {"absent", "yes"}

NeedClear(a) == a.clear

\* The directions of a pod's annotations that ask for something, and those
\* that carry the clear key (whether or not they ask for anything).
Updated(anns) == {d \in Dirs : NeedUpdate(anns[d])}
Cleared(anns) == {d \in Dirs : NeedClear(anns[d])}

\* Bugs one could write: the done key survives a clear, the done key gets a
\* value nobody expects, or it is not written at all.
SetPodChaosUpdatedKeepsDone(anns, upd, clr) ==
  [d \in Dirs |-> IF d \in upd THEN [anns[d] EXCEPT !.done = "yes", !.clear = FALSE]
                               ELSE anns[d]]
SetPodChaosUpdatedTypo(anns, upd, clr) ==
  [d \in Dirs |-> IF d \in clr THEN NoAnnotation
                  ELSE IF d \in upd THEN [anns[d] EXCEPT !.done = "done"]
                  ELSE anns[d]]
SetPodChaosUpdatedUndone(anns, upd, clr) ==
  [d \in Dirs |-> IF d \in clr THEN NoAnnotation ELSE anns[d]]

\* The acknowledgement: "yes" for the directions of `upd`; all keys of a
\* direction of `clr` go, whether or not the direction is also in `upd`.
SetPodChaosUpdated(anns, upd, clr) ==
  [d \in Dirs |-> IF d \in clr THEN NoAnnotation
                  ELSE IF d \in upd THEN [anns[d] EXCEPT !.done = "yes"]
                  ELSE anns[d]]
=============================================================================
