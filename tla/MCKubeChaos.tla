---------------------------- MODULE MCKubeChaos ----------------------------
(***************************************************************************)
(* Values of the constants of KubeChaos for model checking.                *)
(***************************************************************************)
EXTENDS ChaosRefinement, TLC

CONSTANTS p1, p2, a1, a2

OwnAddress    == p1 :> a1 @@ p2 :> a2
SharedAddress == p1 :> a1 @@ p2 :> a1

\* "slow" limits and delays, "lossy" has no rate, tc refuses both fields of
\* "typo".
RateFields  == [i \in Infos |-> CASE i = "slow"  -> "100kbps"
                                  [] i = "lossy" -> ""
                                  [] i = "typo"  -> "100kbsp"]
NetemFields == [i \in Infos |-> CASE i = "slow"  -> "delay 10ms"
                                  [] i = "lossy" -> "loss 50%"
                                  [] i = "typo"  -> "delya 10ms"]

=============================================================================
