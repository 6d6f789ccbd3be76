----------------------------- MODULE ChaosInfo -----------------------------
(***************************************************************************)
(* What ExecTcChaos (pkg/flow/tcshaper.go) makes of a setting.  The text   *)
(* of a setting is split at its commas: the first field is a rate, the     *)
(* rest are the parameters of netem.  ",delay,10ms" leaves the rate empty, *)
(* "100kbps" has no netem parameters.                                      *)
(***************************************************************************)
EXTENDS ChaosAnnotations

CONSTANTS
  RateField,   \* RateField[i]: the first field of setting i, "" if empty
  NetemField,  \* NetemField[i]: the fields after it, "" if there is none
  Refused      \* the fields that tc rejects, "" apart

ASSUME FieldsAssumption ==
  /\ RateField \in [Infos -> STRING]
  /\ NetemField \in [Infos -> STRING]
  /\ Refused \subseteq STRING

FullRate == "4gbps"   \* the rate of a class nobody has limited
Pfifo    == "pfifo"   \* the leaf a class is created with
Netem    == "netem"   \* a netem queue without parameters

Rates  == {FullRate} \cup {RateField[i] : i \in Infos}
Leaves == {Pfifo, Netem} \cup {NetemField[i] : i \in Infos}

ASSUME QueuesAssumption ==
  /\ {Pfifo, Netem} \cap {NetemField[i] : i \in Infos} = {}
  /\ {FullRate, Netem} \cap Refused = {}

\* A bug one could write: an empty rate is passed on as it is.
RateOfUndefaulted(i) == RateField[i]

\* The rate that is handed to tc: an empty one means the highest there is.
RateOf(i) == IF RateField[i] = "" THEN FullRate ELSE RateField[i]

\* `netem` followed by no parameter is a netem queue that does nothing.
NetemOf(i) == IF NetemField[i] = "" THEN Netem ELSE NetemField[i]

\* tc takes the field.
Accepts(field) == field \notin Refused \cup {""}

\* tc takes every field of the setting.
Valid(i) == {RateField[i], NetemField[i]} \cap Refused = {}
=============================================================================
