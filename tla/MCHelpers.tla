----------------------------- MODULE MCHelpers -----------------------------
(***************************************************************************)
(* The helper functions of the agent: a call of one that reads the text of *)
(* tc, or calls of the methods of string sets, one after another.          *)
(***************************************************************************)
EXTENDS TcShowProperties, StringSets

\* Three IPv4 addresses that differ in a digit, in the order of digits and in
\* every octet; one of IPv6; and the "/32" of a pod without an address.
HostA == Host(<<10, 0, 0, 1>>)
HostB == Host(<<10, 0, 0, 16>>)
HostC == Host(<<192, 168, 254, 255>>)
IPv6  == Host([k \in 1 .. 16 |-> IF k = 1 THEN 253 ELSE k % 2])
NoIP  == Host(<<>>)

MCCidrs == {HostA, HostB, HostC, IPv6, NoIP}

\* Up to three filters, two of one address or of one class among them.
MCTables ==
  UNION {{[k \in 1 .. n |-> [cidr |-> f[k][1], flowid |-> f[k][2], handle |-> k]] :
            f \in [1 .. n -> {HostA, HostB, HostC} \X {1, 2}]} : n \in 0 .. 3}

\* Up to three classes, in the order of their making, with leaf queues or not;
\* 15 words stand for a text that is not expected.
MCClassLists ==
  UNION {{[k \in 1 .. n |-> [id |-> f[k][1], words |-> f[k][2]]] :
            f \in {g \in [1 .. n -> (1 .. 3) \X {14, 15, 16}] :
                     \A j, k \in 1 .. n : g[j][1] = g[k][1] => j = k}} : n \in 0 .. 3}

Init == CallsInit /\ ScanInit /\ SetsInit

\* The scans keep nothing from one call to the next: one of them is enough.
\* The set methods follow one another on the same receiver.
Scans == {"findCIDRClass", "getCIDRs", "nextClassID", "classExists"}

Next ==
  \/ (op = "none" \/ (op \in Scans /\ ~done)) /\ ShowNext /\ UNCHANGED setVars
  \/ op \notin Scans /\ SetsNext /\ UNCHANGED scanVars

Spec == Init /\ [][Next]_<<callVars, scanVars, setVars>>
=============================================================================
