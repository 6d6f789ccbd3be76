-------------------------- MODULE TcShowProperties --------------------------
(***************************************************************************)
(* KubeChaos takes for granted that the agent reads from the text of tc    *)
(* what the tables of the kernel hold (Finds, Extra, IsNextClassID and     *)
(* HasClass of TrafficControl).  Here that is shown of the functions that  *)
(* read the text.                                                          *)
(***************************************************************************)
EXTENDS TcShow

Entries == {shown[k] : k \in 1 .. Len(shown)}
Ids     == {e.id : e \in Entries}

\* The tables behind the text, as TrafficControl has them; of the two ifbs one
\* is enough.  What the text does not show is left bare.
Kernel == INSTANCE TrafficControl WITH
  Infos <- {}, NoInfo <- "", RateField <- <<>>, NetemField <- <<>>, Refused <- {},
  Pods <- {}, Addresses <- Cidrs, MaxClass <- LastClass, MaxFilter <- 2048,
  link <- <<>>, root <- <<>>, rate <- <<>>, leaf <- <<>>, veth <- <<>>,
  filters <- [egress |-> Entries],
  classes <- [egress |-> Ids]

-----------------------------------------------------------------------------

\* findCIDRClass returns the class and the handle of the first filter of the
\* address, though header and match are on lines apart, other headers lie
\* between, and an address may have a second filter; it finds nothing for an
\* address that has no filter, such as any of IPv6; and it fails where the
\* address is missing or tc shows filters in words it does not expect
\* (tcshaper.go:91-129).
FindReadsTheTable ==
  Returned("findCIDRClass") =>
    LET hits == {f \in Entries : Kernel!Finds(f, "egress", arg)}
    IN  /\ ret.err <=> ~Parses(arg) \/ (hits # {} /\ lines[3].words # 19)
        /\ ret.found <=> ~ret.err /\ hits # {}
        /\ ret.found =>
             \E f \in hits : ret.value = [flowid |-> f.flowid, handle |-> f.handle]

\* The CIDRs that the sweep compares with those of the listed pods are spelled
\* as the main loop spells them, one for each filter: no listed pod's filter is
\* taken for an extra one because of its spelling (tcshaper.go:710-739 and 753,
\* utils.go:100-118, kube-chaos.go:162).
CIDRsKeepTheirSpelling ==
  Returned("getCIDRs") =>
    ret.found /\ ret.value = [k \in 1 .. Len(shown) |-> shown[k].cidr]

\* nextClassID returns the least id without a class, whether or not the classes
\* have leaf queues; it fails only when none is left or a line of the text has
\* a length it does not expect (tcshaper.go:55-88).
NextClassIsFree ==
  Returned("nextClassID") =>
    \/ ret.found /\ Kernel!IsNextClassID(ret.value, Ids)
    \/ /\ ret.err
       /\ \/ 1 .. LastClass \subseteq Ids
          \/ \E e \in Entries : e.words \notin {14, 16}

\* classExists tells whether the class is shown (tcshaper.go:132-158).
ClassExistsReadsTheTable ==
  Returned("classExists") => (ret.found <=> Kernel!HasClass("egress", arg)) /\ ~ret.err
=============================================================================
