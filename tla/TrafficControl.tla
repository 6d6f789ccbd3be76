--------------------------- MODULE TrafficControl ---------------------------
(***************************************************************************)
(* The kernel's traffic-control state that the agent drives through `tc`   *)
(* and `ip`, and the effect of each command it issues (external: the       *)
(* kernel is modelled from the commands in pkg/flow/tcshaper.go and        *)
(* pkg/flow/ifb.go and from how that code reads the `show` output).        *)
(*                                                                         *)
(* A direction of the traffic has one ifb device: the egress of the pods   *)
(* passes through firstIFB, their ingress through secondIFB.  On an ifb    *)
(* an htb root holds one class per pod, a u32 filter selects the class by  *)
(* the pod's address, and the class has a rate and, as its leaf, either    *)
(* the default pfifo or a netem queue.  A pod's veth redirects the traffic *)
(* of a direction to the ifb of that direction.                            *)
(***************************************************************************)
EXTENDS Naturals, ChaosInfo

CONSTANTS
  Pods,        \* pod objects; an object that was deleted never comes back
  Addresses,   \* the addresses of the node's address pool
  MaxClass,    \* class ids are 1 .. MaxClass (9999 in nextClassID)
  MaxFilter    \* u32 filter handles of one ifb (2048 in the kernel)

ASSUME LimitsAssumption == MaxClass \in Nat /\ MaxFilter \in Nat

VARIABLES
  link,     \* link[d]: the ifb of d is up
  root,     \* root[d]: the ifb of d has its root queue, "htb 1:"
  filters,  \* filters[d]: the u32 filters of the ifb of d
  classes,  \* classes[d]: the ids of the htb classes of the ifb of d
  rate,     \* rate[d][c]: the rate of class c
  leaf,     \* leaf[d][c]: the leaf queue of class c
  veth      \* veth[p][d]: p's interface redirects d to the ifb of d

tcVars == <<link, root, filters, classes, rate, leaf, veth>>

ClassIds  == 1 .. MaxClass
Handles   == 1 .. MaxFilter
Filter    == [cidr : Addresses, flowid : ClassIds, handle : Handles]

TcTypeOK ==
  /\ link    \in [Dirs -> BOOLEAN]
  /\ root    \in [Dirs -> BOOLEAN]
  /\ filters \in [Dirs -> SUBSET Filter]
  /\ classes \in [Dirs -> SUBSET ClassIds]
  /\ rate    \in [Dirs -> [ClassIds -> Rates]]
  /\ leaf    \in [Dirs -> [ClassIds -> Leaves]]
  /\ veth    \in [Pods -> [Dirs -> BOOLEAN]]

\* A node that has just booted: the ifb devices are down and bare.
TcInit ==
  /\ link    = [d \in Dirs |-> FALSE]
  /\ root    = [d \in Dirs |-> FALSE]
  /\ filters = [d \in Dirs |-> {}]
  /\ classes = [d \in Dirs |-> {}]
  /\ rate    = [d \in Dirs |-> [c \in ClassIds |-> FullRate]]
  /\ leaf    = [d \in Dirs |-> [c \in ClassIds |-> Pfifo]]
  /\ veth    = [p \in Pods |-> [d \in Dirs |-> FALSE]]

-----------------------------------------------------------------------------
(* What the code reads from `tc filter show` and `tc class show`.          *)

Matching(d, a) == {f \in filters[d] : f.cidr = a}

\* f is the filter that findCIDRClass returns for the address: the first one
\* that `show` lists.
Finds(f, d, a) ==
  /\ f \in Matching(d, a)
  /\ \A g \in Matching(d, a) : f.handle <= g.handle

\* A bug one could write: the scan starts at 1 and forgets to look at the
\* classes in use.
IsNextClassIDIgnoringUse(n, used) == n \in ClassIds /\ n = 1

\* n is the id nextClassID returns when the classes in `used` are shown;
\* no n is when the class space is exhausted.
IsNextClassID(n, used) ==
  /\ n \in ClassIds \ used
  /\ \A m \in ClassIds \ used : n <= m

\* The handle the kernel gives to a new filter of the ifb of d.
IsNewHandle(h, d) ==
  LET free == Handles \ {f.handle : f \in filters[d]}
  IN  h \in free /\ \A g \in free : h <= g

-----------------------------------------------------------------------------
(* When a command succeeds; otherwise tc reports an error and changes nothing. *)

CanAddFilter(d)   == root[d] /\ Handles # {f.handle : f \in filters[d]}
CanAddClass(d, c) == root[d] /\ c \in ClassIds \ classes[d]
HasClass(d, c)    == c \in classes[d]
HasLeaf(d, c)     == c \in classes[d] /\ leaf[d][c] # Pfifo
LacksLeaf(d, c)   == c \in classes[d] /\ leaf[d][c] = Pfifo

-----------------------------------------------------------------------------
(* The effect of the commands.                                             *)

\* tc filter add dev <ifb> parent 1:0 ... flowid 1:<c>
FilterAdd(d, a, c) ==
  /\ \E h \in Handles :
       /\ IsNewHandle(h, d)
       /\ filters' = [filters EXCEPT ![d] = @ \cup {[cidr |-> a, flowid |-> c, handle |-> h]}]
  /\ UNCHANGED <<link, root, classes, rate, leaf, veth>>

\* tc filter del dev <ifb> parent 1: ... handle <h> u32
FilterDel(d, f) ==
  /\ filters' = [filters EXCEPT ![d] = @ \ {f}]
  /\ UNCHANGED <<link, root, classes, rate, leaf, veth>>

\* tc filter del dev <ifb> parent 1:   (no handle: every filter of the parent)
FilterDelAll(d) ==
  /\ filters' = [filters EXCEPT ![d] = {}]
  /\ UNCHANGED <<link, root, classes, rate, leaf, veth>>

\* tc class add dev <ifb> parent 1: classid 1:<c> htb rate 4gbps
ClassAdd(d, c) ==
  /\ classes' = [classes EXCEPT ![d] = @ \cup {c}]
  /\ UNCHANGED <<link, root, filters, rate, leaf, veth>>

\* tc class del dev <ifb> parent 1: classid 1:<c>; the leaf goes with it.
ClassDel(d, c) ==
  /\ classes' = [classes EXCEPT ![d] = @ \ {c}]
  /\ rate' = [rate EXCEPT ![d][c] = FullRate]
  /\ leaf' = [leaf EXCEPT ![d][c] = Pfifo]
  /\ UNCHANGED <<link, root, filters, veth>>

\* tc class change dev <ifb> parent 1: classid 1:<c> htb rate <r>
ClassChange(d, c, r) ==
  /\ rate' = [rate EXCEPT ![d][c] = r]
  /\ UNCHANGED <<link, root, filters, classes, leaf, veth>>

\* tc qdisc del | add ... netem | change ... netem <i>, dev <ifb> parent 1:<c>
LeafSet(d, c, queue) ==
  /\ leaf' = [leaf EXCEPT ![d][c] = queue]
  /\ UNCHANGED <<link, root, filters, classes, rate, veth>>

\* The queues and the redirecting filter of the veth of p, set up or deleted.
VethSet(p, d, on) ==
  /\ veth' = [veth EXCEPT ![p][d] = on]
  /\ UNCHANGED <<link, root, filters, classes, rate, leaf>>

\* The interface of p goes away with its pod.
VethGone(p) ==
  /\ veth' = [veth EXCEPT ![p] = [d \in Dirs |-> FALSE]]
  /\ UNCHANGED <<link, root, filters, classes, rate, leaf>>

\* ip link set dev <ifb> up | down
LinkSet(d, on) ==
  /\ link' = [link EXCEPT ![d] = on]
  /\ UNCHANGED <<root, filters, classes, rate, leaf, veth>>

\* tc qdisc add dev <ifb> root handle 1: htb default 0
RootAdd(d) ==
  /\ root' = [root EXCEPT ![d] = TRUE]
  /\ UNCHANGED <<link, filters, classes, rate, leaf, veth>>

\* tc qdisc del dev <ifb> root; the filters and the classes go with it.
RootDel(d) ==
  /\ root' = [root EXCEPT ![d] = FALSE]
  /\ filters' = [filters EXCEPT ![d] = {}]
  /\ classes' = [classes EXCEPT ![d] = {}]
  /\ rate' = [rate EXCEPT ![d] = [c \in ClassIds |-> FullRate]]
  /\ leaf' = [leaf EXCEPT ![d] = [c \in ClassIds |-> Pfifo]]
  /\ UNCHANGED <<link, veth>>
=============================================================================
