# A verification development for kube-chaos

kube-chaos injects network faults into the pods of a Kubernetes node. An agent,
one per node, polls the node's pods, reads the faults users want from pod
annotations, and drives the kernel's traffic control (`tc`) through two ifb
devices. This directory models the agent, the kernel state it drives and the
cluster around it in TLA+, states what it promises as an abstract contract that the model is
shown to implement, model-checks small instances with TLC and proves the central
invariants for all instances with TLAPS. Paths below are relative to the
repository.

## Inventory of the system

| Part | State | Operations | Correct when |
|---|---|---|---|
| Agent main loop, `kube-chaos.go` | the place in the code; the listed pods, as copies; the addresses of the pass | init; list; per pod ingress then egress; acknowledge; sweep; clear the node; park | a request is answered, never acknowledged unseen, and "yes" tells the truth |
| Shaper, `pkg/flow/tcshaper.go` | the class ids of the pod being processed | find or make a class, mirror, netem, rate, reset, sweep | every address has one filter, every filter its own class, every class a filter |
| ifb devices, `pkg/flow/ifb.go` | none of its own | bring up, initialise, clear | bare and down after the node was cleared |
| Annotation protocol, `pkg/flow/utils.go` | six keys per pod | extract, clear flag, acknowledge | keys vanish only when chaos is gone |
| Setting parser, `ExecTcChaos` in `tcshaper.go` | none | rate and netem parameters from the fields of a setting | an empty rate lifts the limit; a refused field leaves no half setting behind later |
| Readers of `tc`'s text, `tcshaper.go`; `hexCIDR`, `asciiCIDR` in `utils.go` | the last header line, what was collected | find a filter by address, list the addresses, find a free class id, look for a class | they read what the kernel's tables hold |
| String sets, `pkg/sets/string.go` | a map | sixteen methods | they compute set algebra and change a receiver only where they should |
| Interface lookup, `pkg/calico/etcdctl.go` | none | `GetWorkload` | a missing record stops only that pod (it does not: see the disagreements) |
| Kernel (external) | links, root queues, filters, classes, rates, leaf queues, redirects | the `tc` and `ip` commands the code issues | |
| API server, users, CNI, kubelet, DaemonSet controller (external) | pods, labels, annotations, addresses, versions | create, wire, report the address, annotate, label, delete; start and kill the agent | |
| `pkg/exec`, `vendor`, manifests, scripts | | not modelled, see the end | |

The agent is one sequential process. It talks to the API server by requests, to
etcd by `etcdctl`, to the kernel by one `tc` process per change. Nothing is
locked: what makes it hard is that

- annotations, labels, pods and addresses change between the list at the start
  of a pass and the `UpdateStatus` at the end of a pod's turn;
- the kernel's tables outlive the agent, which may be killed between any two
  commands and keeps no record of what it has done but the tables and the
  annotations;
- nearly every error is logged and forgotten, so a step runs although the one
  before it failed;
- pods reuse addresses, and tables are keyed by address while redirects are keyed
  by interface;
- the end of the node's chaos depends on a label that the DaemonSet controller
  reacts to later.

`PROJECT.json` lists each hazard at its line with the property that watches it.

## Modules

| Module | Models | Uses |
|---|---|---|
| `ChaosAnnotations` | `utils.go`: the keys of one direction as a record, what they ask for, the acknowledgement | |
| `ChaosInfo` | `ExecTcChaos`: what the fields of a setting ask of `tc`, which of them `tc` refuses | extends `ChaosAnnotations` |
| `TrafficControl` | the kernel's tables, what the code reads from `show`, the effect and the precondition of each command | extends `ChaosInfo` |
| `KubeChaos` | the agent's stages, the cluster, disruptions, fairness | extends `TrafficControl` |
| `ChaosProperties` | the promises | extends `KubeChaos` |
| `ChaosContract` | the abstract specification: labels, annotations and what happens to each pod's traffic, nothing else | extends `ChaosInfo` |
| `ChaosRefinement` | the mapping under which `KubeChaos` implements `ChaosContract` | extends `ChaosProperties`, instantiates `ChaosContract` |
| `MCKubeChaos` | two pods, two addresses, three settings for TLC | extends `ChaosRefinement` |
| `CidrCodec` | `hexCIDR`, `asciiCIDR` and the parts of `net` and `hex` they use, octet by octet | |
| `HelperCalls` | a call of a helper function: made, running, returned | |
| `TcShow` | the scanners of `tc filter show` and `tc class show`, a step per line | extends `CidrCodec`, `HelperCalls` |
| `TcShowProperties` | they read the tables: stated with the operators of `TrafficControl` | extends `TcShow`, instantiates `TrafficControl` |
| `StringSets` | the methods of `string.go`, a step per turn of a loop, and what they promise | extends `HelperCalls` |
| `MCHelpers` | tables, class lists and keys for TLC | extends `TcShowProperties`, `StringSets` |
| `KubeChaosProofs` | types, tables, one pod against the others: the inductive invariants and the proofs | extends `ChaosProperties` |
| `AckProofs` | annotations against requests, and that every pass ends: proofs | extends `KubeChaosProofs` |
| `CleanProofs` | nothing is left where chaos has ended: proofs | extends `AckProofs` |
| `DoneProofs` | there is room for every filter, and an acknowledged setting is in force: proofs | extends `CleanProofs` |
| `RefinementProofs` | the agent implements the contract and gives what it promises: proofs | extends `DoneProofs`, `ChaosRefinement` |
| `ChaosContractProofs` | what the contract promises: proofs | extends `ChaosContract` |
| `TcShowProofs` | the spellings and the scanners: proofs | extends `TcShowProperties` |
| `SetsProofs` | the set methods: proofs | extends `StringSets` |

The two halves meet in `TcShowProperties`. `KubeChaos` says "the agent finds a
filter of this address" with `Finds`, "this id is free" with `IsNextClassID`, "this
class exists" with `HasClass`, and `TcShowProperties` instantiates `TrafficControl` on
the table behind the text and shows that the code which reads the text answers just
that.

### How the state corresponds to the code

`pc` is the command the agent executes next; `cur`, `iface`, `dir`, `cid` are the
pod of the loop variable, whether its interface's name was found, the direction
being processed and the shaper's `ingressClassid` or `egressClassid` (0 for `""`).
`todo` and `snap` are the part of `pods.Items` still to process that needs an
update, with its annotations as listed; `listed` is the set of pods whose address
is in `egressPodsCIDRs` and `ingressPodsCIDRs`. `stale` records which of the
listed copies the API server would refuse. `filters`, `classes`, `rate`, `leaf`
are the tables of the ifb of a direction: egress is `firstIFB`, ingress is
`secondIFB`. `asked` and `tried` are history and are read by no action.

A setting is a member of `Infos`; `RateField` and `NetemField` are its first field and
the others, `""` when empty, and `Refused` are the fields that `tc` rejects. `RateOf`
is the default of `ExecTcChaos`, `4gbps` for an empty rate.

In `TcShow` a line of text is a record of the words the scanners look at and of their
number; `shown` is the table that `tc` was asked about, and is read by no scanner.
In `StringSets` a loop over a map takes any key that is left, `items` is what is left
of a variadic argument.

### How the actions correspond to the code

The code has two copies of most functions, one per direction. The model has one
action for both, with `dir`; `map` in `PROJECT.json` names one copy, and the
other is beside it in the same file.

| Action | Ingress copy | Egress copy |
|---|---|---|
| `Reconcile` | `tcshaper.go:302-322` | `422-440` |
| `Wipe` | `323-335` | `441-453` |
| `Unredirect`, `Redirect` | `342-386` | `461-482` |
| `AddFilter` | `388-406` | `484-502` |
| `AddClass` | `408-415` | `504-511` |
| `DelNetem`, `AddNetem` | `254-262`, `222-235` | `265-273`, `238-251` |
| `Rate`, `SetNetem` | `655-681`, `517-545` | the same |
| `Unmirror`, `ResetFilter`, `ResetClass` | `kube-chaos.go:203-214`, `tcshaper.go:684-707` | `239-250`, the same |
| `SweepFilter`, `SweepClass` | `759-771` | `743-758` |

A command that changes the kernel is one step. `Run(can, effect, next, onError)`
is a command whose error makes its function return; `Exec` one whose error is
ignored or logged. A command fails when the kernel's state does not allow it
(`can`), and otherwise only by the disruption `tc`. Reading commands are merged
with the step that uses what they read: no one but the agent writes the tables.

Other merges: the deletion of a pod removes the API object and the interface
in one step; the queues and the filter of a veth are set up in one step, as only
the last of these commands redirects traffic; the sleep between two passes is no
step of its own. Pods are processed in any order. A pod object never comes back
once deleted; another pod may have its address.

`Redirect` fails while the old queues are still there, which a failed deletion in
`Unredirect` leaves behind. A veth with queues but without the redirecting filter
counts as one without queues: a set-up that `tc` or a kill broke off half-way leaves such
a veth, and the next set-up deletes its queues first. Only if `tc` fails once more, at
that deletion, is the addition refused where the model lets it succeed.

### Disruptions

What can go wrong is chosen by `Disruptions`. `crash`, `tc`, `etcd`, `list` and
`update` each cost one of `MaxFaults`; the others permit users something and
cost an operation, of which there are `MaxOps`: `early` (annotate before the pod
has an address), `relabel` (label again a pod that carries `done=yes`),
`clearOnly` (the clear key without `done=no`), `overlap` (a setting while a clear
is pending), `nodeClear` (`clear-chaos` on the node), `hasty` (label the node
again before its agent is gone). A failing `etcdctl` makes the agent panic when its
message is a single line, and leaves it without the interface's name otherwise.

### The contract and the refinement

`ChaosContract` has three variables. `member` is the set of live pods with the
label, `ann` the annotations, and `net[p][d]` what happens to a pod's traffic in a
direction: `Clean`, a quality (a rate and a leaf queue), or `Mixed`, on the way between
the two. Pods join, leave and go; users ask; the agent may change traffic only for
an open request, or once the pod no longer belongs to it; and it acknowledges all
open requests of a pod at once, only when every answer is true. No passes, no
tables, no program counter.

`ChaosRefinement` maps `KubeChaos` to it. `member` is `Selected`, the pods that a list
request returns. `net` is read off the kernel (`NetOf`): clean without a redirect and
without a filter of the pod's address, and for a pod that is gone; a quality when
redirect, device, filter and class are all there; mixed otherwise. Every command of
a pod's turn is then a `Shaped` step or a stutter, `Update` is `Acknowledged` or, when
it is refused, a stutter. `Contract!Spec` is a `PROPERTY` of the run `calm`, and
`ContractIsHonest` is the theorem that says what users gain by it.

## What TLC checks

Two pods (`p1`, `p2`), two addresses, two class ids, one setting (three in `calm`), one
fault. Two pods are what it takes to share, to steal and to reuse an entry
of a table; a second fault would only repeat a step the first has already made
possible, and every table is keyed by address, so a third pod adds no new kind
of conflict. `MaxClass = 2` lets ids run out after a leak. `UserDirs` limits
the directions users annotate: the agent handles both in every run, but only in
`tables` and `calm` do both carry requests. No symmetry is declared, since most runs
give p1 and p2 different addresses.

| Run | Setting | Shows |
|---|---|---|
| `tables` | all disruptions but `crash` and `tc`; both directions; 4 operations | `ClassIsolation`, `NoLeakedClass`, `RoomIsLeft`, `SeparateControl` |
| `calm` | `update`, `overlap`; both directions; the settings `slow` (rate and delay), `lossy` (no rate) and `typo` (refused by `tc`); 4 operations | `DoneMeansApplied`, `AbsentMeansClean`, `ImplementsContract` |
| `faulty` | all disruptions; the pods share one address; 5 operations | `TypeOK`, `OneFilterPerCidr`, `AckIsCurrent`, `EveryPassEnds` |
| `node_clear` | `nodeClear`, `crash`; fair; 5 operations | `ParkedIsClean`, `ParkedPodsAreReleased`, `NodeClearCompletes` |
| `progress` | `crash`, `tc`, `update`; fair; ingress; 4 operations | `SettingKept`, `RequestAnswered`, `ExtraChaosRemoved` |
| `helpers` | one call of a scanner, or set methods one after another | `FindReadsTheTable`, `CIDRsKeepTheirSpelling`, `NextClassIsFree`, `ClassExistsReadsTheTable`, `AnswersAreSetAlgebra`, `ListIsSorted`, `ReceiverIsKept` |

`tables`, `faulty` and `node_clear` switch deadlock checking off: after the node was
cleared the agent sleeps, and when the operations are used up nobody labels the
node again. In `calm` and `progress` the agent never stops and deadlock is checked.

`helpers` runs over every table of up to three filters of three addresses and two
classes, every list of up to three of three classes with a leaf queue, without one or
with a line of unexpected length, and filter headers of 19 or 21 words; the addresses
asked for are those three, one of IPv6 and a missing one. Three filters are enough for
a wanted address to come first, last and twice, and for headers of others to come
between; three ids are enough for a gap and for none left. The sets have up to four
keys and variadic methods up to two items, so that every order of a loop and both
choices of `Intersection` occur. A call of a scanner leaves nothing behind, hence one is
enough and the run may stop after it.

The promises that hold only under some disruptions are checked under those. For those
that a document or a comment makes without a condition there is a run that shows the
condition to be needed:

| Run | Disruption | What happens |
|---|---|---|
| `crash_wipe` | `crash` | killed between filter and class; the next pass deletes all filters of the device (`tcshaper.go:445`) |
| `reused_address` | none | the address of a deleted pod makes its successor look set up (`tcshaper.go:456`) |
| `failed_list` | `list` | an empty list makes the sweep remove everyone's chaos (`kube-chaos.go:91`) |
| `stuck_node_clear` | `update` | the refused update of the node is never retried (`kube-chaos.go:144`) |
| `host_network_pod` | none | a pod without a record makes every pass panic (`etcdctl.go:56`) |
| `orphaned_redirect` | `nodeClear` | a pod that has lost its label stays redirected to a device that is down (`kube-chaos.go:112`; `doc/README.md:259` says that all settings of the node are cleaned) |

Further conditions are met in the model but have no run of their own, since the
documents do not settle what is meant: after a failed `tc class add` the class id is
given to the next pod as well (`tc`, `tcshaper.go:505`); a clear key that is written
alone on a direction that is not due vanishes while its chaos stays (`clearOnly`,
`kube-chaos.go:255`); a pod annotated before it has an address is
acknowledged without chaos (`early`); a setting written beside a pending clear key
is deleted with it (`overlap`); and an agent that is parked on a node that
is labelled again sleeps on (`hasty`).

### Fairness

`FairSpec` asks weak fairness of the agent's loop (a process that is scheduled;
its commands end), of `Kill` and `Start` (the DaemonSet controller and the
kubelet, which restarts the container), and of `Wire` and `AssignIP` for each pod
(CNI and kubelet). Users owe nothing and no fault has to happen. Fairness of the
whole loop is enough because the agent is sequential: at each stage its choices
come from disruptions, which are bounded, or from the order of the pods of a
pass, each of which is taken once. `EveryPassEnds` shows that it is enough to end a
pass: nothing but the agent's own steps has to happen, and each brings the end nearer.

## What is proved

The theorems hold for all values of the constants that satisfy the assumptions
`InfosAssumption`, `FieldsAssumption`, `QueuesAssumption`, `LimitsAssumption` and
`KubeChaosAssumption`: any number of pods, addresses, settings, ids, faults and
operations. Those about the helper functions rest on `LastClassAssumption` and
`ShownAssumption` (filters are of IPv4 addresses and listed in the order of their
handles, ids and words are numbers) or on `KeysAssumption` (finitely many keys, ordered):
texts and sets of any size. Where a theorem needs fewer disruptions it says so in a
hypothesis.

`KubeChaosProofs`, the kernel's tables and who may touch what in them:

- `TypeCorrect`: `Spec => []TypeOK`. The invariant is `TypeInv`, which adds that
  the agent has a pod at hand in every stage that works on one: without it the
  address a new filter gets need not be an address.
- `CidrsStayUnique`: `Spec => []OneFilterPerCidr`, under every disruption. Alone
  it is not inductive, since adding a filter keeps it only when the address has
  none; `CidrInv` adds `AddressIsFree`: from the search that found nothing (or the
  wipe) to the command that adds the filter there is none of that address. Only
  five actions can disturb it; all others are `Quiet`, they add no filter and do
  not enter those stages.
- `ClassesStayApart` and `ClassesDoNotLeak`: `Uninterrupted => (Spec =>
  []ClassIsolation)` and the same for `NoLeakedClass`, where `Uninterrupted` says that
  neither `crash` nor `tc` is among the disruptions. Both need each other and three
  more facts, together `ClassInv`: a filter leads to a class or to the id that is
  about to be one (`FiltersLead`), that id is still free and the class can be added
  (`ClassIsDue`), and a class about to be deleted has no filter (`ClassIsFree`).
  `NotInterrupted` says that the agent's life does not end in between: the node's
  label goes only when it is parked. The hypothesis is needed for the first: after a
  failed `tc class add` an id is given twice; and for the second: a kill between the
  two deletions of `Reset` leaks a class.
- `PodsAreControlledApart`: `Uninterrupted /\ Distinct => (Spec => SeparateControl)`, where
  `Distinct` says that no two pods share an address. `ApartInv` adds to `ClassInv` that the
  class in the shaper's hands has no other address's filter (`OwnClass`: a rate or netem
  command then reaches nobody else) and that no pod is listed while no list is in use
  (`NothingListed`: `ClearIfb` deletes everybody's classes, and may). The property is one of
  steps, so the proof looks at every step of the agent from a state of `ApartInv`.

`AckProofs`, the annotations against what users asked for:

- `AcknowledgedIsAsked`: `Spec => []AckIsCurrent`, under every disruption. The invariant
  `AckInv` follows a request through a pass: a listed copy that the API server would
  accept is the current version (`CopiesAreCurrent`), what waits for an answer is what
  was asked for last (`WaitingIsAsked`), the agent works on directions that ask for it
  (`WorksOnDue`), and when it comes to the update every direction that is due has been
  executed as it was listed (`Executed`).
- `SettingsAreKept`: `Careful => (Spec => []SettingKept)`, where `Careful` excludes `overlap` and
  `nodeClear`. `KeptInv` adds to `AckInv` that a clear key is always the last thing its
  user asked for (`ClearIsAsked`); `overlap` breaks that, and clearing the node deletes
  settings nobody asked to end.
- `PassesEnd`: `Spec => EveryPassEnds`, under every disruption and with no hypothesis. It is what
  termination rests on and is not temporal: the number `StepsAhead` stays natural, every step
  of the agent inside a pass makes it less (`LoopNearer`, one lemma per group of stages), and
  nobody else raises it (`ChaosNearer`). It counts 26 for each pod still to be taken, since a
  pod has two directions of at most twelve commands and one update, 2 for each filter the
  sweep may find, and the place in the code; adding a filter pays for its two (`AddFilterNearer`).
  A pass over n pods and m filters so ends within 26n + 2m + 8 steps. `FiniteInv` adds to
  `TypeInv` that what is counted is finite. The count drops only where `AckInv` holds: a pod
  is in its turn because one of its directions is due (`TurnsAreDue`).

`CleanProofs`, what is left where chaos has ended:

- `ClearedNodeIsClean`: `TcIsSound => (Spec => []ParkedIsClean)`, with the agent killed
  anywhere and API server and etcd failing, as long as `tc` does not fail of itself.
  The danger is that `ClearIfb` stops at its first error: deleting a root queue that
  is missing would leave the other device as it is. `ClearInv` therefore says where
  both root queues exist (`RootsFollow`: from the end of `InitIfbModule` to `ClearIfb`,
  also after a kill in the middle of it, since the agent starts with `InitIfbModule`
  again), that the links are down before anything is deleted (`LinksFollow`), and that
  a device without its root queue is bare (`RootlessIsBare`).
- `NoKeysNoChaos`: `Orderly /\ ClearsAsk /\ Distinct => (Spec => []AbsentMeansClean)`: a direction whose keys
  are gone has neither redirect nor filter, with the agent killed anywhere. `Orderly`
  excludes `tc` and `etcd`, `ClearsAsk` excludes `clearOnly`. The keys go when the update that answers a clear
  request is accepted, many steps after the tables were cleared, so `CleanInv` follows
  the direction in between. What has been cleared so far in a turn is clean, and nothing is set up
  where something is to be cleared (`ClearedSoFar`); a clear key comes with a request,
  also in the copies the agent holds (`ClearIsPending`), and the request is still open
  when the copy is used (`RequestsStayOpen`), so an update cannot delete the keys of a
  direction that was skipped; the interface is known (`InterfaceIsKnown`), or the
  redirect would stay; a pod without an address in the list has no filter
  (`UnlistedIsBare`), as the reset skips it; redirects and filters appear only at pods
  with an address (`TracesFollowPhase`, `ListedHadAddress`, `AdditionsAreListed`). It rests on
  `CidrInv` (one deletion leaves no second filter), `AckInv` and `ClearInv`.
- `ClearedPodsAreReleased`: `Orderly /\ ClearsAsk /\ Attentive /\ Accepting => (Spec =>
  []ParkedPodsAreReleased)`, where `Attentive` excludes `list`, `early` and `relabel`, and `Accepting`
  excludes `update`. The agent may be killed while it clears the node and starts over.
  `ReleaseInv` adds to `CleanInv` that while the node is cleared a labelled pod with nothing
  but answers is still among those to be processed, with a copy the API server accepts
  (`AnswersAwaitClearing`), that only pods with an address have been annotated
  (`AnnotatedHasAddress`), and that annotations without `done` are none (`AbsentIsNothing`).
  Pods may share an address here. What `CleanInv` says of filters it says of those that cannot
  be another pod's (`Own`): with `Distinct` these are all of the address (`OwnUnlessShared`), as
  `NoKeysNoChaos` needs, and without it none, and what is left is about redirects, as here.

`DoneProofs`, the chaos users are told they have:

- `RoomNeverRunsOut`: `Uninterrupted /\ Room => (Spec => []RoomIsLeft)`: the searches for a class id and
  for a handle find one whenever a filter is to be added. `Room` says that there is one of each
  for every address. It follows from `CidrInv`, `ClassInv` and `ClearInv` together by counting:
  no address has two filters and every class has one, so with the new address still without a
  filter there are fewer of both than addresses (`EnoughToNumber`, `FewFilters`, `RoomForOne`);
  among the free ids there is a least (`LeastExists`). A kill would leak a class for good.
- `DoneIsApplied`: `Undisturbed /\ Distinct /\ Room => (Spec => []DoneMeansApplied)`: an acknowledged
  setting of a labelled pod is in force in the kernel, with any number of refused updates
  (`update`), settings written beside pending clear keys (`overlap`) and clear keys written
  beside answers (`clearOnly`). These may delete the keys of a direction whose chaos stays, which
  is why the parts of `CleanInv` that say otherwise are conditional on `ClearsAsk`: what an
  answer promises does not rest on them. `DoneInv`
  extends `ReleaseInv` and `ApartInv`. In a turn it says what is set up so far (`SetUpSoFar`:
  at each command, the redirect, the filter that leads to the class in hand, the class, its
  leaf queue, its rate) and what is in force of the directions dealt with (`AppliedSoFar`); between
  turns, that an applied setting is not undone by what the agent does later, since the
  devices stay up (`LinksStayUp`), a filter of a live pod is fed by its interface
  (`FilteredIsMirrored`), an acknowledged pod is in the list that the sweep spares
  (`AckedAreListed`), a copy that would be accepted is of a pod that still has the label
  (`CopiesAreLabelled`), and the node is not cleared (`NodeIsKept`).

`RefinementProofs`, the agent against the contract:

- `AgentKeepsContract`: `Undisturbed /\ ClearsAsk /\ Distinct /\ Room => (Spec => ImplementsContract)`. The initial
  states map to initial states (`InitImplements`). From a state of `DoneInv` each step maps to
  one of the contract or to a stutter (`NextImplements`): a command of a turn or of the
  sweep touches the traffic of one pod in one direction, whose request is open or which
  left (`CommandShapes`, `SweepShapes`, on `ShapedStep`); an accepted update is `Acknowledged`,
  and `AppliedSoFar` and `ClearedSoFar` are what makes the answers true (`UpdateAcknowledges`);
  the life of pods is `Joined`, `Left` or `Gone` (`LivesJoin`), what users write is `Asked`
  (`AskingAsks`), and the rest does not show.
- `AgentIsHonest`: `Undisturbed /\ ClearsAsk /\ Distinct /\ Room => (Spec => []Contract!Honest)`, what `ContractIsHonest`
  says of the contract said of the agent, for any number of pods. It is proved from `DoneInv`
  and not from the two theorems, since `tlapm` does not let a theorem of an instantiated
  module be cited.

The hypotheses are needed: without any one of them TLC finds a violation on two pods
and one setting (for `AbsentMeansClean` with a lone clear key, once both directions carry
requests). The states they describe are those of an agent in normal operation: the runs `calm`, `tables` and `node_clear` are instances.

`ChaosContractProofs`: `ContractIsHonest`, `Contract => []Honest`: in every behaviour the
contract allows a pod without keys has clean traffic, and an acknowledged setting of
a pod with the label, if `tc` accepts it, is in force. With `ImplementsContract` this is
the joint meaning of `AbsentMeansClean` and `DoneMeansApplied`, for any agent that
implements the contract.

`TcShowProofs`, what the agent reads of `tc`'s text, for texts of any length:

- `SpellingsAgree` and `SpellingsDiffer`: for every IPv4 address the way from the main
  loop's spelling to the kernel's and back returns to where it began, hence no two
  addresses share a spelling. `KubeChaos` rests on this where it compares addresses as
  values.
- `FilterIsFound`: `ShowSpec => []FindReadsTheTable`. `FindInv` says that no filter passed so far
  is of the address, and that the header kept is that of the match line that comes next
  (`NotFoundYet`); by `SpellingsDiffer` the line with the spelling that is looked for is
  then a filter of the address, and the first.
- `SpellingsAreKept`: `ShowSpec => []CIDRsKeepTheirSpelling`; `Collected(n)` says that the first n
  filters are in the answer as the main loop spells them, and where the scanner stands.
- `FreeIdIsFound` and `ClassIsSeen`: `ShowSpec => []NextClassIsFree` and `[]ClassExistsReadsTheTable`.
  The ids of the lines so far have been collected and these lines were as expected
  (`CollectedSoFar`); none of them is the wanted one (`NotMetYet`).

`SetsProofs`, the set methods, for sets and arguments of any size:

- `MethodsAnswer`: `SetsSpec => []AnswersAreSetAlgebra`. A loop over a map takes the keys in any
  order and may return early, so `AlgebraInv` says of each method what the part done and
  the part left give together: over items (`ItemsSoFar`), over keys (`KeysSoFar`), and for
  the slice that each key is in it once (`ListSoFar`, by counting).
- `ListsAreSorted`: `SetsSpec => []ListIsSorted`. `sort.Sort` is modelled by its contract, `Sorted`; as
  each key is in the slice once, its result is strictly in order (`SortedIsInOrder`). That the
  contract can always be met, so that `List` does return, is `SortedExists`: the place of a key
  is found by counting those before it, one to one on a finite set and so a bijection.
- `ReceiversAreKept`: `SetsSpec => []ReceiverIsKept`, by `ReceiverInv`.

A step of a loop is a step of the specification, so that these are invariants like the
others and need no induction over the text or the set.

`Init => IInv` and the step are proved action by action, and TLC was asked about
each invariant first.

Only model-checked:

- `NodeClearCompletes`, `RequestAnswered` and `ExtraChaosRemoved` rest on fairness and
  `ENABLED`, which are out of the prover's reach. `PassesEnd` is the part of them that is not:
  what remains to TLC is that a fair agent takes its next step, and what the passes come to
  over one another.
- The runs that show a condition to be needed: a counterexample is a behaviour, and TLC
  finds it.

## What is not modelled

- `pkg/exec` (process execution), `vendor`, `Dockerfile`s, scripts and manifests: I/O
  and third-party code. The manifest's node selector is in `Start` and `Kill`.
- `byte.go`, `int.go` and `int64.go` of `pkg/sets`: the same generated text as
  `string.go` for other key types, used nowhere in the agent.
- `Loss`, `Delay`, `Duplicate`, `Corrupt`, `Clear` and `qdiscExists` of the shaper: no caller.
- The text of settings beyond the split at the first comma: a field is empty,
  refused by `tc` or accepted.
- Packets. A filter, a class with the right rate and leaf, a device that is up
  and a redirect are taken together to be chaos (`Applied`).
- Several nodes: each agent sees only its node's pods and devices.
- Flags and the construction of the client (`kube-chaos.go:36-71`), `GetMasterIP`:
  they run once, before any state exists.

## Plan

Done: the agent with its cluster and kernel, the contract and its refinement, the
helper functions (`TcShow`, `CidrCodec`, `StringSets`), and twenty-five theorems, among them
every invariant and every action property of the passing runs and the refinement. Left are
the liveness properties, once the prover handles `ENABLED`: `PassesEnd` gives the measure.

## Running it

    tlc -workers 2 -config Calm.cfg MCKubeChaos.tla
    tlc -workers 2 -config Helpers.cfg MCHelpers.tla
    tlapm KubeChaosProofs.tla

The other proof modules are checked in the same way; each uses the lemmas of the modules
it extends.
