# TLA+ models of kubernetes-examples

The repository is a collection of small Kubernetes programs: operators,
admission webhooks, leader election, work-queue controllers and client-go
examples. This directory models those of them that keep state or make decisions
under concurrency, checks the models with TLC on small instances, and proves
their main properties with TLAPS for every value of the constants.
`PROJECT.json` lists runs, mutants, the map from definitions to source lines,
hazards and theorems.

    tlc -workers 2 -config PodManager.cfg MCPodManager   # one run
    tlapm PodManagerProofs.tla                           # one proof module

## Inventory

| Component | Source | State | Operations | Interacts through |
|---|---|---|---|---|
| PodManager operator | `pod-operator` | the object's finalizer, replicas, status; its Pods | `Reconcile`, `handleFinalizer` | API server, informer caches |
| SimpleApp finalizer controller | `finalizer-example` | finalizer, status; one Pod | `Reconcile`, `handleDeletion`, `reconcilePods` | API server, informer caches |
| Leader election | `leader-election`, official example | the lock record, what each process observed, the protected loop | `Get`, `Create`, `Update`, callbacks, cancel | Redis, or a Lease object |
| Queue controllers | `client-go/workqueue`, official example | queue, workers, retry counts | event handlers, workers, shutdown | informer, work queue |
| Admission webhooks | `webhook/using-byhand` | none; the object in flight | `mutate`, `validate` | HTTP calls of the API server |
| Calculate | `webhook/using-kubebuilder` | spec and status of the object | `validate`, `Reconcile` | API server, cache |
| Scheduler extender | `k8s-scheduler-extender-example` | none | filter, prioritize, bind, preempt | HTTP calls of the scheduler |
| Informer, controller and reflector examples | `client-go/using-*` | a cache | handlers, list by label, polling | watch |
| Advanced reflector example | `client-go/using-reflector/examples` | a cache, statistics, a signal channel | three goroutines, two receivers of signals | watch, channels |
| Client scripts | `client-go/using-*-client*`, official examples | a copy of one object | create, get, update, patch, scale, delete | API server |
| Frobber, defaults, conversion | `apiversioncompatibility`, `resourcedefinition`, `setdefault` | one object | pure functions | - |

What is hard in it, and what the properties are for: controllers that decide
from a cache that is behind and write with optimistic concurrency; crashes and
API errors between two calls of one reconcile; names that are reused by a later
object; locks whose calls are lost or late; keys that change while a worker has
them; two webhooks that see one object one after the other. The hazards in
`PROJECT.json` name the line for each.

For each component, correct means:

- *PodManager, SimpleApp*: Pods exist only under the finalizer; nothing is
  created for an object that is gone; nobody else's Pods are deleted; users'
  writes are not undone; deletion completes; the Pods and the status converge.
- *Leader election*: a leader has the lock, there is one at most, and there is
  one again when the last is gone. As an abstract specification: `Leadership`.
- *Queue controllers*: one worker per key, no change lost, bounded retries,
  shutdown that ends. As an abstract specification: `KeyedWork`.
- *Admission webhooks*: what the two of them deny is known from the object sent;
  what is stored can be created again.
- *Calculate*: a result belongs to the spec beside it, within the range of int.
- *Client scripts*: a program changes what it means to change and no more, on the
  object it means unless somebody deletes that, and cleans up.
- *Informer examples*: a synced cache has what was there, never goes back, and
  ends up equal to the API server; handlers are called in an order that makes
  sense; a panic has a deletion behind it; two signals end the advanced example.
- *Scheduler extender*: no place is given twice, what counts as bound is bound,
  the extender does not change the scheduler's choice, and Pods get scheduled.

## Modules

Each component has a module, an `MC` module for TLC, and a `Proofs` module:
`CalloutProofs` is about the two components that answer calls of the control
plane, AdmissionWebhook and SchedulerExtender, `InformerProofs` about
InformerExamples and AdvancedReflector. `LeaderElection` extends
`ResourceLock` (the lock interface and its two implementations) and implements
`Leadership` (what an election promises, whatever the lock); `QueueController`
extends `WorkQueue` (client-go's queue, as the controllers use it) and
implements `KeyedWork` (what a controller promises, whatever its queue);
`AdvancedReflector` extends `InformerExamples` with goroutines of one program. A definition whose comment starts with
"Mutant" is a plausible bug; it is used in place of the definition below it to
show that a property can fail, and by nothing else.

**PodManager.** `pm` and `pods` are the API server's objects, `cpm` and `cpods`
the caches, `obj`, `next`, `victims` and `seen` the locals of the one worker.
Every API call of `Reconcile` and `handleFinalizer` is an action (`Reconcile` =
the cached Get and the dispatch, `AddFinalizer`, `List`, `CreatePod`,
`DeletePod`, `UpdateStatus`, `FinList`, `FinDelete`, `FinRemove`), so anything
can happen between two of them. A resourceVersion is abstracted to whether a
copy is the current one (`cpmFresh`, `objFresh`). `TransientError` and
`CrashRestart` can strike at any call. The environment is users (create, scale,
delete under the same name again), another writer of the status, kubelet and
garbage collector. `MCPodManager` adds `trouble`: each behaviour it checks has one
kind of trouble (a re-creation, an eviction, a scale-down, or failures with
another status writer). All kinds together are left to the theorems, which are
about `Spec` without `trouble`, `NoSurplus` excepted.

**SimpleApp.** The same shape with one Pod of a fixed name. Its fields change
at most once in each direction in the life of an object, so copies are of one
version when they are equal; a conflict with a change of any other field is a
`Fault`. The file does not compile as it is (an import and the API package are
missing) and is modelled as plainly meant.

**ResourceLock, LeaderElection.** Time is discrete and every process has its own
timers. A call is sent (`Try`), executed by the server (`Exec`, `Get`),
answered (`Won`, `Rejected`, `Released`) or lost (`Lost`), within `MaxDelay`.
client-go's `LeaderElector` is external and modelled from v0.30, which the
repository uses: fast path, acquire, renew until the deadline, release on
cancel. `lockKind`, chosen in the initial state, says which of the two locks the
processes use. A process ends by a signal on a Lease (`Terminated`), after two
minutes on Redis (`TimedOut`). `loop` is the goroutine of `OnStartedLeading`: on
Redis it heeds its context and may return from the cancel on (`cancelled`), while
the lock is being released; on a Lease, and where renew gave up at its deadline
(`releasing`), it ends after `Run` only, on a Lease by `os.Exit` in
`OnStoppedLeading`. `LeaseSpec` is the Lease's program alone.
Processes are named by their identity; the default identity of `redislock.go`
is the host name, so two processes of one host need an `-id` each.

**Leadership.** The lease goes from nobody to a process (`Grant`) and back
(`Lapse`, by release or by the clock); its owner is made leader (`Elect`) and
stops or crashes (`Resign`). `LeaderElection` maps `owner` to the holder of a
record whose time is not over and `leaders` to the processes whose renew loop
runs.

**WorkQueue, QueueController.** Queue operations are single critical sections
of the library. `notify` holds events between cache and handlers; `changed` is a
history variable: keys that changed after the last lookup. `Chronic` workers
always fail, as worker 1 of the example does; `MissIsError` distinguishes the
example, for which a deleted object is an error, from the official one.

**KeyedWork.** A key becomes due (`Raise`), a worker starts with it, looks at
its object and ends (`Start`, `Look`, `End`); only after `Close` may a key be
dropped. `QueueController` maps `due` to the keys with an event, a place in the
queue's dirty set or a retry on the way.

**AdmissionWebhook.** `phase` is where the API server is with one request.
Labels are values, empty, NA or unset; annotations are the ones the code tells
apart. A JSON patch `add` on an existing map replaces the map. The servers can
be down at any call, which refuses the object (failure policy Fail). Malformed
bodies and content types, which the API server does not send, are not modelled.
The names of its specification have the prefix `Webhook`.

**Calculate.** `int` has `2 * Half` values and wraps. Objects carry a
resourceVersion; `Status().Update` is refused when it is not current.

**ClientScripts.** A program is the sequence of calls of its `main` (`First`,
`Then`) and what it does with an error (`OnError`). The object's resourceVersion
is abstracted to whether a copy is current (`fresh`). A call can fail to get
through (`Unreachable`) or be executed and its answer be lost (`Answered`).
Others write a field that is none of the programs' business (`OtherWrite`) and
delete the object (`OtherDelete`), after which another program may create its own
under the name. `lost` keeps the UIDs of objects that somebody deleted who had
not created them, `removed` whether a client from outside did.
Programs with equal calls are one: the typed and the dynamic demo, and the
clientset's and the REST client's creating, updating and deleting programs; the
`create` program also stands for `create-pod`.

**InformerExamples.** `simple` stands for the typed and the dynamic informer
example, `watch` for the generic one and the one that does nothing,
`controller`, `reflector` and `advanced` for the examples of these names. The Reflector and the
DeltaFIFO are client-go's and modelled as the programs use them: list, watch,
relist, deltas per key, tombstones, resync. `notes` are notifications on their
way to the handlers. `seen` is what the handlers know by them. A
tombstone fails the handlers' type assertion and ends the program (`panic`), as
does `panic(err.Error())` after a failed call of its own (`error`). The reflector
examples do not wait for the cache to sync; they sleep, for which no bound holds.

**AdvancedReflector.** The program `advanced` with its goroutines: the one that
closes `stopCh` on a signal, the printing and the polling one, and `main`, which
waits for a signal on the same channel of capacity one. `podCount` counts polls,
not Pods, as the code's does. Printing changes nothing.

**SchedulerExtender.** The extender's functions, handlers and routes are
operators (`TruePredicate`, `PredicateHandler`, `PredicateRoute`, ..., `Serve`):
it keeps no state. The kube-scheduler around it is external: one cycle at a time
(`StartCycle`, `Filter`, `Prioritize`, `Preempt`), bindings beside it (`Bind`),
from a cache of assumed Pods. A call fails when the extender is down, the route
does not exist or the handler panics, which `net/http` turns into a dropped
connection. `config` is any setting of `nodeCacheCapable` and `bindVerb`;
`Shipped` is the one in `extender.yaml`.

## Runs

Deadlock is not checked where the system may come to rest: users do nothing
more and every controller is done. In the elections it is checked.

| Run | Instance | What it shows |
|---|---|---|
| `podmanager` | 2 replicas, 2 UIDs, 1 eviction, 1 fault, scaling both ways, another status writer; one kind of trouble per behaviour | Pods only under the finalizer, none created for a gone object, no one else's Pod deleted, no surplus; no user's write undone, the status converges, deletion and cleanup complete, convergence of the Pods |
| `election` | 2 processes, 3 faults, both locks | implements `Leadership`; the leader has the lock (so there is one at most), and there is one again |
| `election_loop` (violation) | 2 processes, 1 fault, a Lease | after a signal the lock is released before the protected loop of `main.go` ends |
| `queue` | 2 keys, 2 workers (one failing), K = 2, 3 changes | implements `KeyedWork` (one worker per key, no due key dropped); no change lost, retries end and are forgotten, shutdown completes |
| `queue_dedup` (violation) | the same | an Add of a key that a worker has is not ignored, as `workqueue/README.md` says |
| `admission` | 2 required labels, 1 other, 2 namespaces, 2 requests | every object over them; the denials of the two webhooks together are those said; re-creation is a no-op |
| `admission_labelled` (violation) | the same | an object with all its labels is denied |
| `simpleapp` | 3 UIDs, 2 evictions, 2 faults | finalizer before Pods; deletion and the Pod converge |
| `calculate` | 4-bit integers at -8, -1, 0, 7; 2 writes, any number of deletions, 1 fault; with and without webhook | results in range, written beside their spec only; the status converges |
| `client_scripts` | any 2 programs of one object, 3 attempts, 4 writes or deletions of others, 1 failed or unanswered call | others' changes survive; a program works on its own object unless somebody from outside deleted that; retries suffice; it cleans up |
| `informer_examples` | each of 5 programs, 1 or 2 foreign objects, 1 or 3 writes, 1 relist, 1 resync, any number of signals | the synced lister has the expected object; order of events; the cache never goes back, and converges; panics only after a deletion; the first or second signal that gets in ends the advanced example |
| `scheduler_extender` | 3 Pods (1 urgent), 2 places, 2 crashes or failed calls, 4 configurations | no place given twice; bound means bound; the extender is neutral; Pods are scheduled |

*Bounds.* Two replicas make order among Pods matter; two UIDs, a successor
under the same name, three a successor of a successor. One fault suffices to
cut a reconcile at each of its calls. Two processes and one lock show every
race; each lost call, crash or cancel is a fault, and the third
lets a stale resourceVersion meet a restart. Timing is the
smallest the assumption below admits. Two workers are the least that can
collide; K = 2 makes a retry of a retry. Operands -8, -1, 0 and 7 include the one
quotient that overflows, sums and products beyond either end, and the forbidden
divisor. Three attempts and three
writes are the least that exhaust `RetryOnConflict` (the code has five attempts);
the fourth lets a deletion come before or after them. Two programs are enough for
one to create the object that the other then meets under its name.
The informer programs that write four times themselves meet one foreign write, the
others three (an object that comes, goes and comes again), the advanced example,
whose goroutines interleave with everything, two. Three Pods for two places
leave one without, so preemption is tried; two faults cut a cycle and a binding.
The theorems lift the bounds
of the safety properties.

*Fairness.* Weak fairness of: the worker of a controller (each result requeues,
or is woken by an event or the resync), informers (watches keep delivering),
kubelet and garbage collector, goroutines, delays, and the clock. Strong
fairness of `StartCycle` for each Pod: the scheduler's queue serves a Pod after
its back-off, so none is passed over for ever while others are tried and fail.
Never assumed: that a user acts, that a signal comes, that a Pod finishes, that a process is started, that calls succeed; only that
faults are finitely many.

*What the properties leave open, because the code does.* The create loop uses
the indices `currentReplicas .. desiredReplicas - 1` without asking which names
are taken, so after Pod 0 of 2 is deleted it retries Pod 1 for ever; and a
scale-down that is reconciled again while the first victim is still listed
deletes a further Pod, which may leave such a gap. `ReplicasConverge` therefore
says: the Pods converge to `spec.replicas`, or stay below it with a gap (`Gap`)
before a Pod that is there, and for no other reason. `NoSurplus` says that there is no
gap as long as nobody takes Pods away, and no surplus as long as nobody lowers
`spec.replicas`. `StatusConverges` needs another writer of the status (`OneSeed`), because
`Conditions[0]` panics on a PodManager that never had a condition. The
finalizers of both operators are removed on the word of a cached list, so a Pod
the cache does not know yet may outlive them; `CleanupCompletes` and
`DeletionCompletes` say that it goes all the same, by its owner reference.
`StatusConverges` of Calculate leaves out specs with an unknown action, which
pass the webhook and are retried for ever, and, where no webhook keeps them
out, divisors of zero. By the same patch that loses the
labels, an object's annotations are lost, those that switch validation off too:
`DenialsExplained` says what is denied for that.
A demo program finds its object by name: when a client from outside deletes it
during `prompt()`, `Update` and `Delete` may hit the object of another run, whose
program may do the same to a third one's. `OwnObjectOnly` allows a program that
only then, and `RetriesSuffice` counts the writes of such runs as those of others.
Both
polling programs panic when the last object goes between their two calls of
`ListKeys`, and the handlers panic on a tombstone; `PanicsExplained` says that,
but for the `panic(err.Error())` of a failed Create or Delete, nothing else makes
a program panic. `Converges` ends with the program, and is what covers a resync of
an object whose deletion is queued: `NeverBack` compares versions only. One
signal may not end the advanced example: when the goroutine that closes `stopCh`
receives it, `main` waits for another. `SignalsEnd` says that a signal that gets
into the channel ends the program or stops the Reflector, and that the next to
get in ends it. Preemption through the extender never works: its route is not
registered, and if it were, it would echo a nil map under the shipped
configuration; `Scheduled` is about Pods for which there is room.

*Where documents and code disagree.* Three runs are expected to find their
property violated (`findings` in `PROJECT.json` quotes the texts): `election_loop`,
`admission_labelled` and `queue_dedup`. The last is about the remark in
`workqueue/README.md:193-194` that an Add of a key in processing is ignored; the
queue keeps it, `NoLostChange` and `ChangesSeen` depend on that, and the comment in
`main.go:37-38` says so. `using-informers/README.md:314` and
`using-controller/README.md:240` say that the order of events is not guaranteed.
That is so between objects; `EventOrder` compares the events of one object, for
which the DeltaFIFO as these programs use it keeps the order. It is a stronger
promise than the documents make, not one that contradicts them.

## Proofs

Each proof module states an inductive invariant `IInv`, proves `Init => IInv`
and `IInv /\ [Next]_vars => IInv'` action by action, and derives the theorems.

- **PodManagerProofs**: `TypeCorrect`, `FinalizerFirst`, `NoOrphans`,
  `DeletesOwnPods`, `UserWritesKept`. The properties are not inductive because
  the worker acts on copies. `IInv` says what a copy of any age still tells: a
  cached object with finalizer that is not being deleted is still there, UIDs
  grow, cached Pods are not younger than current ones, and what each program
  point knows about the local copy. Assumed (`ConstantsOK`): at least one
  replica and one UID. `CreateLoopExact` (`NoSurplus`) is about
  `MCPodManager`'s specification, in which `trouble` limits what users do. Two
  more invariants follow the number of Pods the worker counted in a list that
  may be old: while nobody lowers `spec.replicas`, no copy of it, and nothing
  computed from one, is above it (`ScaleInv`); while nobody takes Pods away
  either, the cache knows of no Pod that is not there and the create loop has
  left no index out (`GapInv`), although the list it started from may be old.
- **LeaderElectionProofs**: `TypeCorrect`, `LeaderHolds`, `MutualExclusion` and
  the refinement `ImplementsLeadership`, for both locks and any number of
  processes; the refinement is proved per step from `IInv` before and after it:
  while somebody leads nobody else's write is accepted and the lease is not
  over, so the abstract owner changes only when nobody leads. `IInv` relates the timers: the lease
  outlasts the renew deadline of a leader, a pending write, and what an observer
  counted. Assumed (`TimingAssumption`): what `NewLeaderElector` checks, and
  `Lease >= Renew + Retry + 2 * MaxDelay`. The code does not check the latter.
  With `main.go`'s 60/15/5 s it allows calls of 20 s; with `redislock.go`'s
  15/10/2 s, 1.5 s.
- **QueueControllerProofs**: `TypeCorrect`, `Exclusive`, `ChangesKept`,
  `RetriesForgotten` and the refinement `ImplementsKeyedWork`, for any number of
  keys and workers. `IInv` adds that what workers hold is `processing`, that
  queued keys are dirty, distinct and not processed, and that a failed key not
  yet Done is on its way back. The refinement needs the second: it is why the
  key at the head of the queue is due and in nobody's hands.
- **CalloutProofs**, webhooks: `WebhookTypeCorrect`, `DenialsKnown`, `Idempotent`,
  `GetsNA`, for any labels and namespaces. The invariant says that the object in
  flight is the image of the one sent, and everything stored a fixed point of
  both webhooks. Scheduler extender: `TypeCorrect`, `OnePodPerPlace`,
  `BindingsReal`, `ChoiceUnbiased`, for any Pods, nodes, faults and all
  configurations. `IInv` says that the cache gives every place once, that the
  nodes of the cycle under way are still free in it (only the cycle itself
  assumes Pods), and that bindings under way and those done agree with the
  cache. Assumed (`PlacesAssumption`): `NoNode` is not a node.
- **CalculateProofs**: `TypeCorrect`, `ResultsMatch`, for any
  width of int and any operands. `IInv` says that copies of one resourceVersion
  have one spec, so a write that is accepted is of the current spec.
- **SimpleAppProofs**: `TypeCorrect`, `FinalizerFirst`, for any number of lives,
  evictions and faults. `IInv` orders the copies by age (worker's, cached,
  stored) and says what an old one still tells: an object seen with its finalizer
  and not seen deleted is still there, since only the worker removes it and must
  have seen the deletion.
- **ClientScriptsProofs**: `TypeCorrect`, `OwnObject`, `RetriesFair`,
  `ChangesOfOthersKept`, for any number of programs, attempts, foreign writes and
  faults. `IInv` says that a copy with the current resourceVersion is the object,
  that no object was created twice, so that until a client from outside deletes
  something a demo program past `Create` is alone with its own, that one without
  its own lost it after such a deletion, and that until then every conflict had a
  foreign write to itself.
- **InformerProofs**: `TypeCorrect`, `ListerFindsExpected`, `PanicsHaveReasons`,
  `CacheNeverGoesBack`, `HandlersToldInOrder`, for any foreign objects, writes,
  relists and resyncs, and for the advanced example's goroutines too. None of
  the properties is inductive: what the cache will hold is spread over the API
  server, watch events, deltas and notifications. `IInv` follows an object's
  version along that way (`RisingInv`), says that a deletion is queued only for
  what the store will have by then (`DeletionInv`), that notifications under
  way fit what the handlers were told before, each other, and the store
  (`NotesInv`), that a tombstone needs a deletion and a relist
  (`TombstoneInv`), and that the object the simple examples look for is in the store or
  among the keys that `HasSynced` still counts (`FirstThere`). A step is classified by what it does to the queues
  (`StepKinds`), and each new item of a queue traced to where it came from
  (`ServerFrom`, `StoreFrom`, `PendingFrom`, `PcFrom`). Assumed
  (`InformerAssumption`): the foreign objects of a program are finitely many
  and have none of the names the programs use.

Every safety property of a passing run is a theorem. Only model-checked: the
liveness properties (fairness and ENABLED are out of the prover's reach), with
`SignalsEnd`, of which one half is about steps. Only
proved: the modules' type invariants (Calculate's, which says that results
stay in range, is checked as well), `AtMostOneLeader`, which follows from
`LeaderHoldsLock`, `NeverInParallel`, which follows from `KeysAttended`,
`RetriesBounded` and `UnlabelledGetsNA`.

## Not modelled, and the plan

Next: what a controller of Pods promises, as an abstract specification that
PodManager and SimpleApp implement.

Left out: `Frobber` (create, get and update of one in-memory object by a single
caller), the defaulting functions and the generated conversions (pure, a table
of cases tests them). Reading `Frobber` shows what such a table would: `Update`
checks the singular field against the stored plural one and then replaces the
latter without touching the former, so the two may part.

For good: listing programs, the DeltaFIFO example, discovery, fake and hello-world clients, the credential
plugin, feature gates and the aggregated API server (static answers), generated
clientsets and deep copies, YAML and build files.
