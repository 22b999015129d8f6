-------------------------- MODULE SchedulerExtender --------------------------
(***************************************************************************)
(* The scheduler extender (k8s-scheduler-extender-example/) and the        *)
(* kube-scheduler that extender.yaml sets up to call it: one scheduling    *)
(* cycle at a time (built-in predicates, then the extender's filter,       *)
(* priorities, or preemption when nothing fits), bindings beside it in     *)
(* goroutines of their own.  A node has room for one Pod.                  *)
(*                                                                         *)
(* The extender keeps no state: a call is answered by its handler, or      *)
(* fails, because the process is down, the handler panics (net/http        *)
(* recovers it and drops the connection) or the route does not exist.      *)
(***************************************************************************)
EXTENDS Naturals

CONSTANTS Pods, Nodes,
          Urgent,      \* the Pods with the higher priority
          NoNode,
          MaxFaults    \* crashes of the extender and calls that time out

ASSUME PlacesAssumption ==
    Urgent \subseteq Pods /\ NoNode \notin Nodes /\ MaxFaults \in Nat

VARIABLES config,   \* the policy: nodeCacheCapable, and whether bindVerb is set
          queue,    \* Pods to be scheduled
          pc, pod,  \* the scheduling cycle: the next call, and for which Pod
          rank,     \* the nodes' scores by the built-in priorities
          fits,     \* the nodes that pass the built-in predicates
          nodes,    \* ... and those the extender's filter returned
          assumed,  \* assumed[p]: where the scheduler's cache has p
          binding,  \* Pods whose binding is under way
          bound,    \* bound[p]: spec.nodeName in the API server
          up,       \* the extender's container runs
          faults

cycle == <<pc, pod, rank, fits, nodes>>
vars  == <<config, queue, cycle, assumed, binding, bound, up, faults>>

Ranks  == [Nodes -> {0, 1}]
Places == Nodes \cup {NoNode}
PCs    == {"idle", "filter", "prioritize", "preempt"}

TypeOK ==
    /\ config \in [cached : BOOLEAN, binds : BOOLEAN]
    /\ queue \subseteq Pods /\ binding \subseteq Pods
    /\ pc \in PCs /\ pod \in Pods /\ rank \in Ranks
    /\ fits \subseteq Nodes /\ nodes \subseteq Nodes
    /\ assumed \in [Pods -> Places] /\ bound \in [Pods -> Places]
    /\ up \in BOOLEAN /\ faults \in 0 .. MaxFaults

Init ==
    /\ config \in [cached : BOOLEAN, binds : BOOLEAN]
    /\ queue = Pods /\ binding = {}
    /\ pc = "idle" /\ pod \in Pods /\ rank = [n \in Nodes |-> 0]
    /\ fits = {} /\ nodes = {}
    /\ assumed = [p \in Pods |-> NoNode] /\ bound = [p \in Pods |-> NoNode]
    /\ up = TRUE /\ faults = 0

-----------------------------------------------------------------------------
(* The extender: its functions, handlers and routes.                       *)

\* An answer the scheduler takes for an error: none, a status other than 200
\* or a result with an error in it; and no answer, as the handler panicked.
Failure  == [ok |-> FALSE]
Panicked == [ok |-> FALSE]

\* Mutant: the node is judged unfit.
FalsePredicate(n) == [fit |-> FALSE, err |-> FALSE]

\* always_true
TruePredicate(n) == [fit |-> TRUE, err |-> FALSE]

\* Mutant: the first node of the list gets the higher score.
FirstPriority(n) == IF n = CHOOSE k \in Nodes : TRUE THEN 2 ELSE 0

\* zero_score
ZeroPriority(n) == 0

\* Mutant: the handler answers with all nodes it knows, not those it was sent.
PredicateHandlerCached(ns) == [ok |-> TRUE, nodes |-> Nodes, failed |-> {}]

\* A node that the predicate turns down without an error is in neither list.
PredicateHandler(ns) ==
    [ok     |-> TRUE,
     nodes  |-> {n \in ns : ~TruePredicate(n).err /\ TruePredicate(n).fit},
     failed |-> {n \in ns : TruePredicate(n).err}]

PrioritizeHandler(ns) == [ok |-> TRUE, score |-> [n \in ns |-> ZeroPriority(n)]]

NoBind == [err |-> TRUE]

\* Mutant: the error of NoBind is not handed on.
BindHandlerDeaf == [ok |-> TRUE]

\* The Func's error is the answer; without one, err.Error() panics.
BindHandler == IF NoBind.err THEN Failure ELSE Panicked

\* The victims that were sent by UID, which the scheduler does only with
\* nodeCacheCapable; else the answer's map is nil.
EchoPreemption(ns) == IF config.cached THEN ns ELSE {}

PreemptionHandler(ns) == [ok |-> TRUE, nodes |-> EchoPreemption(ns)]

\* The scheduler's arguments decode; with nodeCacheCapable args.Nodes is nil,
\* and both handlers dereference it.
PredicateRoute(ns)  == IF config.cached THEN Panicked ELSE PredicateHandler(ns)
PrioritizeRoute(ns) == IF config.cached THEN Panicked ELSE PrioritizeHandler(ns)
BindRoute           == BindHandler
PreemptionRoute(ns) == PreemptionHandler(ns)

\* What main registers.
Routes == {"version", "filter", "prioritize", "bind"}

\* The answer to a call; a path that is not registered is not found.
Serve(verb, ns) ==
    IF ~up \/ verb \notin Routes THEN Failure
    ELSE CASE verb = "filter"     -> PredicateRoute(ns)
           [] verb = "prioritize" -> PrioritizeRoute(ns)
           [] verb = "bind"       -> BindRoute
           [] verb = "preempt"    -> PreemptionRoute(ns)

-----------------------------------------------------------------------------
(* kube-scheduler.                                                         *)

Room(n) == \A p \in Pods : assumed[p] # n

\* Nodes where an urgent Pod could have the place of one that is not.
Preemptable(p) == {n \in Nodes : p \in Urgent /\ \E q \in Pods \ Urgent : bound[q] = n}

\* Each cycle starts with a snapshot of the cache.
StartCycle(p) ==
    /\ pc = "idle" /\ p \in queue
    /\ queue' = queue \ {p}
    /\ pod' = p /\ rank' \in Ranks
    /\ fits' = {n \in Nodes : Room(n)} /\ nodes' = {}
    /\ pc' = IF fits' = {} THEN "preempt" ELSE "filter"
    /\ UNCHANGED <<config, assumed, binding, bound, up, faults>>

\* The cycle ends without a node; the Pod is tried again later.
GiveUp ==
    /\ pc' = "idle"
    /\ queue' = queue \cup {pod}
    /\ UNCHANGED <<pod, rank, fits, nodes, assumed, binding>>

\* The Pod is assumed on n; its binding goes on beside the next cycle.
Choose(n) ==
    /\ pc' = "idle"
    /\ assumed' = [assumed EXCEPT ![pod] = n]
    /\ binding' = binding \cup {pod}
    /\ UNCHANGED <<queue, pod, rank, fits>>

\* A single node needs no priorities; with none left there is preemption.
Filter ==
    /\ pc = "filter"
    /\ LET reply  == Serve("filter", fits)
           single == \E n \in Nodes : reply.nodes = {n}
       IN  IF ~reply.ok THEN GiveUp
           ELSE /\ nodes' = reply.nodes
                /\ IF single
                   THEN \E n \in reply.nodes : Choose(n)
                   ELSE /\ pc' = IF reply.nodes = {} THEN "preempt" ELSE "prioritize"
                        /\ UNCHANGED <<queue, pod, rank, fits, assumed, binding>>
    /\ UNCHANGED <<config, bound, up, faults>>

\* The extender's scores are added; without an answer the built-in ones do.
Prioritize ==
    /\ pc = "prioritize"
    /\ LET reply    == Serve("prioritize", nodes)
           total(n) == rank[n] + IF reply.ok THEN reply.score[n] ELSE 0
       IN  \E n \in nodes : /\ \A k \in nodes : total(k) <= total(n)
                            /\ Choose(n)
    /\ UNCHANGED <<config, nodes, bound, up, faults>>

\* The extender has the last word on the victims; no answer, or no node in
\* it, ends the preemption.  Victims leave the API server at once.
Preempt ==
    /\ pc = "preempt"
    /\ LET reply   == Serve("preempt", Preemptable(pod))
           victims == {q \in Pods \ Urgent : reply.ok /\ bound[q] \in reply.nodes}
       IN  /\ assumed' = [q \in Pods |-> IF q \in victims THEN NoNode ELSE assumed[q]]
           /\ bound' = [q \in Pods |-> IF q \in victims THEN NoNode ELSE bound[q]]
    /\ pc' = "idle"
    /\ queue' = queue \cup {pod}
    /\ UNCHANGED <<config, pod, rank, fits, nodes, binding, up, faults>>

Forget(p) ==
    /\ assumed' = [assumed EXCEPT ![p] = NoNode]
    /\ queue' = queue \cup {p}
    /\ UNCHANGED bound

\* Without a bindVerb the scheduler binds the Pod itself.
Bind(p) ==
    /\ p \in binding
    /\ binding' = binding \ {p}
    /\ IF ~config.binds
       THEN bound' = [bound EXCEPT ![p] = assumed[p]] /\ UNCHANGED <<queue, assumed>>
       ELSE IF Serve("bind", {}).ok THEN UNCHANGED <<queue, assumed, bound>>
                                    ELSE Forget(p)
    /\ UNCHANGED <<config, cycle, up, faults>>

-----------------------------------------------------------------------------
(* Failures, and Pods that come to their end.                              *)

\* A filter call, or a binding, fails on its way.
TimeOut ==
    /\ faults < MaxFaults /\ faults' = faults + 1
    /\ \/ pc = "filter" /\ GiveUp /\ UNCHANGED bound
       \/ \E p \in binding : Forget(p) /\ binding' = binding \ {p} /\ UNCHANGED cycle
    /\ UNCHANGED <<config, up>>

Crash ==
    /\ up /\ faults < MaxFaults
    /\ up' = FALSE /\ faults' = faults + 1
    /\ UNCHANGED <<config, queue, cycle, assumed, binding, bound>>

\* The liveness probe on /version finds nobody: the kubelet restarts it.
Restart ==
    /\ ~up
    /\ up' = TRUE
    /\ UNCHANGED <<config, queue, cycle, assumed, binding, bound, faults>>

Finish(p) ==
    /\ bound[p] # NoNode
    /\ bound' = [bound EXCEPT ![p] = NoNode]
    /\ assumed' = [assumed EXCEPT ![p] = NoNode]
    /\ UNCHANGED <<config, queue, cycle, binding, up, faults>>

Scheduler == Filter \/ Prioritize \/ Preempt

Next ==
    \/ Scheduler \/ TimeOut \/ Crash \/ Restart
    \/ \E p \in Pods : StartCycle(p) \/ Bind(p) \/ Finish(p)

Spec == Init /\ [][Next]_vars

\* The scheduler works through its queue, bindings end, and the kubelet
\* restarts what does not answer; no Pod has to finish.
Fairness ==
    /\ WF_vars(Scheduler) /\ WF_vars(Restart)
    /\ \A p \in Pods : SF_vars(StartCycle(p)) /\ WF_vars(Bind(p))

FairSpec == Spec /\ Fairness

-----------------------------------------------------------------------------
(* Properties.                                                             *)

\* What extender.yaml says: nodeCacheCapable false, bindVerb empty.
Shipped == [cached |-> FALSE, binds |-> FALSE]

\* The nodes that the filter handler answers with were free in a snapshot
\* taken before the call and are used after it, beside bindings that are still
\* under way: no two Pods end up on one place.
NoOvercommit ==
    \A p, q \in Pods : bound[p] = bound[q] /\ bound[p] # NoNode => p = q

\* A binding is over for the scheduler only when the Pod is bound, also when
\* the bind route, which refuses every Pod, is configured.
BelievedIsBound ==
    \A p \in Pods :
        assumed[p] # NoNode /\ p \notin binding => bound[p] = assumed[p]

\* always_true and zero_score are neutral: whichever of the extender's answers
\* arrive, the node chosen is one the scheduler could have chosen alone.
Neutral ==
    [][\A p \in Pods : assumed[p] = NoNode /\ assumed'[p] # NoNode =>
          /\ assumed'[p] \in fits
          /\ \A n \in fits : rank[n] <= rank[assumed'[p]]]_vars

\* "you will see test-pod will be scheduled by my-scheduler": a Pod is bound,
\* if there is room to stay, although the extender crashes between the calls
\* of a cycle, calls fail, and preemption, which is not among the routes, is
\* answered 404.
Scheduled ==
    config = Shipped =>
        \A p \in Pods : <>[](\E n \in Nodes : Room(n)) => <>(bound[p] # NoNode)
=============================================================================
