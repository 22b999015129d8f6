--------------------------- MODULE CalloutProofs ---------------------------
(***************************************************************************)
(* Proofs about the two services that the control plane calls out to over  *)
(* HTTP, each about its own specification: the admission webhooks, for any *)
(* labels, namespaces and number of requests, and the scheduler extender,  *)
(* for any Pods and nodes, any number of failures and every policy.        *)
(***************************************************************************)
EXTENDS AdmissionWebhook, SchedulerExtender, TLAPS

(***************************************************************************)
(* The admission webhooks.  What is stored is a fixed point of admission   *)
(* (Fixed), and the object in flight is what admission made of the one     *)
(* sent (Flight).                                                          *)
(***************************************************************************)

\* Neither webhook would change or deny o.
Fixed(o) ==
    IF o.kind = "Pod" THEN "miner-type" \in o.annotations
                      ELSE ~mutationRequired(o) /\ validate(o)

Flight ==
    /\ phase = "idle" => again = FALSE
    /\ phase = "mutate" => obj = sent
    /\ phase = "validate" => sent.kind # "Pod" /\ obj = mutate(sent)
    /\ phase = "stored" /\ sent.kind = "Pod" => obj = mutatePod(sent)
    /\ phase = "stored" /\ sent.kind # "Pod" => obj = mutate(sent) /\ validate(obj)
    /\ phase = "denied" => sent.kind # "Pod" /\ obj = mutate(sent) /\ ~validate(obj)
    /\ again /\ phase # "idle" => Fixed(sent)
    /\ again => phase # "denied"

WebhookIInv == WebhookTypeOK /\ Flight /\ (\A o \in store : Fixed(o))

-----------------------------------------------------------------------------
\* A webhook's patch is an object again.
LEMMA PatchType ==
    ASSUME NEW o \in Objects
    PROVE  mutate(o) \in Objects /\ mutatePod(o) \in Objects
  BY DEF mutate, mutatePod, createPatch, updateLabels, updateAnnotation, Objects,
         Values, Annotations, Labels, NA, Unset

\* The mutating webhook leaves the kind alone and has nothing left to do.
LEMMA MutateIdempotent ==
    ASSUME NEW o \in Objects
    PROVE  mutate(o).kind = o.kind /\ ~mutationRequired(mutate(o))
  BY DEF mutate, createPatch, updateAnnotation, mutationRequired, admissionRequired, Objects

\* A fixed point stays as it is.
LEMMA FixedUnchanged ==
    ASSUME NEW o \in Objects, Fixed(o)
    PROVE  /\ o.kind = "Pod" => mutatePod(o) = o
           /\ o.kind # "Pod" => mutate(o) = o /\ validate(o)
  <1>1. CASE o.kind = "Pod"
    <2>1. o.annotations \cup {"miner-type"} = o.annotations
      BY <1>1 DEF Fixed
    <2>. QED BY <1>1, <2>1 DEF mutatePod, Objects
  <1>2. CASE o.kind # "Pod"
    BY <1>2 DEF Fixed, mutate
  <1>. QED BY <1>1, <1>2

\* The Pod webhook makes a Pod a fixed point.
LEMMA PodFixed ==
    ASSUME NEW o \in Objects, o.kind = "Pod"
    PROVE  Fixed(mutatePod(o)) /\ mutatePod(o).kind = "Pod"
  BY DEF Fixed, mutatePod, Objects

-----------------------------------------------------------------------------
LEMMA WebhookInitIInv == WebhookInit => WebhookIInv
  <1>. SUFFICES ASSUME WebhookInit PROVE WebhookIInv
    OBVIOUS
  <1>1. serving \in BOOLEAN /\ again \in BOOLEAN
    BY Zenon DEF WebhookInit
  <1>2. phase = "idle" /\ again = FALSE /\ sent \in Objects /\ obj \in Objects /\ store = {}
        /\ requests \in 0 .. MaxRequests
    BY WebhookAssumption DEF WebhookAssumption, WebhookInit
  <1>3. WebhookTypeOK
    BY <1>1, <1>2 DEF WebhookTypeOK
  <1>4. Flight
    BY <1>2 DEF Flight
  <1>. QED BY <1>2, <1>3, <1>4 DEF WebhookIInv

LEMMA WebhookNextIInv == WebhookIInv /\ [WebhookNext]_webhookVars => WebhookIInv'
  <1>. SUFFICES ASSUME WebhookIInv, [WebhookNext]_webhookVars PROVE WebhookIInv'
    OBVIOUS
  <1>. USE WebhookAssumption DEF WebhookIInv, WebhookTypeOK, Flight
  <1>1. CASE Create
    <2>1. again = FALSE /\ UNCHANGED <<again, serving, store>>
      BY <1>1 DEF Create, Send
    <2>2. phase' = "mutate" /\ sent' = sent /\ obj' = sent /\ requests' \in 0 .. MaxRequests
      BY <1>1 DEF Create, Send
    <2>. QED BY <2>1, <2>2
  <1>2. CASE Recreate
    BY <1>2 DEF Recreate, Send
  <1>3. CASE CallMutate
    <2>1. CASE obj.kind = "Pod"
      <3>1. obj' = mutatePod(obj) /\ phase' = "stored" /\ store' = store \cup {obj'}
            /\ obj = sent /\ UNCHANGED <<serving, sent, again, requests>>
        BY <1>3, <2>1 DEF CallMutate
      <3>2. Fixed(obj') /\ obj' \in Objects
        BY <2>1, <3>1, PodFixed, PatchType
      <3>3. WebhookTypeOK'
        BY <3>1, <3>2
      <3>4. Flight'
        BY <2>1, <3>1
      <3>5. \A o \in store' : Fixed(o)'
        BY <3>1, <3>2 DEF Fixed, mutationRequired, validate, validationRequired, admissionRequired
      <3>. QED BY <3>3, <3>4, <3>5
    <2>2. CASE obj.kind # "Pod"
      <3>1. obj' = mutate(obj) /\ phase' = "validate" /\ obj = sent
            /\ UNCHANGED <<store, serving, sent, again, requests>>
        BY <1>3, <2>2 DEF CallMutate
      <3>2. obj' \in Objects
        BY <3>1, PatchType
      <3>3. WebhookTypeOK'
        BY <3>1, <3>2
      <3>4. Flight'
        BY <2>2, <3>1
      <3>5. \A o \in store' : Fixed(o)'
        BY <3>1, <3>2 DEF Fixed, mutationRequired, validate, validationRequired, admissionRequired
      <3>. QED BY <3>3, <3>4, <3>5
    <2>. QED BY <2>1, <2>2
  <1>4. CASE CallValidate
    <2>1. obj.kind # "Pod" /\ ~mutationRequired(obj) /\ obj = mutate(sent)
      BY <1>4, MutateIdempotent DEF CallValidate
    <2>2. CASE validate(obj)
      <3>1. Fixed(obj)
        BY <2>1, <2>2 DEF Fixed
      <3>. QED BY <1>4, <2>1, <2>2, <3>1 DEF CallValidate
    <2>3. CASE ~validate(obj)
      <3>1. ~again
        <4>1. SUFFICES ASSUME again PROVE FALSE
          OBVIOUS
        <4>2. Fixed(sent) /\ sent.kind # "Pod"
          BY <1>4, <4>1 DEF CallValidate
        <4>3. mutate(sent) = sent /\ validate(sent)
          BY <4>2, FixedUnchanged
        <4>. QED BY <2>1, <2>3, <4>3
      <3>. QED BY <1>4, <2>1, <2>3, <3>1 DEF CallValidate
    <2>. QED BY <2>2, <2>3
  <1>5. CASE CallFails
    BY <1>5 DEF CallFails
  <1>6. CASE Shutdown
    BY <1>6 DEF Shutdown
  <1>7. CASE ServeAgain
    BY <1>7 DEF ServeAgain
  <1>8. CASE UNCHANGED webhookVars
    BY <1>8 DEF webhookVars
  <1>. QED
    BY <1>1, <1>2, <1>3, <1>4, <1>5, <1>6, <1>7, <1>8 DEF WebhookNext

\* What is stored stays a fixed point of admission.
THEOREM WebhookInvariance == WebhookSpec => []WebhookIInv
  BY WebhookInitIInv, WebhookNextIInv, PTL DEF WebhookSpec

\* Requests, patches and the store keep their types.
THEOREM WebhookTypeCorrect == WebhookSpec => []WebhookTypeOK
  BY WebhookInvariance, PTL DEF WebhookIInv

\* What validate says of the object that mutate leaves, told from the object
\* that mutate gets.
LEMMA RefusedAfterMutate ==
    ASSUME NEW o \in Objects, o.kind # "Pod"
    PROVE  validate(mutate(o)) <=> ~Refusable(o)
  <1>1. CASE mutationRequired(o)
    <2>1. /\ mutate(o).ns = o.ns /\ mutate(o).annotations = {"mutated"}
          /\ \A l \in Required : mutate(o).labels[l] = IF o.labels[l] \in {Unset, ""} THEN NA ELSE Unset
      BY <1>1 DEF mutate, createPatch, updateAnnotation, updateLabels, Objects, Labels
    <2>2. o.ns \notin Ignored
      BY <1>1 DEF mutationRequired, admissionRequired
    <2>3. validationRequired(mutate(o))
      BY <2>1, <2>2 DEF validationRequired, admissionRequired
    <2>4. validate(mutate(o)) <=> \A l \in Required : o.labels[l] \in {Unset, ""}
      BY <2>1, <2>3 DEF validate, NA, Unset
    <2>. QED BY <1>1, <2>2, <2>4 DEF Refusable
  <1>2. CASE ~mutationRequired(o)
    BY <1>2 DEF mutate, Refusable, validate, validationRequired, admissionRequired
  <1>. QED BY <1>1, <1>2

\* An object is denied if and only if Refusable says so of it as it was sent.
THEOREM DenialsKnown == WebhookSpec => []DenialsExplained
  <1>1. ASSUME WebhookIInv PROVE DenialsExplained
    <2>1. sent \in Objects
      BY <1>1 DEF WebhookIInv, WebhookTypeOK
    <2>2. phase = "denied" => Refusable(sent)
      BY <1>1, <2>1, RefusedAfterMutate DEF WebhookIInv, Flight
    <2>3. phase = "stored" => ~Refusable(sent)
      <3>1. CASE sent.kind = "Pod"
        BY <3>1 DEF Refusable
      <3>2. CASE sent.kind # "Pod"
        BY <1>1, <2>1, <3>2, RefusedAfterMutate DEF WebhookIInv, Flight
      <3>. QED BY <3>1, <3>2
    <2>. QED BY <2>2, <2>3 DEF DenialsExplained
  <1>. QED BY <1>1, WebhookInvariance, PTL

\* An exported object can be created again, and comes out unchanged.
THEOREM Idempotent == WebhookSpec => []Recreatable
  <1>1. WebhookIInv => Recreatable
    <2>. SUFFICES ASSUME WebhookIInv, again PROVE phase # "denied" /\ (phase \in {"validate", "stored"} => obj = sent)
      BY DEF Recreatable
    <2>1. phase # "denied"
      BY DEF WebhookIInv, Flight
    <2>2. ASSUME phase \in {"validate", "stored"} PROVE obj = sent
      <3>1. Fixed(sent) /\ sent \in Objects
        BY <2>2 DEF WebhookIInv, Flight, WebhookTypeOK
      <3>. QED BY <2>2, <3>1, FixedUnchanged DEF WebhookIInv, Flight
    <2>. QED BY <2>1, <2>2
  <1>. QED BY <1>1, WebhookInvariance, PTL

\* An object without recommended labels gets all of them and passes validation.
THEOREM GetsNA == WebhookSpec => []UnlabelledGetsNA
  <1>1. WebhookIInv => UnlabelledGetsNA
    <2>. SUFFICES ASSUME WebhookIInv, phase = "validate", mutationRequired(sent),
                         \A l \in Required : sent.labels[l] \in {Unset, ""}
                  PROVE  (\A l \in Required : obj.labels[l] = NA) /\ validate(obj)
      BY DEF UnlabelledGetsNA
    <2>1. obj = createPatch(sent) /\ sent \in Objects
      BY DEF WebhookIInv, Flight, WebhookTypeOK, mutate
    <2>2. \A l \in Required : obj.labels[l] = NA
      BY <2>1 DEF createPatch, updateLabels, Labels, Objects
    <2>. QED BY <2>2 DEF validate, NA, Unset
  <1>. QED BY <1>1, WebhookInvariance, PTL

(***************************************************************************)
(* The scheduler extender, in Spec.                                        *)
(***************************************************************************)

\* The cycle's Pod is nowhere else, and the snapshot still holds: between the
\* calls of a cycle nodes only become free.
InCycle ==
    pc # "idle" =>
        /\ pod \notin queue \cup binding /\ assumed[pod] = NoNode
        /\ pc \in {"filter", "prioritize"} =>
              \A n \in fits, p \in Pods : assumed[p] # n
        /\ pc = "prioritize" => nodes = fits

Waiting == \A p \in queue : p \notin binding /\ assumed[p] = NoNode

Binding == \A p \in binding : assumed[p] # NoNode /\ bound[p] = NoNode

Distinct ==
    \A p, q \in Pods : assumed[p] = assumed[q] /\ assumed[p] # NoNode => p = q

Settled == \A p \in Pods : p \notin binding => bound[p] = assumed[p]

IInv == TypeOK /\ InCycle /\ Waiting /\ Binding /\ Distinct /\ Settled

-----------------------------------------------------------------------------
(* The extender's answers.                                                 *)

\* Predicate.Handler with always_true returns the nodes it was sent.
LEMMA FilterAnswer ==
    ASSUME NEW ns, Serve("filter", ns).ok
    PROVE  Serve("filter", ns).nodes = ns
<1>1. CASE ~up \/ "filter" \notin Routes \/ config.cached
  BY <1>1 DEF Serve, Failure, PredicateRoute, Panicked
<1>2. CASE up /\ "filter" \in Routes /\ ~config.cached
  <2>1. Serve("filter", ns) = PredicateHandler(ns)
    BY <1>2 DEF Serve, PredicateRoute
  <2>2. PredicateHandler(ns).nodes = {n \in ns : TRUE}
    BY DEF PredicateHandler, TruePredicate
  <2> QED
    BY <2>1, <2>2
<1> QED
  BY <1>1, <1>2

\* Prioritize.Handler with zero_score scores every node it was sent with 0.
LEMMA PrioritizeAnswer ==
    ASSUME NEW ns, Serve("prioritize", ns).ok, NEW n \in ns
    PROVE  Serve("prioritize", ns).score[n] = 0
<1>1. CASE ~up \/ "prioritize" \notin Routes \/ config.cached
  BY <1>1 DEF Serve, Failure, PrioritizeRoute, Panicked
<1>2. CASE up /\ "prioritize" \in Routes /\ ~config.cached
  <2>1. Serve("prioritize", ns) = PrioritizeHandler(ns)
    BY <1>2 DEF Serve, PrioritizeRoute
  <2>2. PrioritizeHandler(ns).score[n] = 0
    BY DEF PrioritizeHandler, ZeroPriority
  <2> QED
    BY <2>1, <2>2
<1> QED
  BY <1>1, <1>2

\* BindRoute never reports success, and the preemption route does not exist.
LEMMA NoSuccess ==
    ASSUME NEW ns
    PROVE  ~Serve("bind", ns).ok /\ ~Serve("preempt", ns).ok
<1>1. ~Serve("bind", ns).ok
  BY DEF Serve, Routes, Failure, BindRoute, BindHandler, NoBind, Panicked
<1>2. ~Serve("preempt", ns).ok
  BY DEF Serve, Routes, Failure
<1> QED
  BY <1>1, <1>2

\* A preemption leaves every Pod where it is: the call is answered 404.
LEMMA PreemptInVain ==
    ASSUME TypeOK, Preempt
    PROVE  UNCHANGED <<assumed, bound>>
<1>1. ~Serve("preempt", Preemptable(pod)).ok
  BY NoSuccess
<1>2. /\ assumed' = [q \in Pods |-> assumed[q]]
      /\ bound' = [q \in Pods |-> bound[q]]
  BY <1>1 DEF Preempt
<1> QED
  BY <1>2 DEF TypeOK

\* The node that Prioritize chooses is among the best that fit.
LEMMA PrioritizeChooses ==
    ASSUME IInv, Prioritize
    PROVE  \E n \in fits : Choose(n) /\ \A k \in fits : rank[k] <= rank[n]
<1>1. nodes = fits /\ fits \subseteq Nodes /\ rank \in [Nodes -> {0, 1}]
  BY DEF IInv, InCycle, Prioritize, TypeOK, Ranks
<1> DEFINE reply == Serve("prioritize", nodes)
           total(n) == rank[n] + IF reply.ok THEN reply.score[n] ELSE 0
<1>2. PICK n \in nodes : (\A k \in nodes : total(k) <= total(n)) /\ Choose(n)
  BY DEF Prioritize
<1>3. ASSUME NEW k \in nodes PROVE total(k) = rank[k]
  <2>1. rank[k] \in Nat
    BY <1>1
  <2>2. (IF reply.ok THEN reply.score[k] ELSE 0) = 0
    BY PrioritizeAnswer
  <2> QED
    BY <2>1, <2>2
<1> HIDE DEF total
<1> QED
  BY <1>1, <1>2, <1>3

-----------------------------------------------------------------------------
(* The inductive step.                                                     *)

\* The cycle's Pod is assumed on a node that was free.
LEMMA ChooseStep ==
    ASSUME IInv, pc \in {"filter", "prioritize"}, NEW n \in fits, Choose(n),
           nodes' \subseteq Nodes, UNCHANGED <<config, bound, up, faults>>
    PROVE  IInv'
<1> USE PlacesAssumption DEF IInv, Choose
<1>1. TypeOK'
  BY DEF TypeOK, PCs, Places
<1>2. InCycle' /\ Waiting'
  BY DEF TypeOK, InCycle, Waiting
<1>3. Binding' /\ Settled'
  BY DEF TypeOK, InCycle, Binding, Settled
<1>4. Distinct'
  BY DEF TypeOK, InCycle, Distinct
<1> QED
  BY <1>1, <1>2, <1>3, <1>4

\* Every step of scheduler, extender and cluster keeps IInv.
LEMMA InductiveStep ==
    ASSUME IInv, [Next]_vars
    PROVE  IInv'
<1> USE PlacesAssumption DEF IInv
<1>1. ASSUME NEW p \in Pods, StartCycle(p) PROVE IInv'
  <2>1. TypeOK'
    BY <1>1 DEF StartCycle, TypeOK, PCs
  <2>2. InCycle'
    BY <1>1 DEF StartCycle, InCycle, Waiting, Room, TypeOK
  <2>3. Waiting' /\ Binding' /\ Distinct' /\ Settled'
    BY <1>1 DEF StartCycle, Waiting, Binding, Distinct, Settled
  <2> QED
    BY <2>1, <2>2, <2>3
<1>2. ASSUME Filter PROVE IInv'
  <2> DEFINE reply == Serve("filter", fits)
  <2>1. CASE ~reply.ok
    <3>1. GiveUp /\ UNCHANGED <<config, bound, up, faults>>
      BY <1>2, <2>1 DEF Filter
    <3>2. pc # "idle"
      BY <1>2 DEF Filter
    <3> QED
      BY <3>1, <3>2 DEF GiveUp, TypeOK, PCs, InCycle, Waiting, Binding, Distinct, Settled
  <2>2. CASE reply.ok
    <3>1. reply.nodes = fits /\ pc = "filter"
      BY <1>2, <2>2, FilterAnswer DEF Filter
    <3>2. nodes' = fits /\ UNCHANGED <<config, bound, up, faults>>
      BY <1>2, <2>2, <3>1 DEF Filter
    <3>3. CASE \E n \in Nodes : reply.nodes = {n}
      <4>1. PICK n \in fits : Choose(n)
        BY <1>2, <2>2, <3>1, <3>3 DEF Filter
      <4>2. fits \subseteq Nodes
        BY DEF TypeOK
      <4> QED
        BY <3>1, <3>2, <4>1, <4>2, ChooseStep
    <3>4. CASE ~\E n \in Nodes : reply.nodes = {n}
      <4>1. /\ pc' \in {"preempt", "prioritize"}
            /\ UNCHANGED <<queue, pod, rank, fits, assumed, binding>>
        BY <1>2, <2>2, <3>4 DEF Filter
      <4> QED
        BY <3>1, <3>2, <4>1 DEF TypeOK, PCs, InCycle, Waiting, Binding, Distinct, Settled
    <3> QED
      BY <3>3, <3>4
  <2> QED
    BY <2>1, <2>2
<1>3. ASSUME Prioritize PROVE IInv'
  <2>1. PICK n \in fits : Choose(n)
    BY <1>3, PrioritizeChooses
  <2>2. pc = "prioritize" /\ UNCHANGED <<config, nodes, bound, up, faults>>
    BY <1>3 DEF Prioritize
  <2>3. nodes' \subseteq Nodes
    BY <2>2 DEF TypeOK
  <2> QED
    BY <2>1, <2>2, <2>3, ChooseStep
<1>4. ASSUME Preempt PROVE IInv'
  <2>1. UNCHANGED <<assumed, bound>>
    BY <1>4, PreemptInVain
  <2> QED
    BY <1>4, <2>1
    DEF Preempt, TypeOK, PCs, InCycle, Waiting, Binding, Distinct, Settled
<1>5. ASSUME NEW p \in Pods, Forget(p), binding' = binding \ {p}, p \in binding,
             UNCHANGED <<config, cycle, up>>, faults' \in 0 .. MaxFaults
      PROVE  IInv'
  <2>1. TypeOK'
    BY <1>5 DEF Forget, TypeOK, cycle, Places
  <2>2. InCycle' /\ Waiting'
    BY <1>5 DEF Forget, TypeOK, cycle, InCycle, Waiting
  <2>3. Binding' /\ Distinct' /\ Settled'
    BY <1>5 DEF Forget, TypeOK, Binding, Distinct, Settled
  <2> QED
    BY <2>1, <2>2, <2>3
<1>6. ASSUME NEW p \in Pods, Bind(p) PROVE IInv'
  <2>1. CASE ~config.binds
    <3>1. /\ p \in binding /\ binding' = binding \ {p}
          /\ bound' = [bound EXCEPT ![p] = assumed[p]]
          /\ UNCHANGED <<queue, assumed, config, cycle, up, faults>>
      BY <1>6, <2>1 DEF Bind
    <3>2. TypeOK'
      BY <3>1 DEF TypeOK, cycle
    <3>3. InCycle' /\ Waiting' /\ Distinct'
      BY <3>1 DEF TypeOK, cycle, InCycle, Waiting, Distinct
    <3>4. Binding' /\ Settled'
      BY <3>1 DEF TypeOK, Binding, Settled
    <3> QED
      BY <3>2, <3>3, <3>4
  <2>2. CASE config.binds
    <3>1. ~Serve("bind", {}).ok
      BY NoSuccess
    <3>2. /\ Forget(p) /\ p \in binding /\ binding' = binding \ {p}
          /\ UNCHANGED <<config, cycle, up, faults>>
      BY <1>6, <2>2, <3>1 DEF Bind
    <3>3. faults' \in 0 .. MaxFaults
      BY <3>2 DEF TypeOK
    <3> QED
      BY <1>5, <3>2, <3>3
  <2> QED
    BY <2>1, <2>2
<1>7. ASSUME TimeOut PROVE IInv'
  <2>1. faults' \in 0 .. MaxFaults /\ UNCHANGED <<config, up>>
    BY <1>7 DEF TimeOut, TypeOK
  <2>2. CASE pc = "filter" /\ GiveUp /\ UNCHANGED bound
    BY <2>1, <2>2 DEF GiveUp, TypeOK, PCs, InCycle, Waiting, Binding, Distinct, Settled
  <2>3. CASE \E p \in binding : Forget(p) /\ binding' = binding \ {p} /\ UNCHANGED cycle
    BY <1>5, <2>1, <2>3 DEF TypeOK
  <2> QED
    BY <1>7, <2>2, <2>3 DEF TimeOut
<1>8. ASSUME Crash \/ Restart PROVE IInv'
  <2>1. /\ UNCHANGED <<config, queue, cycle, assumed, binding, bound>>
        /\ up' = FALSE \/ up' = TRUE
    BY <1>8 DEF Crash, Restart
  <2>0. faults' \in 0 .. MaxFaults
    BY <1>8 DEF Crash, Restart, TypeOK
  <2>2. TypeOK' /\ Distinct' /\ Settled'
    BY <2>0, <2>1 DEF cycle, TypeOK, Distinct, Settled
  <2>3. InCycle' /\ Waiting' /\ Binding'
    BY <2>1 DEF cycle, InCycle, Waiting, Binding
  <2> QED
    BY <2>2, <2>3
<1>9. ASSUME NEW p \in Pods, Finish(p) PROVE IInv'
  <2>0. p \notin binding
    BY <1>9 DEF Finish, Binding
  <2>1. TypeOK'
    BY <1>9 DEF Finish, TypeOK, cycle, Places
  <2>2. InCycle' /\ Waiting' /\ Distinct'
    BY <1>9 DEF Finish, TypeOK, cycle, InCycle, Waiting, Distinct
  <2>3. Binding' /\ Settled'
    BY <1>9, <2>0 DEF Finish, TypeOK, Binding, Settled
  <2> QED
    BY <2>1, <2>2, <2>3
<1>10. ASSUME UNCHANGED vars PROVE IInv'
  <2>1. TypeOK' /\ Distinct' /\ Settled'
    BY <1>10 DEF vars, cycle, TypeOK, Distinct, Settled
  <2>2. InCycle' /\ Waiting' /\ Binding'
    BY <1>10 DEF vars, cycle, InCycle, Waiting, Binding
  <2> QED
    BY <2>1, <2>2
<1> QED
  BY <1>1, <1>2, <1>3, <1>4, <1>6, <1>7, <1>8, <1>9, <1>10 DEF Next, Scheduler

\* IInv is inductive.
LEMMA Invariance == Spec => []IInv
<1>1. Init => IInv
  BY PlacesAssumption DEF Init, IInv, TypeOK, PCs, Ranks, Places, InCycle, Waiting,
     Binding, Distinct, Settled
<1>2. IInv /\ [Next]_vars => IInv'
  BY InductiveStep
<1> QED
  BY <1>1, <1>2, PTL DEF Spec

-----------------------------------------------------------------------------
(* The theorems.                                                           *)

\* The variables keep their types.
THEOREM TypeCorrect == Spec => []TypeOK
<1>1. IInv => TypeOK
  BY DEF IInv
<1> QED
  BY Invariance, <1>1, PTL

\* The answers of PredicateRoute never bring two Pods to one place.
THEOREM OnePodPerPlace == Spec => []NoOvercommit
<1>1. IInv => NoOvercommit
  BY DEF IInv, Binding, Distinct, Settled, NoOvercommit
<1> QED
  BY Invariance, <1>1, PTL

\* The answers of BindRoute never make the scheduler believe in a binding.
THEOREM BindingsReal == Spec => []BelievedIsBound
<1>1. IInv => BelievedIsBound
  BY DEF IInv, Settled, BelievedIsBound
<1> QED
  BY Invariance, <1>1, PTL

\* TruePredicate and ZeroPriority leave the choice to the scheduler.
THEOREM ChoiceUnbiased == Spec => Neutral
<1> DEFINE Unbiased ==
        \A p \in Pods : assumed[p] = NoNode /\ assumed'[p] # NoNode =>
            /\ assumed'[p] \in fits
            /\ \A n \in fits : rank[n] <= rank[assumed'[p]]
<1>1. ASSUME IInv, [Next]_vars PROVE [Unbiased]_vars
  <2> USE <1>1 DEF IInv
  <2>1. ASSUME NEW n \in fits, Choose(n), \A k \in fits : rank[k] <= rank[n]
        PROVE  Unbiased
    BY <2>1 DEF Choose, TypeOK
  <2>2. CASE Filter
    <3> DEFINE reply == Serve("filter", fits)
    <3>1. CASE reply.ok /\ \E n \in Nodes : reply.nodes = {n}
      <4>1. reply.nodes = fits
        BY <3>1, FilterAnswer
      <4>2. PICK n \in fits : Choose(n)
        BY <2>2, <3>1, <4>1 DEF Filter
      <4>3. \A k \in fits : k = n
        BY <3>1, <4>1, <4>2
      <4>4. rank[n] <= rank[n]
        BY <4>2 DEF TypeOK, Ranks
      <4> QED
        BY <2>1, <4>2, <4>3, <4>4
    <3>2. CASE ~(reply.ok /\ \E n \in Nodes : reply.nodes = {n})
      <4>1. UNCHANGED assumed
        BY <2>2, <3>2 DEF Filter, GiveUp
      <4> QED
        BY <4>1
    <3> QED
      BY <3>1, <3>2
  <2>3. CASE Prioritize
    BY <2>1, <2>3, PrioritizeChooses
  <2>4. CASE Preempt
    <3>1. UNCHANGED assumed
      BY <2>4, PreemptInVain
    <3> QED
      BY <3>1
  <2>5. CASE \/ TimeOut \/ Crash \/ Restart
             \/ \E p \in Pods : StartCycle(p) \/ Bind(p) \/ Finish(p)
    BY <2>5 DEF TimeOut, Crash, Restart, StartCycle, Bind, Finish, Forget, GiveUp, TypeOK
  <2>6. CASE UNCHANGED vars
    BY <2>6 DEF vars
  <2> QED
    BY <2>2, <2>3, <2>4, <2>5, <2>6 DEF Next, Scheduler
<1> QED
  BY <1>1, Invariance, PTL DEF Spec, Neutral
=============================================================================
