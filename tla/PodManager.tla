----------------------------- MODULE PodManager -----------------------------
(***************************************************************************)
(* The PodManager operator (pod-operator/): one PodManager object, the     *)
(* Pods it owns, and the reconciler that drives the second towards the     *)
(* first.                                                                  *)
(*                                                                         *)
(* The API server's objects are pm and pods.  The reconciler reads through *)
(* the manager's client, that is from informer caches (cpm, cpods) that    *)
(* lag behind and are refreshed object by object; it writes to the API     *)
(* server directly, one call per step, so users, the kubelet, the garbage  *)
(* collector and the caches can move between any two calls of one          *)
(* Reconcile.  resourceVersion is abstracted to the only thing a write     *)
(* compares it for: a copy is fresh as long as nobody wrote pm after it    *)
(* was read.                                                               *)
(*                                                                         *)
(* A Pod's name is "<PodManager name>-<index>", so a Pod is identified by  *)
(* its index; a deleted PodManager may be created again under the same     *)
(* name with a new UID, and competes for the same Pod names.               *)
(***************************************************************************)
EXTENDS Naturals, FiniteSets, Sequences

CONSTANTS MaxReplicas,   \* largest spec.replicas a user asks for
          MaxUid,        \* how often the PodManager may be created
          MaxEvictions,  \* how many Pods somebody else may delete
          MaxFaults,     \* transient API errors and controller crashes
          ShrinkAllowed, \* may users lower spec.replicas
          SeedTypes      \* condition types another client may put in status

ASSUME ConstantsOK ==
    /\ MaxReplicas \in Nat \ {0}
    /\ MaxUid \in Nat \ {0}
    /\ MaxEvictions \in Nat
    /\ MaxFaults \in Nat
    /\ ShrinkAllowed \in BOOLEAN

VARIABLES pm,        \* the PodManager in the API server, NoPM if there is none
          pods,      \* the Pods in the API server, by index
          lastUid,   \* the UID given out last
          cpm,       \* the PodManager in the informer cache
          cpmFresh,  \* cpm carries the current resourceVersion of pm
          cpods,     \* the Pods in the informer cache
          queued,    \* the request is in the controller's work queue
          pc,        \* where the (single) worker is inside Reconcile
          obj,       \* the local variable podManager
          objFresh,  \* obj carries the current resourceVersion of pm
          next,      \* loop variable of the create loop
          victims,   \* Pods the delete loop still has to delete
          seen,      \* counts taken from podList: current and ready replicas
          evictions, faults

vars == <<pm, pods, lastUid, cpm, cpmFresh, cpods, queued, pc, obj, objFresh,
          next, victims, seen, evictions, faults>>

apiVars    == <<pm, pods, lastUid>>
cacheVars  == <<cpm, cpmFresh, cpods>>
localVars  == <<obj, objFresh, next, victims, seen>>
budgetVars == <<evictions, faults>>

Idx == 0 .. (MaxReplicas - 1)
Uid == 0 .. MaxUid

Condition == [type : SeedTypes \cup {"Ready"}, status : {"True", "False"}]
Status    == [ready : 0 .. MaxReplicas, current : 0 .. MaxReplicas,
              conds : Seq(Condition)]
NoStatus  == [ready |-> 0, current |-> 0, conds |-> <<>>]

PM   == [uid : Uid, fin : BOOLEAN, del : BOOLEAN,
         replicas : 0 .. MaxReplicas, status : Status]
NoPM == [uid |-> 0, fin |-> FALSE, del |-> FALSE, replicas |-> 0,
         status |-> NoStatus]

Pod   == [owner : Uid, ready : BOOLEAN, term : BOOLEAN]
NoPod == [owner |-> 0, ready |-> FALSE, term |-> FALSE]

Counts   == [current : 0 .. MaxReplicas, ready : 0 .. MaxReplicas]
NoCounts == [current |-> 0, ready |-> 0]

\* Program points of Reconcile and handleFinalizer, one per API call or list.
ScalePcs == {"list", "create", "delete", "status"}
FinPcs   == {"finList", "finDelete", "finRemove"}
PCs      == {"idle", "addFinalizer"} \cup ScalePcs \cup FinPcs

\* Mutant: ownerLabels without the UID, every Pod with the name is listed.
ListedByName == {i \in Idx : cpods[i].owner # 0}

\* What the cached List with ownerLabels returns: the selector names the UID.
Listed == {i \in Idx : obj.uid # 0 /\ cpods[i].owner = obj.uid}

Owned(u) == {i \in Idx : pods[i].owner = u}
Live(u)  == {i \in Owned(u) : ~pods[i].term}

TypeOK ==
    /\ pm \in PM
    /\ pods \in [Idx -> Pod]
    /\ lastUid \in Uid
    /\ cpm \in PM
    /\ cpmFresh \in BOOLEAN
    /\ cpods \in [Idx -> Pod]
    /\ queued \in BOOLEAN
    /\ pc \in PCs
    /\ obj \in PM
    /\ objFresh \in BOOLEAN
    /\ next \in 0 .. MaxReplicas
    /\ pc = "create" => next \in Idx
    /\ victims \in SUBSET Idx
    /\ seen \in Counts
    /\ evictions \in 0 .. MaxEvictions
    /\ faults \in 0 .. MaxFaults

Init ==
    /\ pm = NoPM /\ cpm = NoPM /\ obj = NoPM
    /\ pods = [i \in Idx |-> NoPod]
    /\ cpods = [i \in Idx |-> NoPod]
    /\ lastUid = 0
    /\ cpmFresh = TRUE /\ objFresh = FALSE
    /\ queued = FALSE
    /\ pc = "idle"
    /\ next = 0
    /\ victims = {}
    /\ seen = NoCounts
    /\ evictions = 0 /\ faults = 0

-----------------------------------------------------------------------------
(* Reconcile: the ways a call ends.                                        *)

\* Reconcile returns: its local variables are gone.
Return ==
    /\ pc' = "idle"
    /\ obj' = NoPM /\ objFresh' = FALSE
    /\ next' = 0 /\ victims' = {} /\ seen' = NoCounts

\* return ctrl.Result{}, err and return ctrl.Result{Requeue...}, nil: the
\* request goes back to the queue; back-off and RequeueAfter are delays.
Requeue ==
    /\ Return
    /\ queued' = TRUE

\* A write of pm that changes it makes every copy read before it stale.
PMWritten(new) ==
    /\ pm' = new
    /\ cpmFresh' = (cpmFresh /\ new = pm)

\* Mutant: the write carries no resourceVersion.
UpdateForced(new) == PMWritten(new)

\* Client.Update and Status().Update of the local copy: a conflict (or
\* NotFound) when somebody wrote pm since the copy was read.
Update(new) ==
    IF objFresh THEN PMWritten(new) ELSE UNCHANGED <<pm, cpmFresh>>

\* Mutant: step 3 is missing.
DispatchSkipsFinalizer(o) ==
    CASE o.uid = 0 -> "idle"
      [] o.uid # 0 /\ o.del -> IF o.fin THEN "finList" ELSE "idle"
      [] OTHER -> "list"

\* Steps 2 and 3 and the head of handleFinalizer: what is done next.
Dispatch(o) ==
    CASE o.uid = 0 -> "idle"
      [] o.uid # 0 /\ o.del -> IF o.fin THEN "finList" ELSE "idle"
      [] OTHER -> IF o.fin THEN "list" ELSE "addFinalizer"

\* Step 1: Get from the cache.
Reconcile ==
    /\ pc = "idle" /\ queued
    /\ queued' = FALSE
    /\ pc' = Dispatch(cpm)
    /\ IF Dispatch(cpm) = "idle" THEN UNCHANGED <<obj, objFresh>>
                                ELSE obj' = cpm /\ objFresh' = cpmFresh
    /\ UNCHANGED <<apiVars, cacheVars, next, victims, seen, budgetVars>>

\* AddFinalizer and Update: both outcomes requeue.
AddFinalizer ==
    /\ pc = "addFinalizer"
    /\ Update([obj EXCEPT !.fin = TRUE])
    /\ Requeue
    /\ UNCHANGED <<pods, lastUid, cpm, cpods, budgetVars>>

\* Mutant: the create loop starts at 0 instead of currentReplicas.
FirstIndexZero(current) == 0

\* i := currentReplicas
FirstIndex(current) == current

\* Steps 4 and 5 up to the loops.  The cache lists Pods in map order, so the
\* items from desiredReplicas on are an arbitrary choice among the listed.
List ==
    /\ pc = "list"
    /\ LET current == Cardinality(Listed)
           desired == obj.replicas
       IN  /\ seen' = [current |-> current,
                       ready   |-> Cardinality({i \in Listed : cpods[i].ready})]
           /\ next' = FirstIndex(current)
           /\ \/ /\ current < desired
                 /\ pc' = "create"
                 /\ victims' = {}
              \/ /\ current > desired
                 /\ pc' = "delete"
                 /\ victims' \in {V \in SUBSET Listed :
                                    Cardinality(V) = current - desired}
              \/ /\ current = desired
                 /\ pc' = "status"
                 /\ victims' = {}
    /\ UNCHANGED <<apiVars, cacheVars, queued, obj, objFresh, budgetVars>>

\* Mutant: i <= desiredReplicas, while there is a name for the Pod too many.
LastCreatedOneMore(i) == i = obj.replicas \/ i + 1 = MaxReplicas

\* The create loop ends after round i: not i + 1 < desiredReplicas.
LastCreated(i) == i + 1 = obj.replicas

\* One round of the create loop: newPodForPodManager(podManager, i) and
\* Create, which fails with AlreadyExists when the name is taken.
CreatePod ==
    /\ pc = "create"
    /\ IF pods[next].owner = 0
       THEN /\ pods' = [pods EXCEPT ![next] =
                          [owner |-> obj.uid, ready |-> FALSE, term |-> FALSE]]
            /\ next' = next + 1
            /\ pc' = IF LastCreated(next) THEN "status" ELSE "create"
            /\ UNCHANGED <<queued, obj, objFresh, victims, seen>>
       ELSE /\ Requeue
            /\ UNCHANGED pods
    /\ UNCHANGED <<pm, lastUid, cacheVars, budgetVars>>

\* Delete sends no precondition: whatever Pod has the name is terminated.
Terminate(i) == pods' = [pods EXCEPT ![i].term = TRUE]

\* One round of the delete loop: NotFound is an error like any other here.
DeletePod ==
    /\ pc = "delete"
    /\ \E i \in victims :
          IF pods[i].owner # 0
          THEN /\ Terminate(i)
               /\ victims' = victims \ {i}
               /\ pc' = IF victims = {i} THEN "status" ELSE "delete"
               /\ UNCHANGED <<queued, obj, objFresh, next, seen>>
          ELSE /\ Requeue
               /\ UNCHANGED pods
    /\ UNCHANGED <<pm, lastUid, cacheVars, budgetVars>>

\* Mutant: a condition that is there already is never replaced.
SetConditionOnce(conds, c) ==
    IF \E i \in DOMAIN conds : conds[i].type = c.type THEN conds
                                                      ELSE Append(conds, c)

\* PodManagerStatus.SetCondition: the first condition of the type is replaced
\* (unless the status is the same, when it already equals c here).
SetCondition(conds, c) ==
    LET Same == {i \in DOMAIN conds : conds[i].type = c.type}
    IN  IF Same = {} THEN Append(conds, c)
        ELSE [i \in DOMAIN conds |->
                IF i \in Same /\ \A k \in Same : i <= k THEN c ELSE conds[i]]

ReadyCondition ==
    [type   |-> "Ready",
     status |-> IF seen.ready = obj.replicas /\ obj.replicas > 0
                THEN "True" ELSE "False"]

\* Steps 6 and 7.  Both branches read Conditions[0]: with no condition yet
\* that is a panic, which the controller recovers into an error.
UpdateStatus ==
    /\ pc = "status"
    /\ IF obj.status.conds # <<>>
       THEN Update([obj EXCEPT !.status =
                      [ready   |-> seen.ready,
                       current |-> seen.current,
                       conds   |-> SetCondition(obj.status.conds, ReadyCondition)]])
       ELSE UNCHANGED <<pm, cpmFresh>>
    /\ Requeue
    /\ UNCHANGED <<pods, lastUid, cpm, cpods, budgetVars>>

-----------------------------------------------------------------------------
(* handleFinalizer                                                         *)

FinList ==
    /\ pc = "finList"
    /\ victims' = Listed
    /\ pc' = IF Listed = {} THEN "finRemove" ELSE "finDelete"
    /\ UNCHANGED <<apiVars, cacheVars, queued, obj, objFresh, next, seen, budgetVars>>

\* One round of the cleanup loop: NotFound is tolerated.
FinDelete ==
    /\ pc = "finDelete"
    /\ \E i \in victims :
          /\ IF pods[i].owner # 0 THEN Terminate(i) ELSE UNCHANGED pods
          /\ victims' = victims \ {i}
          /\ pc' = IF victims = {i} THEN "finRemove" ELSE "finDelete"
    /\ UNCHANGED <<pm, lastUid, cacheVars, queued, obj, objFresh, next, seen, budgetVars>>

\* RemoveFinalizer and Update: it was the only finalizer of an object being
\* deleted, so the API server removes the object.
FinRemove ==
    /\ pc = "finRemove"
    /\ Update(NoPM)
    /\ IF objFresh THEN Return /\ UNCHANGED queued ELSE Requeue
    /\ UNCHANGED <<pods, lastUid, cpm, cpods, budgetVars>>

-----------------------------------------------------------------------------
(* Failures of the controller's environment.                               *)

\* A call to the API server fails for a reason of its own.
TransientError ==
    /\ pc \in {"addFinalizer", "create", "delete", "status", "finDelete", "finRemove"}
    /\ faults < MaxFaults
    /\ faults' = faults + 1
    /\ Requeue
    /\ UNCHANGED <<apiVars, cacheVars, evictions>>

\* The process dies; its successor lists both kinds before it starts the
\* worker, and the initial list enqueues the request.
CrashRestart ==
    /\ faults < MaxFaults
    /\ faults' = faults + 1
    /\ Requeue
    /\ cpm' = pm /\ cpmFresh' = TRUE
    /\ cpods' = pods
    /\ UNCHANGED <<apiVars, evictions>>

(* The informers: For(PodManager) and Owns(Pod) of SetupWithManager.       *)

SyncPM ==
    /\ ~cpmFresh
    /\ cpm' = pm /\ cpmFresh' = TRUE
    /\ queued' = TRUE
    /\ UNCHANGED <<apiVars, cpods, pc, localVars, budgetVars>>

SyncPod(i) ==
    /\ cpods[i] # pods[i]
    /\ cpods' = [cpods EXCEPT ![i] = pods[i]]
    /\ queued' = TRUE
    /\ UNCHANGED <<apiVars, cpm, cpmFresh, pc, localVars, budgetVars>>

-----------------------------------------------------------------------------
(* Users, other clients, the kubelet and the garbage collector.            *)

UserWrites(new) ==
    /\ PMWritten(new)
    /\ objFresh' = (objFresh /\ new = pm)
    /\ UNCHANGED <<cpm, cpods, queued, pc, obj, next, victims, seen, budgetVars>>

UserCreate(r) ==
    /\ pm.uid = 0 /\ lastUid < MaxUid
    /\ lastUid' = lastUid + 1
    /\ UserWrites([uid |-> lastUid + 1, fin |-> FALSE, del |-> FALSE,
                   replicas |-> r, status |-> NoStatus])
    /\ UNCHANGED pods

UserScale(r) ==
    /\ pm.uid # 0 /\ ~pm.del
    /\ r > pm.replicas \/ (ShrinkAllowed /\ r < pm.replicas)
    /\ UserWrites([pm EXCEPT !.replicas = r])
    /\ UNCHANGED <<pods, lastUid>>

\* Without a finalizer the object goes at once, with one it is only marked.
UserDelete ==
    /\ pm.uid # 0 /\ ~pm.del
    /\ UserWrites(IF pm.fin THEN [pm EXCEPT !.del = TRUE] ELSE NoPM)
    /\ UNCHANGED <<pods, lastUid>>

\* Another client writes a first condition through the status subresource.
SeedStatus(t) ==
    /\ pm.uid # 0 /\ pm.status.conds = <<>>
    /\ UserWrites([pm EXCEPT !.status.conds = <<[type |-> t, status |-> "False"]>>])
    /\ UNCHANGED <<pods, lastUid>>

PodStep(i, new) ==
    /\ pods' = [pods EXCEPT ![i] = new]
    /\ UNCHANGED <<pm, lastUid, cacheVars, queued, pc, localVars, faults>>

PodReady(i) ==
    /\ pods[i].owner # 0 /\ ~pods[i].term /\ ~pods[i].ready
    /\ PodStep(i, [pods[i] EXCEPT !.ready = TRUE])
    /\ UNCHANGED evictions

PodGone(i) ==
    /\ pods[i].term
    /\ PodStep(i, NoPod)
    /\ UNCHANGED evictions

Evict(i) ==
    /\ pods[i].owner # 0 /\ ~pods[i].term
    /\ evictions < MaxEvictions
    /\ evictions' = evictions + 1
    /\ PodStep(i, [pods[i] EXCEPT !.term = TRUE])

\* Mutant: newPodForPodManager sets no OwnerReferences.
CollectableNever(p) == FALSE

\* The owner reference that newPodForPodManager sets names a UID that no
\* longer exists.
Collectable(p) == p.owner # 0 /\ p.owner # pm.uid

\* The garbage collector deletes Pods whose owner is gone.
GarbageCollect(i) ==
    /\ Collectable(pods[i]) /\ ~pods[i].term
    /\ PodStep(i, [pods[i] EXCEPT !.term = TRUE])
    /\ UNCHANGED evictions

-----------------------------------------------------------------------------
Controller ==
    \/ Reconcile \/ AddFinalizer \/ List \/ CreatePod \/ DeletePod
    \/ UpdateStatus \/ FinList \/ FinDelete \/ FinRemove

Users ==
    \/ \E r \in 1 .. MaxReplicas : UserCreate(r) \/ UserScale(r)
    \/ UserDelete
    \/ \E t \in SeedTypes : SeedStatus(t)

Next ==
    \/ Controller
    \/ TransientError
    \/ CrashRestart
    \/ SyncPM
    \/ \E i \in Idx : SyncPod(i)
    \/ Users
    \/ \E i \in Idx : PodReady(i) \/ PodGone(i) \/ Evict(i) \/ GarbageCollect(i)

Spec == Init /\ [][Next]_vars

\* The worker keeps running, watches keep delivering, the kubelet finishes
\* what it started and the garbage collector keeps collecting.
Fairness ==
    /\ WF_vars(Controller)
    /\ WF_vars(SyncPM)
    /\ \A i \in Idx : /\ WF_vars(SyncPod(i))
                      /\ WF_vars(PodReady(i))
                      /\ WF_vars(PodGone(i))
                      /\ WF_vars(GarbageCollect(i))

FairSpec == Spec /\ Fairness

-----------------------------------------------------------------------------
(* Safety.                                                                 *)

\* While a PodManager exists, a Pod carrying its UID exists only under its
\* finalizer: step 3 of Reconcile comes before the first Create, and stale
\* reconciles, crashes and re-creation under the same name keep it so.
FinalizerBeforePods ==
    pm.uid # 0 /\ Owned(pm.uid) # {} => pm.fin

\* The create loop, which works from an old cached copy, never runs for an
\* object that is gone: no Pod is born an orphan.
NoOrphanCreate ==
    pc = "create" => pm.uid = obj.uid /\ pm.fin

\* Delete names a Pod, not a UID, and podList may be stale: still, the Pods
\* both delete loops are about to hit are the reconciled object's own or
\* gone, never those of a successor created under the same name.
OnlyOwnPodsDeleted ==
    pc \in {"delete", "finDelete"} =>
        \A v \in victims : pods[v].owner \in {0, obj.uid}

\* A Pod of u is missing below one that is there: the next Create, whose index
\* is the number of listed Pods, may meet a taken name.
Gap(u) == \E i, k \in Idx : i < k /\ pods[i].owner # u /\ k \in Owned(u)

\* All Pods of the object are below spec.replicas.
BelowReplicas == \A i \in Owned(pm.uid) : i < pm.replicas

\* Every write of the reconciler is computed from a cached copy; none undoes
\* a scale or a delete request that came after the copy was taken.
NoLostUserWrite ==
    [][Controller /\ pm'.uid # 0 =>
          /\ pm'.uid = pm.uid
          /\ pm'.replicas = pm.replicas
          /\ pm'.del = pm.del]_vars

(* Liveness, under Fairness.                                               *)

\* A delete request ends: conflicts, crashes and transient errors in
\* handleFinalizer are all retried until the finalizer is off, and the Pods go
\* for good, even those that the cleanup loop missed because its podList was
\* stale: their owner reference sees to that.
CleanupCompletes ==
    \A u \in 1 .. MaxUid :
        (pm.uid = u /\ pm.del) ~> [](pm.uid # u /\ Owned(u) = {})

\* Once users leave the object alone, the reconciler brings the number of
\* its Pods to spec.replicas and keeps it there ("Adjust Pod count"), however
\* stale its lists are and although terminating Pods are counted and deleted
\* again; the one thing that can hold it up is a gap among the indices.
ReplicasConverge ==
    \A u \in 1 .. MaxUid, r \in 1 .. MaxReplicas :
        <>[](pm.uid = u /\ ~pm.del /\ pm.replicas = r)
            => \/ <>[](Cardinality(Live(u)) = r)
               \/ <>[](Cardinality(Live(u)) < r /\ Gap(u))

\* Once there is a condition to start from, the status ends up saying what
\* is the case: all Pods there, all ready, Ready = True.
StatusConverges ==
    \A u \in 1 .. MaxUid, r \in 1 .. MaxReplicas :
        <>[](pm.uid = u /\ ~pm.del /\ pm.replicas = r /\ pm.status.conds # <<>>)
            => <>[](/\ pm.status.current = r /\ pm.status.ready = r
                    /\ \E k \in DOMAIN pm.status.conds :
                          pm.status.conds[k] = [type |-> "Ready", status |-> "True"])
=============================================================================
