----------------------------- MODULE SimpleApp ------------------------------
(***************************************************************************)
(* SimpleAppReconciler of finalizer-example/finalizer.go: a finalizer      *)
(* protects one Pod, "<name>-pod", which the reconciler finds by label and *)
(* reads, like the SimpleApp itself, from a cache that may be behind.      *)
(*                                                                         *)
(* A field of the object changes at most once in each direction during its *)
(* life, so two copies are of the same resourceVersion when they are equal.*)
(***************************************************************************)
EXTENDS Naturals

CONSTANTS MaxUid,     \* how often the name is created
          MaxEvicts,  \* Pods deleted by somebody else
          MaxFaults   \* crashes and API errors

ASSUME AppAssumption == MaxUid \in Nat /\ MaxEvicts \in Nat /\ MaxFaults \in Nat

VARIABLES app, capp,   \* the SimpleApp at the API server, in the cache
          pod, cpod,   \* the Pod of that name, likewise
          pc, my,      \* the step of Reconcile, and its copy of the object
          uid, evicts, faults

vars == <<app, capp, pod, cpod, pc, my, uid, evicts, faults>>
counters == <<uid, evicts, faults>>

\* uid and owner 0: there is none.
Apps == [uid : 0 .. MaxUid, fin : BOOLEAN, del : BOOLEAN, ready : BOOLEAN]
Pods == [owner : 0 .. MaxUid, del : BOOLEAN]
NoApp == [uid |-> 0, fin |-> FALSE, del |-> FALSE, ready |-> FALSE]
NoPod == [owner |-> 0, del |-> FALSE]

Init ==
    /\ app = NoApp /\ capp = NoApp
    /\ pod = NoPod /\ cpod = NoPod
    /\ pc = "idle" /\ my = NoApp
    /\ uid = 0 /\ evicts = 0 /\ faults = 0

-----------------------------------------------------------------------------
(* API server, caches, users, kubelet and garbage collector.               *)

UserCreate ==
    /\ app = NoApp /\ uid < MaxUid
    /\ uid' = uid + 1
    /\ app' = [NoApp EXCEPT !.uid = uid']
    /\ UNCHANGED <<capp, pod, cpod, pc, my, evicts, faults>>

UserDelete ==
    /\ app # NoApp /\ ~app.del
    /\ app' = IF app.fin THEN [app EXCEPT !.del = TRUE] ELSE NoApp
    /\ UNCHANGED <<capp, pod, cpod, pc, my, counters>>

SyncApp ==
    /\ capp # app /\ capp' = app
    /\ UNCHANGED <<app, pod, cpod, pc, my, counters>>

SyncPod ==
    /\ cpod # pod /\ cpod' = pod
    /\ UNCHANGED <<app, capp, pod, pc, my, counters>>

PodGone ==
    /\ pod.del /\ pod' = NoPod
    /\ UNCHANGED <<app, capp, cpod, pc, my, counters>>

\* Delete, "not found" ignored.
Terminate == pod' = IF pod = NoPod THEN NoPod ELSE [pod EXCEPT !.del = TRUE]

Evict ==
    /\ evicts < MaxEvicts /\ evicts' = evicts + 1
    /\ pod # NoPod /\ Terminate
    /\ UNCHANGED <<app, capp, cpod, pc, my, uid, faults>>

\* The Pod's OwnerReference names a SimpleApp that is gone.
GarbageCollect ==
    /\ pod # NoPod /\ ~pod.del /\ pod.owner # app.uid
    /\ Terminate
    /\ UNCHANGED <<app, capp, cpod, pc, my, counters>>

\* Update of my copy: a conflict if the object is not the one that was read.
Update(new) == app' = IF app = my THEN new ELSE app

-----------------------------------------------------------------------------
(* Reconcile.                                                              *)

Goto(l) == pc' = l /\ UNCHANGED my
Return  == pc' = "idle" /\ my' = NoApp

\* Mutant: the finalizer is added after the Pods.
DispatchPodsFirst(a) ==
    IF a.del THEN IF a.fin THEN "finlist" ELSE "idle"
    ELSE "list"

Dispatch(a) ==
    IF a.del THEN IF a.fin THEN "finlist" ELSE "idle"
    ELSE IF a.fin THEN "list" ELSE "addfin"

\* Get; "not found" ends the reconcile.
Reconcile ==
    /\ pc = "idle" /\ capp # NoApp
    /\ pc' = Dispatch(capp)
    /\ my' = IF pc' = "idle" THEN NoApp ELSE capp
    /\ UNCHANGED <<app, capp, pod, cpod, counters>>

AddFinalizer ==
    /\ pc = "addfin"
    /\ Update([my EXCEPT !.fin = TRUE])
    /\ Return
    /\ UNCHANGED <<capp, pod, cpod, counters>>

\* Mutant: Pods are created only until the first status.
WantsPodOnce == cpod = NoPod /\ ~my.ready

\* currentReplicas < desiredReplicas, of the cached list by label: whoever
\* owns the Pod, and terminating or not.
WantsPod == cpod = NoPod

List ==
    /\ pc = "list"
    /\ Goto(IF WantsPod THEN "create" ELSE "status")
    /\ UNCHANGED <<app, capp, pod, cpod, counters>>

\* Create fails when the name is taken, and with it the reconcile.
CreatePod ==
    /\ pc = "create"
    /\ IF pod = NoPod THEN /\ pod' = [owner |-> my.uid, del |-> FALSE]
                           /\ Goto("status")
                      ELSE Return /\ UNCHANGED pod
    /\ UNCHANGED <<app, capp, cpod, counters>>

UpdateStatus ==
    /\ pc = "status"
    /\ Update([my EXCEPT !.ready = TRUE])
    /\ Return
    /\ UNCHANGED <<capp, pod, cpod, counters>>

FinList ==
    /\ pc = "finlist"
    /\ Goto(IF cpod = NoPod THEN "finremove" ELSE "findelete")
    /\ UNCHANGED <<app, capp, pod, cpod, counters>>

\* Delete by name, "not found" ignored; then wait for the next reconcile.
FinDelete ==
    /\ pc = "findelete"
    /\ Terminate
    /\ Return
    /\ UNCHANGED <<app, capp, cpod, counters>>

\* Mutant: the finalizer is removed from the copy only.
FinRemoveNoUpdate ==
    /\ pc = "finremove"
    /\ Return
    /\ UNCHANGED <<app, capp, pod, cpod, counters>>

\* cleanupExternalResources logs; without its finalizer the object is gone.
FinRemove ==
    /\ pc = "finremove"
    /\ Update(NoApp)
    /\ Return
    /\ UNCHANGED <<capp, pod, cpod, counters>>

\* A crash, or a call that returns an error, at any step.
Fault ==
    /\ pc # "idle"
    /\ faults < MaxFaults /\ faults' = faults + 1
    /\ Return
    /\ UNCHANGED <<app, capp, pod, cpod, uid, evicts>>

Step ==
    \/ Reconcile \/ AddFinalizer \/ List \/ CreatePod \/ UpdateStatus
    \/ FinList \/ FinDelete \/ FinRemove

Next ==
    \/ UserCreate \/ UserDelete \/ SyncApp \/ SyncPod
    \/ PodGone \/ Evict \/ GarbageCollect
    \/ Step \/ Fault

Spec == Init /\ [][Next]_vars

\* Every result requeues or waits for an event, the informers catch up, the
\* kubelet and the garbage collector do their work; users need do nothing.
Fairness ==
    /\ WF_vars(Step) /\ WF_vars(SyncApp) /\ WF_vars(SyncPod)
    /\ WF_vars(PodGone) /\ WF_vars(GarbageCollect)

FairSpec == Spec /\ Fairness

-----------------------------------------------------------------------------
(* Properties.                                                             *)

\* What does not exist has no fields, and only a running reconcile has a copy.
TypeOK ==
    /\ \A p \in {pod, cpod} : p.owner = 0 => p = NoPod
    /\ \A a \in {app, capp, my} : a.uid = 0 => a = NoApp
    /\ (pc = "idle") = (my = NoApp)
    /\ app \in Apps /\ capp \in Apps /\ my \in Apps
    /\ pod \in Pods /\ cpod \in Pods
    /\ pc \in {"idle", "addfin", "list", "create", "status", "finlist",
               "findelete", "finremove"}
    /\ uid \in 0 .. MaxUid /\ evicts \in 0 .. MaxEvicts /\ faults \in 0 .. MaxFaults

\* As long as the object is there, its Pod is under its finalizer, and no Pod
\* is created for one that is gone, however old the copies are.
PodsUnderFinalizer ==
    /\ pod # NoPod /\ pod.owner = app.uid => app.fin
    /\ pc = "create" => app.uid = my.uid /\ app.fin

\* A deleted object goes, and its Pod with it.
DeletionCompletes ==
    \A u \in 1 .. MaxUid : app.uid = u /\ app.del ~> app.uid # u /\ pod.owner # u

\* An object that stays gets its Pod, again after an eviction, and also when a
\* Pod of a predecessor had the name.
PodConverges ==
    []<>(app = NoApp \/ app.del \/ (pod.owner = app.uid /\ ~pod.del))
=============================================================================
