-------------------------- MODULE PodManagerProofs --------------------------
(***************************************************************************)
(* Proofs about PodManager, for every number of replicas, re-creations,    *)
(* evictions and faults.                                                   *)
(***************************************************************************)
EXTENDS MCPodManager, FiniteSetTheorems, TLAPS

(* UIDs are given out in increasing order, and nothing seen is younger     *)
(* than the object.                                                        *)
UidInv ==
    /\ pm.uid \in {0, lastUid}
    /\ cpm.uid <= lastUid /\ obj.uid <= lastUid
    /\ \A i \in Idx : pods[i].owner <= lastUid /\ cpods[i].owner <= lastUid

(* What a matching resourceVersion means.                                  *)
FreshInv ==
    /\ cpmFresh => cpm = pm
    /\ objFresh => obj = pm

(* What the cached copy of the PodManager still tells about the original:  *)
(* one with the finalizer that is not being deleted is still there.        *)
CacheInv ==
    /\ cpm.uid # 0 /\ cpm.fin /\ ~cpm.del => pm.uid = cpm.uid /\ pm.fin
    /\ cpm.uid # 0 => \A i \in Idx : pods[i].owner <= cpm.uid
    /\ cpm.uid # 0 /\ cpm.del /\ pm.uid = cpm.uid => pm.del

(* What the worker's local copy tells, at each of its program points.      *)
LocalInv ==
    /\ pc = "idle" => ~objFresh
    /\ pc # "idle" => obj.uid # 0
    /\ pc # "idle" /\ cpm.uid # 0 => obj.uid <= cpm.uid
    /\ pc = "addFinalizer" => ~obj.del
    /\ pc \in ScalePcs => /\ obj.fin /\ ~obj.del
                          /\ pm.uid = obj.uid /\ pm.fin
    /\ pc \in FinPcs   => /\ obj.fin /\ obj.del
                          /\ cpm.uid = obj.uid => cpm.del
                          /\ pm.uid = obj.uid => pm.del
                          /\ \A i \in Idx : pods[i].owner <= obj.uid

(* A cached Pod is never younger than the Pod that has its name now.       *)
PodCacheInv ==
    \A i \in Idx : pods[i].owner # 0 => cpods[i].owner <= pods[i].owner

VictimInv ==
    pc \in {"delete", "finDelete"} =>
        \A v \in victims : pods[v].owner = 0 \/ pods[v].owner >= obj.uid

(* The create loop stays below spec.replicas of the copy it works from.    *)
LoopInv == pc = "create" => next < obj.replicas

Core ==
    /\ UidInv /\ FreshInv /\ CacheInv /\ LocalInv /\ LoopInv
    /\ PodCacheInv /\ VictimInv /\ FinalizerBeforePods

IInv == TypeOK /\ Core

(* As long as nobody lowers spec.replicas: copies of the object never ask  *)
(* for more Pods than the object does, a younger copy asks for at least as *)
(* many as an older one, and the Pods stay below what the copies ask for.  *)
ScaleInv ==
    trouble # "scale-down" /\ pm.uid # 0 =>
        /\ cpm.uid = pm.uid => cpm.replicas <= pm.replicas
        /\ pc # "idle" /\ obj.uid = pm.uid =>
              /\ cpm.uid = pm.uid /\ obj.replicas <= cpm.replicas
              /\ \A i \in Owned(pm.uid) : i < obj.replicas
        /\ \A i \in Owned(pm.uid) : cpm.uid = pm.uid /\ i < cpm.replicas

(* As long as nobody takes Pods away either: the Pods of the object stay,  *)
(* the cache knows of no other, and the create loop has left no index out. *)
Calm == trouble \notin {"scale-down", "eviction"} /\ pm.uid # 0 /\ ~pm.del

PodsStay ==
    \A i \in Idx : /\ pods[i].owner = pm.uid => ~pods[i].term
                   /\ cpods[i].owner = pm.uid => pods[i].owner = pm.uid

LoopExact ==
    /\ pc # "delete"
    /\ pc = "create" => \A i \in Idx : i < next => pods[i].owner = pm.uid

GapInv == Calm => ~Gap(pm.uid) /\ PodsStay /\ LoopExact

-----------------------------------------------------------------------------
(* Facts about the operators.                                              *)

\* Any selection of Pods has at most MaxReplicas members, so the counts that
\* List takes of podList are counts.
LEMMA SelectionCount ==
    ASSUME NEW S, S \subseteq Idx
    PROVE  IsFiniteSet(S) /\ Cardinality(S) \in 0 .. MaxReplicas
<1>1. IsFiniteSet(Idx) /\ Cardinality(Idx) = MaxReplicas
  BY FS_Interval, ConstantsOK DEF Idx
<1>2. IsFiniteSet(S) /\ Cardinality(S) <= Cardinality(Idx)
  BY <1>1, FS_Subset
<1>3. Cardinality(S) \in Nat
  BY <1>2, FS_CardinalityType
<1> QED
  BY <1>1, <1>2, <1>3, ConstantsOK

\* SetCondition makes a list of conditions from a list of conditions.
LEMMA SetConditionType ==
    ASSUME NEW conds \in Seq(Condition), NEW c \in Condition
    PROVE  SetCondition(conds, c) \in Seq(Condition)
<1> DEFINE Same == {i \in DOMAIN conds : conds[i].type = c.type}
<1>1. CASE Same = {}
  BY <1>1 DEF SetCondition
<1>2. CASE Same # {}
  <2>1. SetCondition(conds, c) \in [1 .. Len(conds) -> Condition]
    BY <1>2 DEF SetCondition
  <2> QED
    BY <2>1
<1> QED
  BY <1>1, <1>2

\* TypeOK is preserved, given that the create loop stays in bounds.
LEMMA TypeStep ==
    ASSUME TypeOK, LoopInv, [Next]_vars
    PROVE  TypeOK'
<1> USE ConstantsOK
<1>0. /\ NoPM \in PM /\ NoPod \in Pod /\ NoCounts \in Counts
      /\ NoStatus \in Status
  BY DEF NoPM, PM, NoPod, Pod, NoCounts, Counts, NoStatus, Status, Uid
<1> DEFINE LocalsOK == /\ pc' \in PCs /\ obj' \in PM /\ objFresh' \in BOOLEAN
                       /\ next' \in 0 .. MaxReplicas /\ victims' \in SUBSET Idx
                       /\ seen' \in Counts
                       /\ pc' = "create" => next' \in Idx
<1>r. ASSUME Return PROVE LocalsOK
  <2>1. "idle" \in PCs /\ 0 \in 0 .. MaxReplicas /\ {} \in SUBSET Idx
    BY DEF PCs
  <2>2. pc' \in PCs /\ next' \in 0 .. MaxReplicas /\ victims' \in SUBSET Idx
    BY <1>r, <2>1 DEF Return
  <2>3. obj' \in PM /\ seen' \in Counts /\ objFresh' \in BOOLEAN
    BY <1>0, <1>r DEF Return
  <2> QED
    BY <1>r, <2>2, <2>3 DEF Return
<1>q. Requeue => LocalsOK /\ queued' \in BOOLEAN
  BY <1>r DEF Requeue
<1>w. ASSUME NEW new \in PM, PMWritten(new)
      PROVE  pm' \in PM /\ cpmFresh' \in BOOLEAN
  BY <1>w DEF PMWritten
<1>u. ASSUME NEW new \in PM, Update(new)
      PROVE  pm' \in PM /\ cpmFresh' \in BOOLEAN
  BY <1>u, <1>w DEF Update, TypeOK
<1>t. ASSUME NEW i \in Idx, Terminate(i)
      PROVE  pods' \in [Idx -> Pod]
  BY <1>t DEF Terminate, TypeOK, Pod
<1>1. CASE Reconcile
  BY <1>1 DEF TypeOK, Reconcile, Dispatch, PCs, ScalePcs, FinPcs,
              apiVars, cacheVars, budgetVars
<1>2. CASE AddFinalizer
  <2>1. [obj EXCEPT !.fin = TRUE] \in PM
    BY DEF TypeOK, PM
  <2>2. pm' \in PM /\ cpmFresh' \in BOOLEAN
    BY <1>2, <1>u, <2>1 DEF AddFinalizer
  <2> QED
    BY <1>2, <1>q, <2>2 DEF TypeOK, AddFinalizer, budgetVars
<1>3. CASE List
  <2>1. Listed \subseteq Idx /\ {i \in Listed : cpods[i].ready} \subseteq Idx
    BY DEF Listed
  <2>2. /\ Cardinality(Listed) \in 0 .. MaxReplicas
        /\ Cardinality({i \in Listed : cpods[i].ready}) \in 0 .. MaxReplicas
    BY <2>1, SelectionCount
  <2>3. seen' \in Counts /\ next' \in 0 .. MaxReplicas
    BY <1>3, <2>2 DEF List, Counts, FirstIndex
  <2>4. victims' \in SUBSET Idx /\ pc' \in PCs
    BY <1>3, <2>1 DEF List, PCs, ScalePcs
  <2>5. pc' = "create" => next' \in Idx
    <3>1. obj.replicas \in 0 .. MaxReplicas
      BY DEF TypeOK, PM
    <3> QED
      BY <1>3, <2>2, <3>1 DEF List, FirstIndex, Idx
  <2> QED
    BY <1>3, <2>3, <2>4, <2>5 DEF List, TypeOK, apiVars, cacheVars, budgetVars
<1>4. CASE CreatePod
  <2>1. next \in Idx /\ next + 1 \in 0 .. MaxReplicas
    BY <1>4 DEF CreatePod, LoopInv, TypeOK, PM, Idx
  <2>2. [owner |-> obj.uid, ready |-> FALSE, term |-> FALSE] \in Pod
    BY DEF TypeOK, PM, Pod
  <2>3. pc' = "create" => next' \in Idx
    BY <1>4, <1>q, <2>1 DEF CreatePod, LastCreated, LoopInv, TypeOK, PM, Idx
  <2> QED
    BY <1>4, <1>q, <2>1, <2>2, <2>3 DEF CreatePod, TypeOK, PCs, ScalePcs, cacheVars,
              budgetVars
<1>5. CASE DeletePod
  <2>1. PICK i \in victims :
          \/ /\ Terminate(i)
             /\ victims' = victims \ {i}
             /\ pc' \in {"status", "delete"}
             /\ UNCHANGED <<queued, obj, objFresh, next, seen>>
          \/ Requeue /\ UNCHANGED pods
    BY <1>5 DEF DeletePod
  <2> QED
    BY <1>5, <1>q, <1>t, <2>1 DEF DeletePod, TypeOK, PCs, ScalePcs, cacheVars, budgetVars
<1>6. CASE UpdateStatus
  <2>1. ReadyCondition \in Condition
    BY DEF ReadyCondition, Condition
  <2>2. SetCondition(obj.status.conds, ReadyCondition) \in Seq(Condition)
    BY <2>1, SetConditionType DEF TypeOK, PM, Status
  <2>3. [ready |-> seen.ready, current |-> seen.current,
         conds |-> SetCondition(obj.status.conds, ReadyCondition)] \in Status
    BY <2>2 DEF TypeOK, Counts, Status
  <2>4. [obj EXCEPT !.status =
           [ready |-> seen.ready, current |-> seen.current,
            conds |-> SetCondition(obj.status.conds, ReadyCondition)]] \in PM
    BY <2>3 DEF TypeOK, PM
  <2>5. pm' \in PM /\ cpmFresh' \in BOOLEAN
    BY <1>6, <1>u, <2>4 DEF UpdateStatus, TypeOK
  <2> QED
    BY <1>6, <1>q, <2>5 DEF UpdateStatus, TypeOK, budgetVars
<1>7. CASE FinList
  BY <1>7 DEF FinList, Listed, TypeOK, PCs, FinPcs, apiVars, cacheVars, budgetVars
<1>8. CASE FinDelete
  <2>1. PICK i \in victims : /\ Terminate(i) \/ UNCHANGED pods
                             /\ victims' = victims \ {i}
                             /\ pc' \in {"finRemove", "finDelete"}
    BY <1>8 DEF FinDelete
  <2> QED
    BY <1>8, <1>t, <2>1 DEF FinDelete, TypeOK, PCs, FinPcs, cacheVars, budgetVars
<1>9. CASE FinRemove
  <2>1. pm' \in PM /\ cpmFresh' \in BOOLEAN
    BY <1>0, <1>9, <1>u DEF FinRemove
  <2>2. LocalsOK /\ queued' \in BOOLEAN
    BY <1>9, <1>q, <1>r DEF FinRemove, TypeOK
  <2> QED
    BY <1>9, <2>1, <2>2 DEF FinRemove, TypeOK, budgetVars
<1>10. CASE TransientError
  BY <1>10, <1>q DEF TransientError, TypeOK, apiVars, cacheVars
<1>11. CASE CrashRestart
  BY <1>11, <1>q DEF CrashRestart, TypeOK, apiVars
<1>12. CASE SyncPM
  BY <1>12 DEF SyncPM, TypeOK, apiVars, localVars, budgetVars
<1>13. CASE \E i \in Idx : SyncPod(i)
  BY <1>13 DEF SyncPod, TypeOK, apiVars, localVars, budgetVars
<1>14. CASE \E r \in 1 .. MaxReplicas : UserCreate(r)
  BY <1>0, <1>14 DEF UserCreate, UserWrites, PMWritten, TypeOK, PM, Uid, budgetVars
<1>15. CASE \E r \in 1 .. MaxReplicas : UserScale(r)
  BY <1>15 DEF UserScale, UserWrites, PMWritten, TypeOK, PM, budgetVars
<1>16. CASE UserDelete
  <2>1. [pm EXCEPT !.del = TRUE] \in PM
    BY DEF TypeOK, PM
  <2> QED
    BY <1>0, <1>16, <2>1 DEF UserDelete, UserWrites, PMWritten, TypeOK, budgetVars
<1>17. CASE \E t \in SeedTypes : SeedStatus(t)
  <2>1. PICK t \in SeedTypes : SeedStatus(t)
    BY <1>17
  <2> DEFINE first == <<[type |-> t, status |-> "False"]>>
  <2>2. first \in Seq(Condition)
    BY DEF Condition
  <2>3. [pm EXCEPT !.status.conds = first] \in PM
    <3> HIDE DEF first
    <3> QED  BY <2>2 DEF TypeOK, PM, Status
  <2> QED
    BY <2>1, <2>3 DEF SeedStatus, UserWrites, PMWritten, TypeOK, budgetVars
<1>18. CASE \E i \in Idx : PodReady(i) \/ PodGone(i) \/ Evict(i) \/ GarbageCollect(i)
  <2>1. PICK i \in Idx : PodReady(i) \/ PodGone(i) \/ Evict(i) \/ GarbageCollect(i)
    BY <1>18
  <2>2. /\ [pods[i] EXCEPT !.ready = TRUE] \in Pod
        /\ [pods[i] EXCEPT !.term = TRUE] \in Pod
    BY DEF TypeOK, Pod
  <2>3. \E new \in Pod : PodStep(i, new) /\ evictions' \in 0 .. MaxEvictions
    BY <1>0, <2>1, <2>2 DEF PodReady, PodGone, Evict, GarbageCollect, TypeOK
  <2> QED
    BY <2>3 DEF PodStep, TypeOK, cacheVars, localVars
<1>19. CASE UNCHANGED vars
  BY <1>19 DEF vars, TypeOK
<1> QED
  BY <1>1, <1>2, <1>3, <1>4, <1>5, <1>6, <1>7, <1>8, <1>9, <1>10, <1>11, <1>12,
     <1>13, <1>14, <1>15, <1>16, <1>17, <1>18, <1>19 DEF Next, Controller, Users

\* Terminating a Pod leaves its owner alone.
LEMMA TerminateOwners ==
    ASSUME TypeOK, NEW v \in Idx, Terminate(v)
    PROVE  \A i \in Idx : pods'[i].owner = pods[i].owner
BY DEF TypeOK, Terminate, Pod

\* A step of the kubelet, the evicting client or the garbage collector
\* keeps the owner of a Pod or makes the Pod go away.
LEMMA PodStepOwners ==
    ASSUME TypeOK, NEW v \in Idx,
           \/ PodStep(v, [pods[v] EXCEPT !.ready = TRUE])
           \/ PodStep(v, [pods[v] EXCEPT !.term = TRUE])
           \/ PodStep(v, NoPod)
    PROVE  \A i \in Idx : pods'[i].owner \in {0, pods[i].owner}
BY DEF TypeOK, PodStep, Pod, NoPod

\* A round of the create loop makes one Pod of the reconciled object.
LEMMA CreateRound ==
    ASSUME TypeOK, LoopInv, CreatePod, pods[next].owner = 0
    PROVE  /\ \A i \in Idx : pods'[i].owner \in {obj.uid, pods[i].owner}
           /\ pc' = "create" => next' < obj.replicas
<1>1. next \in Nat /\ obj.replicas \in Nat /\ next < obj.replicas
  BY ConstantsOK DEF TypeOK, PM, LoopInv, CreatePod
<1>2. /\ pods' = [pods EXCEPT ![next] =
                    [owner |-> obj.uid, ready |-> FALSE, term |-> FALSE]]
      /\ next' = next + 1
      /\ pc' = "create" => next + 1 # obj.replicas
  BY DEF CreatePod, LastCreated
<1>3. \A i \in Idx : pods'[i].owner \in {obj.uid, pods[i].owner}
  BY <1>2 DEF TypeOK
<1> QED
  BY <1>1, <1>2, <1>3

\* Pods going away disturb nothing.
LEMMA VanishStep ==
    ASSUME IInv,
           UNCHANGED <<pm, lastUid, cpm, cpmFresh, cpods, obj, objFresh, next>>,
           \A i \in Idx : pods'[i].owner \in {0, pods[i].owner},
           victims' \subseteq victims,
           \/ pc' = pc
           \/ pc = "delete" /\ pc' = "status"
           \/ pc = "finDelete" /\ pc' = "finRemove"
    PROVE  Core'
<1>1. /\ lastUid \in Nat /\ cpm.uid \in Nat /\ obj.uid \in Nat /\ pm.uid \in Nat
      /\ victims \subseteq Idx
      /\ \A i \in Idx : pods[i].owner \in Nat /\ cpods[i].owner \in Nat
  BY ConstantsOK DEF IInv, TypeOK, PM, Pod, Uid
<1>2. UidInv' /\ FreshInv' /\ LoopInv'
  BY <1>1 DEF IInv, Core, UidInv, FreshInv, LoopInv
<1>3. CacheInv'
  BY <1>1 DEF IInv, Core, CacheInv
<1>4. LocalInv'
  BY <1>1 DEF IInv, Core, LocalInv, ScalePcs, FinPcs
<1>5. PodCacheInv'
  BY <1>1 DEF IInv, Core, PodCacheInv
<1>6. VictimInv'
  BY <1>1 DEF IInv, Core, VictimInv
<1>7. FinalizerBeforePods'
  BY <1>1 DEF IInv, Core, FinalizerBeforePods, Owned
<1> QED
  BY <1>2, <1>3, <1>4, <1>5, <1>6, <1>7 DEF Core

\* A Pod event brings one cached Pod up to date.
LEMMA SyncPodStep ==
    ASSUME IInv, NEW i \in Idx, SyncPod(i)
    PROVE  Core'
<1>1. /\ UNCHANGED <<pm, pods, lastUid, cpm, cpmFresh, pc>>
      /\ UNCHANGED <<obj, objFresh, next, victims>>
  BY DEF SyncPod, apiVars, localVars
<1>2. cpods \in [Idx -> Pod] /\ pods \in [Idx -> Pod] /\ lastUid \in Uid
  BY DEF IInv, TypeOK
<1>3. \A j \in Idx : cpods'[j] \in {cpods[j], pods[j]}
  BY <1>2 DEF SyncPod
<1>4. \A j \in Idx : pods[j].owner <= lastUid /\ cpods[j].owner <= lastUid
  BY DEF IInv, Core, UidInv
<1>5. UidInv'
  BY <1>1, <1>3, <1>4 DEF IInv, Core, UidInv
<1>6. PodCacheInv'
  <2>1. \A j \in Idx : pods[j].owner \in Nat
    BY <1>2, ConstantsOK DEF Pod, Uid
  <2>2. \A j \in Idx : pods[j].owner # 0 => cpods[j].owner <= pods[j].owner
    BY DEF IInv, Core, PodCacheInv
  <2> QED
    BY <1>1, <1>3, <2>1, <2>2 DEF PodCacheInv
<1>7. FreshInv' /\ LoopInv'
  BY <1>1 DEF IInv, Core, FreshInv, LoopInv
<1>8. CacheInv'
  BY <1>1 DEF IInv, Core, CacheInv
<1>9. LocalInv'
  BY <1>1 DEF IInv, Core, LocalInv
<1>10. VictimInv' /\ FinalizerBeforePods'
  BY <1>1 DEF IInv, Core, VictimInv, FinalizerBeforePods, Owned
<1> QED
  BY <1>5, <1>6, <1>7, <1>8, <1>9, <1>10 DEF Core

\* A new object has a UID that nothing has seen yet.
LEMMA UserCreateStep ==
    ASSUME IInv, NEW r \in 1 .. MaxReplicas, UserCreate(r)
    PROVE  Core'
<1>1. /\ pm.uid = 0 /\ lastUid' = lastUid + 1 /\ pm'.uid = lastUid + 1
      /\ ~pm'.del /\ ~pm'.fin
      /\ UNCHANGED <<pods, cpm, cpods, pc, obj, next, victims>>
  BY DEF UserCreate, UserWrites, PMWritten
<1>2. /\ lastUid \in Nat /\ cpm.uid \in Nat /\ obj.uid \in Nat
      /\ \A j \in Idx : pods[j].owner \in Nat /\ cpods[j].owner \in Nat
  BY ConstantsOK DEF IInv, TypeOK, Uid, PM, Pod
<1>3. ~cpmFresh' /\ ~objFresh'
  <2>1. pm # [uid |-> lastUid + 1, fin |-> FALSE, del |-> FALSE,
              replicas |-> r, status |-> NoStatus]
    BY <1>1, <1>2
  <2> QED
    BY <2>1 DEF UserCreate, UserWrites, PMWritten
<1>4. UidInv'
  BY <1>1, <1>2 DEF IInv, Core, UidInv
<1>5. FreshInv' /\ LoopInv'
  BY <1>1, <1>3 DEF IInv, Core, FreshInv, LoopInv
<1>6. CacheInv'
  BY <1>1, <1>2 DEF IInv, Core, CacheInv, UidInv
<1>7. LocalInv'
  BY <1>1, <1>2, <1>3 DEF IInv, Core, LocalInv, UidInv, ScalePcs, FinPcs
<1>8. PodCacheInv' /\ VictimInv'
  BY <1>1 DEF IInv, Core, PodCacheInv, VictimInv
<1>9. FinalizerBeforePods'
  BY <1>1, <1>2 DEF IInv, Core, UidInv, FinalizerBeforePods, Owned
<1> QED
  BY <1>4, <1>5, <1>6, <1>7, <1>8, <1>9 DEF Core

\* The other conjuncts of IInv are preserved.
LEMMA InvStep ==
    ASSUME IInv, TypeOK', [Next]_vars
    PROVE  IInv'
<1> SUFFICES Core'
  BY DEF IInv
<1> USE ConstantsOK DEF IInv, Core, TypeOK, PM, Pod, Idx, Uid, NoPM, NoPod, ScalePcs, FinPcs,
          UidInv, FreshInv, CacheInv, LocalInv, PodCacheInv, VictimInv,
          LoopInv, FinalizerBeforePods, Owned
<1>1. CASE Reconcile
  BY <1>1 DEF Reconcile, Dispatch, apiVars, cacheVars, budgetVars
<1>2. CASE AddFinalizer
  BY <1>2 DEF AddFinalizer, Update, PMWritten, Requeue, Return, budgetVars
<1>3. CASE List
  BY <1>3 DEF List, Listed, FirstIndex, apiVars, cacheVars, budgetVars
<1>4. CASE CreatePod
  <2>1. CASE pods[next].owner # 0
    BY <1>4, <2>1 DEF CreatePod, Requeue, Return, cacheVars
  <2>2. CASE pods[next].owner = 0
    <3>1. /\ pc = "create" /\ pc' \in {"create", "status"}
          /\ UNCHANGED <<pm, lastUid, cpm, cpmFresh, cpods, obj, objFresh>>
      BY <1>4, <2>2 DEF CreatePod, cacheVars
    <3>2. \A i \in Idx : pods'[i].owner \in {obj.uid, pods[i].owner}
      BY <1>4, <2>2, CreateRound
    <3>3. pc' = "create" => next' < obj.replicas
      BY <1>4, <2>2, CreateRound
    <3>4. PodCacheInv' /\ FinalizerBeforePods' /\ UidInv'
      BY <3>1, <3>2
    <3> QED
      BY <3>1, <3>2, <3>3, <3>4
  <2> QED
    BY <2>1, <2>2
<1>5. CASE DeletePod
  <2>1. CASE Requeue /\ UNCHANGED pods
    BY <1>5, <2>1 DEF DeletePod, Requeue, Return, cacheVars
  <2>2. CASE ~(Requeue /\ UNCHANGED pods)
    <3>1. \A i \in Idx : pods'[i].owner \in {0, pods[i].owner}
      BY <1>5, <2>2, TerminateOwners DEF DeletePod
    <3>2. /\ pc = "delete" /\ pc' \in {"delete", "status"}
          /\ victims' \subseteq victims
          /\ UNCHANGED <<pm, lastUid, cpm, cpmFresh, cpods, obj, objFresh, next>>
      BY <1>5, <2>2 DEF DeletePod, cacheVars
    <3> QED
      BY <3>1, <3>2, VanishStep
  <2> QED
    BY <2>1, <2>2
<1>6. CASE UpdateStatus
  BY <1>6 DEF UpdateStatus, Update, PMWritten, Requeue, Return, budgetVars
<1>7. CASE FinList
  BY <1>7 DEF FinList, Listed, apiVars, cacheVars, budgetVars
<1>8. CASE FinDelete
  <2>1. \A i \in Idx : pods'[i].owner \in {0, pods[i].owner}
    BY <1>8, TerminateOwners DEF FinDelete
  <2>2. /\ pc = "finDelete" /\ pc' \in {"finDelete", "finRemove"}
        /\ victims' \subseteq victims
        /\ UNCHANGED <<pm, lastUid, cpm, cpmFresh, cpods, obj, objFresh, next>>
    BY <1>8 DEF FinDelete, cacheVars
  <2> QED
    BY <2>1, <2>2, VanishStep
<1>9. CASE FinRemove
  <2>1. CASE objFresh
    <3>1. /\ obj = pm /\ pm.uid = lastUid /\ pm.del /\ pc = "finRemove"
          /\ pm' = NoPM /\ Return
          /\ cpmFresh' => pm = NoPM
          /\ UNCHANGED <<pods, lastUid, cpm, cpods>>
      BY <1>9, <2>1 DEF FinRemove, Update, PMWritten
    <3>2. cpm.uid # 0 => cpm.uid = pm.uid /\ cpm.del
      BY <1>9, <3>1 DEF FinRemove
    <3> QED
      BY <3>1, <3>2 DEF Return
  <2>2. CASE ~objFresh
    BY <1>9, <2>2 DEF FinRemove, Update, Requeue, Return
  <2> QED
    BY <2>1, <2>2
<1>10. CASE TransientError
  BY <1>10 DEF TransientError, Requeue, Return, apiVars, cacheVars
<1>11. CASE CrashRestart
  BY <1>11 DEF CrashRestart, Requeue, Return, apiVars
<1>12. CASE SyncPM
  BY <1>12 DEF SyncPM, apiVars, localVars, budgetVars
<1>13. CASE \E i \in Idx : SyncPod(i)
  BY ONLY <1>13, SyncPodStep, IInv
<1>14. CASE \E r \in 1 .. MaxReplicas : UserCreate(r)
  BY ONLY <1>14, UserCreateStep, IInv
<1>15. CASE \E r \in 1 .. MaxReplicas : UserScale(r)
  BY <1>15 DEF UserScale, UserWrites, PMWritten, budgetVars
<1>16. CASE UserDelete
  BY <1>16 DEF UserDelete, UserWrites, PMWritten, budgetVars
<1>17. CASE \E t \in SeedTypes : SeedStatus(t)
  <2>1. /\ pm'.uid = pm.uid /\ pm'.fin = pm.fin /\ pm'.del = pm.del
        /\ UNCHANGED <<lastUid, pods, cpm, cpods, pc, obj, next, victims>>
    BY <1>17 DEF SeedStatus, UserWrites, PMWritten, budgetVars
  <2>2. FreshInv'
    BY <1>17 DEF SeedStatus, UserWrites, PMWritten, budgetVars
  <2>3. pc = "idle" => ~objFresh'
    BY <1>17 DEF SeedStatus, UserWrites
  <2> QED
    BY <2>1, <2>2, <2>3
<1>18. CASE \E i \in Idx : PodReady(i) \/ PodGone(i) \/ Evict(i) \/ GarbageCollect(i)
  <2>1. \A i \in Idx : pods'[i].owner \in {0, pods[i].owner}
    BY <1>18, PodStepOwners DEF PodReady, PodGone, Evict, GarbageCollect
  <2>2. UNCHANGED <<pm, lastUid, cpm, cpmFresh, cpods, pc, obj, objFresh, next, victims>>
    BY <1>18 DEF PodReady, PodGone, Evict, GarbageCollect, PodStep, cacheVars, localVars
  <2> QED
    BY <2>1, <2>2, VanishStep
<1>19. CASE UNCHANGED vars
  BY <1>19 DEF vars
<1> QED
  BY <1>1, <1>2, <1>3, <1>4, <1>5, <1>6, <1>7, <1>8, <1>9, <1>10, <1>11, <1>12, <1>13, <1>14, <1>15, <1>16, <1>17, <1>18, <1>19 DEF Next, Controller, Users

-----------------------------------------------------------------------------
(* The theorems.                                                           *)

\* The empty cluster satisfies IInv.
LEMMA InvInit == Init => IInv
<1> SUFFICES ASSUME Init PROVE IInv
  OBVIOUS
<1> USE ConstantsOK DEF Init
<1>1. NoPM \in PM /\ NoPod \in Pod /\ NoCounts \in Counts /\ "idle" \in PCs
  BY DEF NoPM, PM, NoPod, Pod, NoCounts, Counts, NoStatus, Status, Uid, PCs
<1>2. TypeOK
  <2>1. /\ pods \in [Idx -> Pod] /\ cpods \in [Idx -> Pod]
        /\ cpmFresh \in BOOLEAN /\ objFresh \in BOOLEAN /\ queued \in BOOLEAN
    BY <1>1
  <2>2. pm \in PM /\ cpm \in PM /\ obj \in PM /\ pc \in PCs /\ seen \in Counts
    BY <1>1
  <2>3. lastUid \in Uid /\ next \in 0 .. MaxReplicas /\ victims \in SUBSET Idx
    BY DEF Uid
  <2>4. evictions \in 0 .. MaxEvictions /\ faults \in 0 .. MaxFaults
    OBVIOUS
  <2> QED
    BY <2>1, <2>2, <2>3, <2>4 DEF TypeOK
<1>3. UidInv /\ FreshInv /\ CacheInv /\ LoopInv
  BY DEF UidInv, FreshInv, CacheInv, LoopInv, NoPM, NoPod
<1>4. LocalInv /\ PodCacheInv /\ VictimInv /\ FinalizerBeforePods
  BY DEF LocalInv, PodCacheInv, VictimInv, FinalizerBeforePods, NoPM, NoPod,
         ScalePcs, FinPcs
<1> QED
  BY <1>2, <1>3, <1>4 DEF IInv, Core

\* IInv is inductive.
LEMMA Invariance == Spec => []IInv
<1>1. IInv /\ [Next]_vars => IInv'
  <2> SUFFICES ASSUME IInv, [Next]_vars PROVE IInv'
    OBVIOUS
  <2>1. TypeOK'
    BY TypeStep DEF IInv, Core
  <2> QED
    BY <2>1, InvStep
<1> QED
  BY InvInit, <1>1, PTL DEF Spec

\* The variables keep their types, for any number of replicas, re-creations
\* and faults: in particular the create loop never leaves the index range.
THEOREM TypeCorrect == Spec => []TypeOK
<1>1. IInv => TypeOK
  BY DEF IInv
<1> QED
  BY Invariance, <1>1, PTL

\* Reconcile creates Pods only under the finalizer, whatever the caches and
\* the users do.
THEOREM FinalizerFirst == Spec => []FinalizerBeforePods
<1>1. IInv => FinalizerBeforePods
  BY DEF IInv, Core
<1> QED
  BY Invariance, <1>1, PTL

\* The create loop never runs for a PodManager that is gone.
THEOREM NoOrphans == Spec => []NoOrphanCreate
<1>1. IInv => NoOrphanCreate
  BY DEF IInv, Core, LocalInv, ScalePcs, NoOrphanCreate
<1> QED
  BY Invariance, <1>1, PTL

\* Neither delete loop hits a Pod of another PodManager object.
THEOREM DeletesOwnPods == Spec => []OnlyOwnPodsDeleted
<1>1. ASSUME IInv PROVE OnlyOwnPodsDeleted
  <2> SUFFICES ASSUME pc \in {"delete", "finDelete"}, NEW v \in victims
               PROVE  pods[v].owner \in {0, obj.uid}
    BY DEF OnlyOwnPodsDeleted
  <2>1. v \in Idx /\ pods[v].owner \in Nat /\ obj.uid \in Nat
    BY <1>1 DEF IInv, TypeOK, PM, Pod, Uid
  <2>2. pods[v].owner = 0 \/ pods[v].owner >= obj.uid
    BY <1>1 DEF IInv, Core, VictimInv
  <2>3. pods[v].owner <= obj.uid
    BY <1>1, <2>1 DEF IInv, Core, LocalInv, UidInv, ScalePcs, FinPcs
  <2> QED
    BY <2>1, <2>2, <2>3
<1> QED
  BY Invariance, <1>1, PTL

\* What the writes of the reconciler leave of the object.
LEMMA ControllerWrites ==
    ASSUME IInv, Controller, pm'.uid # 0
    PROVE  /\ pm'.uid = pm.uid
           /\ pm'.replicas = pm.replicas
           /\ pm'.del = pm.del
<1>1. CASE AddFinalizer
  BY <1>1 DEF AddFinalizer, Update, PMWritten, IInv, Core, FreshInv, TypeOK, PM
<1>2. CASE UpdateStatus
  BY <1>2 DEF UpdateStatus, Update, PMWritten, IInv, Core, FreshInv, TypeOK, PM
<1>3. CASE FinRemove
  BY <1>3 DEF FinRemove, Update, PMWritten, NoPM
<1>4. CASE UNCHANGED pm
  BY <1>4
<1> QED
  BY <1>1, <1>2, <1>3, <1>4 DEF Controller, Reconcile, List, CreatePod,
     DeletePod, FinList, FinDelete, apiVars

\* Optimistic concurrency protects the users' writes from the reconciler's.
THEOREM UserWritesKept == Spec => NoLostUserWrite
<1> DEFINE A == Controller /\ pm'.uid # 0 =>
                  /\ pm'.uid = pm.uid
                  /\ pm'.replicas = pm.replicas
                  /\ pm'.del = pm.del
<1>1. IInv => A
  BY ControllerWrites
<1>2. IInv /\ [Next]_vars => [A]_vars
  BY <1>1
<1> QED
  BY Invariance, <1>2, PTL DEF NoLostUserWrite, Spec
-----------------------------------------------------------------------------
(* The create loop and its stale podList: NoSurplus.                       *)

\* Arithmetic needs the types.
LEMMA Numbers ==
    ASSUME IInv
    PROVE  /\ pm.uid \in Nat /\ cpm.uid \in Nat /\ obj.uid \in Nat /\ lastUid \in Nat
           /\ pm.replicas \in Nat /\ cpm.replicas \in Nat /\ obj.replicas \in Nat
           /\ next \in Nat /\ Idx \subseteq Nat
           /\ \A i \in Idx : pods[i].owner \in Nat /\ cpods[i].owner \in Nat
BY ConstantsOK DEF IInv, TypeOK, PM, Pod, Uid, Idx

\* What does not add Pods, lower spec.replicas or take a new copy.
LEMMA ScaleFrame ==
    ASSUME IInv, IInv', ScaleInv, trouble' = trouble, cpm' = cpm,
           pm'.uid = 0 \/ pm'.uid = pm.uid,
           trouble # "scale-down" /\ pm'.uid # 0 => pm.replicas <= pm'.replicas,
           \A i \in Idx : pods'[i].owner \in {0, pods[i].owner},
           pc' = "idle" \/ (pc # "idle" /\ obj' = obj)
    PROVE  ScaleInv'
<1>1. /\ pm.uid \in Nat /\ pm.replicas \in Nat /\ cpm.replicas \in Nat /\ pm'.replicas \in Nat
  BY Numbers, ConstantsOK DEF IInv, TypeOK, PM
<1> QED
  BY <1>1 DEF ScaleInv, Owned

\* The Pods stay below what any copy of the object asks for.
LEMMA ScaleStep ==
    ASSUME IInv, IInv', ScaleInv, Next, OneTrouble
    PROVE  ScaleInv'
<1>t. /\ trouble' = trouble
      /\ trouble # "scale-down" /\ pm'.uid = pm.uid => ~(pm'.replicas < pm.replicas)
  BY DEF OneTrouble, Only
<1>n. pm.replicas \in Nat /\ pm'.replicas \in Nat
  BY Numbers, ConstantsOK DEF IInv, TypeOK, PM
<1>r. trouble # "scale-down" /\ pm'.uid = pm.uid => pm.replicas <= pm'.replicas
  BY <1>t, <1>n
<1>u. Controller => pm'.uid = 0 \/ pm'.uid = pm.uid
  BY ControllerWrites
<1>c. Controller /\ pm'.uid # 0 => pm.replicas <= pm'.replicas
  BY ControllerWrites, <1>n
<1>1. CASE Reconcile
  <2>1. UNCHANGED <<pm, pods, cpm>> /\ (pc' = "idle" \/ obj' = cpm)
    BY <1>1 DEF Reconcile, apiVars, cacheVars
  <2> QED
    BY <2>1, <1>t, Numbers DEF ScaleInv, Owned
<1>2. CASE CreatePod
  <2>1. CASE pods[next].owner # 0
    BY <1>2, <1>c, <1>u, <1>t, <2>1, ScaleFrame DEF CreatePod, Requeue, Return, cacheVars, Controller
  <2>2. CASE pods[next].owner = 0
    <3>1. /\ pc = "create" /\ UNCHANGED <<pm, cpm, obj>> /\ pc' # "idle"
          /\ pm.uid = obj.uid
      BY <1>2, <2>2 DEF CreatePod, cacheVars, IInv, Core, LocalInv, ScalePcs
    <3>2. next \in Idx /\ next < obj.replicas
      BY <3>1 DEF IInv, Core, LoopInv, TypeOK
    <3>3. \A i \in Idx : i # next => pods'[i].owner = pods[i].owner
      BY <1>2, <2>2, <3>2 DEF CreatePod, IInv, TypeOK
    <3> QED
      BY <3>1, <3>2, <3>3, <1>t, Numbers DEF ScaleInv, Owned
  <2> QED
    BY <2>1, <2>2
<1>3. CASE AddFinalizer \/ UpdateStatus \/ FinRemove
  <2>1. /\ Controller /\ UNCHANGED <<pods, cpm>> /\ pc' = "idle"
    BY <1>3 DEF AddFinalizer, UpdateStatus, FinRemove, Requeue, Return, Controller
  <2> QED
    BY <2>1, <1>c, <1>u, <1>t, ScaleFrame
<1>4. CASE List \/ FinList
  <2>1. UNCHANGED <<pm, pods, cpm, obj>> /\ pc # "idle"
    BY <1>4 DEF List, FinList, apiVars, cacheVars
  <2> QED
    BY <2>1, <1>n, <1>t, ScaleFrame
<1>5. CASE DeletePod \/ FinDelete
  <2>1. /\ UNCHANGED <<pm, cpm>> /\ pc # "idle" /\ (pc' = "idle" \/ obj' = obj)
    BY <1>5 DEF DeletePod, FinDelete, Requeue, Return, cacheVars
  <2>2. \A i \in Idx : pods'[i].owner \in {0, pods[i].owner}
    <3>1. victims \subseteq Idx
      BY DEF IInv, TypeOK
    <3>2. UNCHANGED pods \/ \E v \in Idx : Terminate(v)
      BY <1>5, <3>1 DEF DeletePod, FinDelete
    <3> QED
      BY <3>2, TerminateOwners DEF IInv
  <2> QED
    BY <2>1, <2>2, <1>n, <1>t, ScaleFrame
<1>6. CASE TransientError
  BY <1>6, <1>n, <1>t, ScaleFrame DEF TransientError, Requeue, Return, apiVars, cacheVars
<1>7. CASE CrashRestart
  <2>1. UNCHANGED <<pm, pods>> /\ cpm' = pm /\ pc' = "idle"
    BY <1>7 DEF CrashRestart, Requeue, Return, apiVars
  <2> QED
    BY <2>1, <1>t, Numbers DEF ScaleInv, Owned
<1>8. CASE SyncPM
  <2>1. UNCHANGED <<pm, pods, obj, pc>> /\ cpm' = pm
    BY <1>8 DEF SyncPM, apiVars, localVars
  <2> QED
    BY <2>1, <1>t, Numbers DEF ScaleInv, Owned
<1>9. CASE \E i \in Idx : SyncPod(i)
  <2>1. UNCHANGED <<pm, pods, obj, pc, cpm>>
    BY <1>9 DEF SyncPod, apiVars, localVars
  <2> QED
    BY <2>1, <1>t DEF ScaleInv, Owned
<1>10. CASE \E r \in 1 .. MaxReplicas : UserCreate(r)
  <2>1. /\ UNCHANGED <<pods, obj, pc, cpm>> /\ pm'.uid = lastUid + 1
    BY <1>10 DEF UserCreate, UserWrites, PMWritten
  <2> QED
    BY <2>1, <1>t, Numbers DEF ScaleInv, Owned, IInv, Core, UidInv
<1>11. CASE (\E r \in 1 .. MaxReplicas : UserScale(r)) \/ UserDelete
            \/ \E t \in SeedTypes : SeedStatus(t)
  <2>1. /\ UNCHANGED <<pods, obj, pc, cpm>> /\ (pm'.uid = 0 \/ pm'.uid = pm.uid)
    BY <1>11 DEF UserScale, UserDelete, SeedStatus, UserWrites, PMWritten, NoPM,
                 IInv, TypeOK, PM
  <2> QED
    BY <2>1, <1>r, <1>n, <1>t, Numbers DEF ScaleInv, Owned
<1>12. CASE \E i \in Idx : PodReady(i) \/ PodGone(i) \/ Evict(i) \/ GarbageCollect(i)
  <2>1. \A i \in Idx : pods'[i].owner \in {0, pods[i].owner}
    BY <1>12, PodStepOwners DEF PodReady, PodGone, Evict, GarbageCollect, IInv
  <2>2. UNCHANGED <<pm, cpm, pc, obj>>
    BY <1>12 DEF PodReady, PodGone, Evict, GarbageCollect, PodStep, cacheVars, localVars
  <2> QED
    BY <2>1, <2>2, <1>t, Numbers DEF ScaleInv, Owned
<1> QED
  BY <1>1, <1>2, <1>3, <1>4, <1>5, <1>6, <1>7, <1>8, <1>9, <1>10, <1>11, <1>12
     DEF Next, Controller, Users

\* There are n indices below n.
LEMMA FirstIndices ==
    ASSUME NEW n \in Nat
    PROVE  IsFiniteSet(0 .. (n - 1)) /\ Cardinality(0 .. (n - 1)) = n
<1> DEFINE b == n - 1
<1>1. 0 \in Int /\ b \in Int /\ (IF 0 > b THEN 0 ELSE b - 0 + 1) = n
  OBVIOUS
<1> HIDE DEF b
<1>2. IsFiniteSet(0 .. b) /\ Cardinality(0 .. b) = IF 0 > b THEN 0 ELSE b - 0 + 1
  BY <1>1, FS_Interval
<1> QED
  BY <1>1, <1>2 DEF b

\* When the listed Pods are among a set without a gap, every index below their
\* number is in the set: where the create loop starts, nothing is left out.
LEMMA CountBelow ==
    ASSUME NEW S, S \subseteq Idx, NEW T, T \subseteq S,
           \A i, k \in Idx : i < k /\ k \in S => i \in S
    PROVE  \A i \in Idx : i < Cardinality(T) => i \in S
<1>0. Cardinality(T) \in Nat
  BY SelectionCount
<1> SUFFICES ASSUME NEW i \in Idx, i \notin S
             PROVE  Cardinality(T) <= i
  BY <1>0, ConstantsOK DEF Idx
<1>1. i \in Nat /\ Idx \subseteq Nat
  BY ConstantsOK DEF Idx
<1>2. T \subseteq 0 .. (i - 1)
  BY <1>1
<1>3. IsFiniteSet(0 .. (i - 1)) /\ Cardinality(0 .. (i - 1)) = i
  BY <1>1, FirstIndices
<1> QED
  BY <1>2, <1>3, FS_Subset

\* What neither adds nor takes Pods of the object leaves no gap.
LEMMA GapFrame ==
    ASSUME IInv, GapInv, trouble' = trouble,
           \/ pm'.uid = 0 \/ pm'.del \/ (pm'.uid = pm.uid /\ pm'.del = pm.del),
           Calm =>
              \A i \in Idx :
                 /\ pods'[i].owner = pm.uid <=> pods[i].owner = pm.uid
                 /\ pods[i].owner = pm.uid /\ pods'[i].term => pods[i].term
                 /\ cpods'[i].owner = pm.uid => \/ cpods[i].owner = pm.uid
                                                \/ pods[i].owner = pm.uid,
           pc' = "create" => pc = "create" /\ next' = next,
           pc' = "delete" => pc = "delete"
    PROVE  GapInv'
<1> SUFFICES ASSUME Calm' PROVE (~Gap(pm.uid) /\ PodsStay /\ LoopExact)'
  BY DEF GapInv
<1>1. pm'.uid = pm.uid /\ Calm
  BY DEF Calm
<1>2. ~Gap(pm.uid) /\ PodsStay /\ LoopExact
  BY <1>1 DEF GapInv
<1>3. \A i \in Idx :
         /\ pods'[i].owner = pm.uid <=> pods[i].owner = pm.uid
         /\ pods[i].owner = pm.uid /\ pods'[i].term => pods[i].term
         /\ cpods'[i].owner = pm.uid => cpods[i].owner = pm.uid \/ pods[i].owner = pm.uid
  BY <1>1
<1>4. ~Gap(pm.uid)'
  BY <1>1, <1>2, <1>3 DEF Gap, Owned
<1>5. PodsStay'
  BY <1>1, <1>2, <1>3 DEF PodsStay
<1>6. LoopExact'
  BY <1>1, <1>2, <1>3 DEF LoopExact
<1> QED
  BY <1>4, <1>5, <1>6

\* Terminating a Pod changes that Pod only.
LEMMA TerminateTerm ==
    ASSUME IInv, NEW v \in Idx, Terminate(v)
    PROVE  \A i \in Idx : /\ pods'[i].owner = pods[i].owner
                          /\ i # v => pods'[i].term = pods[i].term
BY DEF IInv, TypeOK, Terminate, Pod

\* The Pods of the object stay without a gap.
LEMMA GapStep ==
    ASSUME IInv, IInv', ScaleInv, GapInv, Next, OneTrouble
    PROVE  GapInv'
<1>t. trouble' = trouble
  BY DEF OneTrouble
<1>i. Calm => /\ \A i, k \in Idx : i < k /\ k \in Owned(pm.uid) => i \in Owned(pm.uid)
              /\ PodsStay /\ LoopExact
  BY DEF GapInv, Gap, Owned
<1>w. Controller => pm'.uid = 0 \/ (pm'.uid = pm.uid /\ pm'.del = pm.del)
  BY ControllerWrites
<1>1. CASE Reconcile
  <2>1. UNCHANGED <<pm, pods, cpods>> /\ pc' \notin {"create", "delete"}
    BY <1>1 DEF Reconcile, Dispatch, apiVars, cacheVars
  <2> QED
    BY <2>1, <1>t, GapFrame
<1>2. CASE AddFinalizer \/ UpdateStatus \/ FinRemove
  <2>1. Controller /\ UNCHANGED <<pods, cpods>> /\ pc' = "idle"
    BY <1>2 DEF AddFinalizer, UpdateStatus, FinRemove, Requeue, Return, Controller
  <2> QED
    BY <2>1, <1>w, <1>t, GapFrame
<1>3. CASE List
  <2>1. /\ UNCHANGED <<pm, pods, cpods>> /\ pc = "list"
        /\ pm.uid = obj.uid /\ obj.uid # 0
        /\ next' = Cardinality(Listed)
        /\ pc' = "delete" => Cardinality(Listed) > obj.replicas
    BY <1>3 DEF List, FirstIndex, apiVars, cacheVars, IInv, Core, LocalInv, ScalePcs
  <2> SUFFICES ASSUME Calm PROVE GapInv'
    BY <2>1, <1>t DEF GapInv, Calm
  <2>2. Listed \subseteq Owned(pm.uid) /\ Owned(pm.uid) \subseteq Idx
    BY <2>1, <1>i DEF Listed, Owned, PodsStay
  <2>3. \A i \in Idx : i < next' => pods'[i].owner = pm'.uid
    <3>1. \A i \in Idx : i < Cardinality(Listed) => i \in Owned(pm.uid)
      BY <2>2, <1>i, CountBelow
    <3> QED
      BY <3>1, <2>1 DEF Owned
  <2>4. pc' # "delete"
    <3>1. obj.replicas \in Nat /\ Idx \subseteq Nat
      BY Numbers
    <3>2. Owned(pm.uid) \subseteq 0 .. (obj.replicas - 1)
      <4>1. \A i \in Owned(pm.uid) : i < obj.replicas
        BY <2>1 DEF ScaleInv, Calm
      <4>2. \A n, r \in Nat : n < r => n \in 0 .. (r - 1)
        OBVIOUS
      <4> QED
        BY <2>2, <3>1, <4>1, <4>2
    <3>3. /\ IsFiniteSet(0 .. (obj.replicas - 1))
          /\ Cardinality(0 .. (obj.replicas - 1)) = obj.replicas
      BY <3>1, FirstIndices
    <3>4. Cardinality(Listed) <= obj.replicas
      BY <2>2, <3>2, <3>3, FS_Subset
    <3>5. Cardinality(Listed) \in Nat
      BY <2>2, SelectionCount
    <3> QED
      BY <2>1, <3>1, <3>4, <3>5
  <2>5. ~Gap(pm.uid)'
    BY <2>1 DEF GapInv, Gap, Owned
  <2> QED
    BY <1>t, <1>i, <2>1, <2>3, <2>4, <2>5 DEF GapInv, PodsStay, LoopExact
<1>4. CASE CreatePod
  <2>1. CASE pods[next].owner # 0
    <3>1. UNCHANGED <<pm, pods, cpods>> /\ pc' = "idle"
      BY <1>4, <2>1 DEF CreatePod, Requeue, Return, cacheVars
    <3> QED
      BY <3>1, <1>t, GapFrame
  <2>2. CASE pods[next].owner = 0
    <3>1. /\ pc = "create" /\ UNCHANGED <<pm, cpods>> /\ pc' # "delete"
          /\ pm.uid = obj.uid /\ obj.uid # 0 /\ next \in Idx /\ next' = next + 1
      BY <1>4, <2>2 DEF CreatePod, cacheVars, IInv, TypeOK, Core, LocalInv, ScalePcs
    <3>2. \A i \in Idx : IF i = next THEN pods'[i].owner = obj.uid /\ ~pods'[i].term
                                     ELSE pods'[i] = pods[i]
      BY <1>4, <2>2, <3>1 DEF CreatePod, IInv, TypeOK
    <3> SUFFICES ASSUME Calm PROVE GapInv'
      BY <3>1, <1>t DEF GapInv, Calm
    <3>3. \A i \in Idx : i < next' => pods'[i].owner = pm.uid
      BY <1>i, <3>1, <3>2, Numbers DEF LoopExact
    <3>4. \A i, k \in Idx : i < k /\ pods'[k].owner = pm.uid => pods'[i].owner = pm.uid
      BY <1>i, <3>1, <3>2 DEF Owned, LoopExact
    <3>5. ~Gap(pm.uid)'
      BY <3>1, <3>4 DEF Gap, Owned
    <3>6. \A i \in Idx : /\ pods'[i].owner = pm.uid => ~pods'[i].term
                         /\ cpods'[i].owner = pm.uid => pods'[i].owner = pm.uid
      BY <1>i, <3>1, <3>2, Zenon DEF PodsStay
    <3> QED
      BY <1>t, <3>1, <3>3, <3>5, <3>6 DEF GapInv, PodsStay, LoopExact
  <2> QED
    BY <2>1, <2>2
<1>5. CASE DeletePod
  <2>1. pc = "delete" /\ UNCHANGED pm
    BY <1>5 DEF DeletePod
  <2> QED
    BY <2>1, <1>t, <1>i DEF GapInv, Calm, LoopExact
<1>6. CASE FinList
  <2>1. UNCHANGED <<pm, pods, cpods>> /\ pc' \notin {"create", "delete"}
    BY <1>6 DEF FinList, apiVars, cacheVars
  <2> QED
    BY <2>1, <1>t, GapFrame
<1>7. CASE FinDelete
  <2>1. /\ pc = "finDelete" /\ UNCHANGED <<pm, cpods>> /\ pc' \in {"finDelete", "finRemove"}
    BY <1>7 DEF FinDelete, cacheVars
  <2>2. PICK v \in Idx : UNCHANGED pods \/ (pods[v].owner # 0 /\ Terminate(v) /\ v \in victims)
    BY <1>7 DEF FinDelete, IInv, TypeOK
  <2>3. pods[v].owner = pm.uid /\ v \in victims /\ pods[v].owner # 0 => pm.del
    <3>1. /\ \A i \in Idx : pods[i].owner <= obj.uid
          /\ pm.uid = obj.uid => pm.del
          /\ v \in victims => pods[v].owner = 0 \/ pods[v].owner >= obj.uid
      BY <2>1 DEF IInv, Core, LocalInv, VictimInv, FinPcs
    <3>2. pods[v].owner <= obj.uid
      BY <3>1
    <3> QED
      BY <3>1, <3>2, Numbers
  <2>4. Calm =>
          \A i \in Idx : /\ pods'[i].owner = pods[i].owner
                         /\ pods[i].owner = pm.uid => pods'[i].term = pods[i].term
    BY <2>2, <2>3, TerminateTerm DEF Calm
  <2> QED
    BY <2>1, <2>4, <1>t, GapFrame
<1>8. CASE TransientError
  BY <1>8, <1>t, GapFrame DEF TransientError, Requeue, Return, apiVars, cacheVars
<1>9. CASE CrashRestart
  BY <1>9, <1>t, GapFrame DEF CrashRestart, Requeue, Return, apiVars
<1>10. CASE SyncPM
  BY <1>10, <1>t, GapFrame DEF SyncPM, apiVars, localVars
<1>11. CASE \E i \in Idx : SyncPod(i)
  <2>1. UNCHANGED <<pm, pods, pc, next>>
    BY <1>11 DEF SyncPod, apiVars, localVars
  <2>2. \A i \in Idx : cpods'[i] \in {cpods[i], pods[i]}
    BY <1>11 DEF SyncPod, IInv, TypeOK
  <2> QED
    BY <2>1, <2>2, <1>t, GapFrame
<1>12. CASE \E r \in 1 .. MaxReplicas : UserCreate(r)
  <2>1. /\ UNCHANGED <<pods, cpods, obj, pc>> /\ pm'.uid = lastUid + 1
    BY <1>12 DEF UserCreate, UserWrites, PMWritten
  <2>2. \A i \in Idx : pods[i].owner # pm'.uid /\ cpods[i].owner # pm'.uid
    BY <2>1, Numbers DEF IInv, Core, UidInv
  <2>3. ~(pc \in ScalePcs)
    <3>1. pc \in ScalePcs => pm'.uid = obj.uid
      BY <2>1 DEF IInv, Core, LocalInv
    <3>2. obj.uid <= lastUid
      BY DEF IInv, Core, UidInv
    <3> QED
      BY <2>1, <3>1, <3>2, Numbers
  <2> QED
    BY <2>1, <2>2, <2>3 DEF GapInv, PodsStay, LoopExact, Gap, Owned, ScalePcs
<1>13. CASE (\E r \in 1 .. MaxReplicas : UserScale(r)) \/ UserDelete
            \/ \E t \in SeedTypes : SeedStatus(t)
  <2>1. UNCHANGED <<pods, cpods, pc, next>>
    BY <1>13 DEF UserScale, UserDelete, SeedStatus, UserWrites
  <2>2. \/ pm'.uid = 0 \/ pm'.del \/ (pm'.uid = pm.uid /\ pm'.del = pm.del)
    BY <1>13 DEF UserScale, UserDelete, SeedStatus, UserWrites, PMWritten, NoPM,
                 IInv, TypeOK, PM
  <2> QED
    BY <2>1, <2>2, <1>t, GapFrame
<1>14. CASE \E i \in Idx : PodReady(i) \/ PodGone(i) \/ Evict(i) \/ GarbageCollect(i)
  <2>1. PICK i \in Idx : PodReady(i) \/ PodGone(i) \/ Evict(i) \/ GarbageCollect(i)
    BY <1>14
  <2>2. UNCHANGED <<pm, cpods, pc, next>>
    BY <2>1 DEF PodReady, PodGone, Evict, GarbageCollect, PodStep, cacheVars, localVars
  <2>3. \A k \in Idx : k # i => pods'[k] = pods[k]
    BY <2>1 DEF PodReady, PodGone, Evict, GarbageCollect, PodStep, IInv, TypeOK
  <2>4. CASE PodReady(i)
    <3>1. pods'[i].owner = pods[i].owner /\ pods'[i].term = pods[i].term
      BY <2>4 DEF PodReady, PodStep, IInv, TypeOK, Pod
    <3> QED
      BY <2>2, <2>3, <3>1, <1>t, GapFrame
  <2>5. CASE PodGone(i)
    <3>1. Calm => pods[i].owner # pm.uid
      BY <2>5, <1>i, Zenon DEF PodGone, PodsStay
    <3>2. pods'[i].owner = 0 /\ ~pods'[i].term
      BY <2>5 DEF PodGone, PodStep, NoPod, IInv, TypeOK
    <3> QED
      BY <2>2, <2>3, <3>1, <3>2, <1>t, GapFrame DEF Calm
  <2>6. CASE Evict(i)
    <3>1. evictions' > 0
      BY <2>6, ConstantsOK DEF Evict, IInv, TypeOK
    <3>2. trouble = "eviction"
      BY <3>1 DEF OneTrouble, Only
    <3> QED
      BY <3>2, <1>t DEF GapInv, Calm
  <2>7. CASE GarbageCollect(i)
    <3>1. pods[i].owner # pm.uid
      BY <2>7 DEF GarbageCollect, Collectable
    <3>2. pods'[i].owner = pods[i].owner
      BY <2>7 DEF GarbageCollect, PodStep, IInv, TypeOK, Pod
    <3> QED
      BY <2>2, <2>3, <3>1, <3>2, <1>t, GapFrame
  <2> QED
    BY <2>1, <2>4, <2>5, <2>6, <2>7
<1> QED
  BY <1>1, <1>2, <1>3, <1>4, <1>5, <1>6, <1>7, <1>8, <1>9, <1>10, <1>11, <1>12, <1>13,
     <1>14 DEF Next, Controller, Users

\* However stale the podList a Reconcile works from: without scale-downs the
\* Pods of the object stay below spec.replicas, and without evictions either
\* they are there without a gap.
THEOREM CreateLoopExact == LiveSpec => []NoSurplus
<1>1. LiveInit => IInv /\ ScaleInv /\ GapInv
  BY InvInit DEF LiveInit, Init, NoPM, ScaleInv, GapInv, Calm
<1>2. ASSUME IInv, ScaleInv, GapInv, [Next /\ OneTrouble]_<<vars, trouble>>
      PROVE  IInv' /\ ScaleInv' /\ GapInv'
  <2>1. CASE Next /\ OneTrouble
    <3>1. IInv'
      BY <1>2, <2>1, TypeStep, InvStep DEF IInv, Core
    <3> QED
      BY <1>2, <2>1, <3>1, ScaleStep, GapStep
  <2>2. CASE UNCHANGED <<vars, trouble>>
    <3>1. IInv'
      BY <1>2, <2>2, TypeStep, InvStep DEF IInv, Core
    <3>2. ScaleInv' /\ GapInv'
      BY <1>2, <2>2 DEF vars, ScaleInv, GapInv, Calm, PodsStay, LoopExact, Gap, Owned
    <3> QED
      BY <3>1, <3>2
  <2> QED
    BY <1>2, <2>1, <2>2
<1>3. ASSUME IInv, ScaleInv, GapInv PROVE NoSurplus
  BY <1>3, Numbers DEF NoSurplus, ScaleInv, GapInv, Calm, BelowReplicas, Owned
<1> QED
  BY <1>1, <1>2, <1>3, PTL DEF LiveSpec
=============================================================================
