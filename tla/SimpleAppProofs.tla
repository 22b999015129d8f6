--------------------------- MODULE SimpleAppProofs ---------------------------
(***************************************************************************)
(* Proofs about SimpleApp, for any number of re-creations, evictions and   *)
(* faults: type correctness, and that Pods exist only under the finalizer. *)
(*                                                                         *)
(* The reconciler decides on a copy of the object that it took from the    *)
(* cache.  The invariant says what copies still tell of the object.        *)
(***************************************************************************)
EXTENDS SimpleApp, TLAPS

\* UIDs are given out in increasing order, to the object and so to Pods.
Issued ==
    /\ app.uid \in {0, uid}
    /\ capp.uid <= uid /\ my.uid <= uid /\ pod.owner <= uid /\ cpod.owner <= uid

\* c is a copy of an earlier or the present state of the object a, or of
\* another object: finalizer and deletion timestamp are never taken back.
Older(c, a) ==
    c.uid # 0 /\ c.uid = a.uid => (c.fin => a.fin) /\ (c.del => a.del)

\* The worker's copy is older than the cache and that older than the object.
\* An object whose finalizer was seen goes only through the worker, which
\* must have seen the deletion: one not seen deleted is still there.
Copies ==
    /\ Older(capp, app) /\ Older(my, app) /\ Older(my, capp)
    /\ capp.uid # 0 /\ capp.fin /\ ~capp.del => app.uid = capp.uid /\ app.fin

\* What each step of Reconcile knows of its copy, and through it of the object.
Worker ==
    /\ pc # "idle" => my.uid # 0
    /\ pc = "addfin" => ~my.fin /\ ~my.del
    /\ pc \in {"list", "create", "status"} =>
          my.fin /\ ~my.del /\ app.uid = my.uid /\ app.fin
    /\ pc \in {"finlist", "findelete", "finremove"} => my.fin /\ my.del

IInv == TypeOK /\ Issued /\ Copies /\ Worker /\ PodsUnderFinalizer

-----------------------------------------------------------------------------
\* A delete request for the Pod leaves its owner as it is.
LEMMA Terminating ==
    ASSUME TypeOK, Terminate
    PROVE  /\ pod' \in Pods /\ pod'.owner = pod.owner
           /\ pod'.owner = 0 => pod' = NoPod
  <1>1. CASE pod = NoPod
    BY <1>1 DEF TypeOK, Terminate, NoPod, Pods
  <1>2. CASE pod # NoPod
    <2>1. pod' = [pod EXCEPT !.del = TRUE]
      BY <1>2 DEF Terminate
    <2>2. pod \in Pods /\ pod.owner # 0
      BY <1>2 DEF TypeOK
    <2>. HIDE DEF NoPod
    <2>. QED BY <2>1, <2>2 DEF Pods
  <1>. QED BY <1>1, <1>2

\* An Update of one field is refused, or changes that field of the object.
LEMMA FinalizerAdded ==
    ASSUME TypeOK, my.uid # 0, Update([my EXCEPT !.fin = TRUE])
    PROVE  \/ app' = app
           \/ /\ app = my /\ app' \in Apps /\ app'.uid = app.uid
              /\ app'.fin = TRUE /\ app'.del = app.del
  BY DEF TypeOK, Update, Apps

LEMMA ReadySet ==
    ASSUME TypeOK, my.uid # 0, Update([my EXCEPT !.ready = TRUE])
    PROVE  \/ app' = app
           \/ /\ app = my /\ app' \in Apps /\ app'.uid = app.uid
              /\ app'.fin = app.fin /\ app'.del = app.del
  BY DEF TypeOK, Update, Apps

LEMMA InitIInv == Init => IInv
  BY AppAssumption DEF Init, IInv, TypeOK, Issued, Copies, Older, Worker,
     PodsUnderFinalizer, Apps, Pods, NoApp, NoPod

LEMMA NextIInv == IInv /\ [Next]_vars => IInv'
  <1>. SUFFICES ASSUME IInv, [Next]_vars PROVE IInv'
    OBVIOUS
  <1>. USE AppAssumption DEF IInv, TypeOK, Issued, Copies, Older, Worker,
           PodsUnderFinalizer, Apps, Pods, NoApp, NoPod
  <1>1. CASE UserCreate
    <2>1. /\ app' \in Apps /\ app'.uid = uid + 1
          /\ app'.fin = FALSE /\ app'.del = FALSE /\ uid' = uid + 1
      <3>1. /\ uid' = uid + 1 /\ uid + 1 \in 0 .. MaxUid
            /\ app' = [NoApp EXCEPT !.uid = uid + 1]
        BY <1>1 DEF UserCreate
      <3>2. app' = [uid |-> uid + 1, fin |-> FALSE, del |-> FALSE, ready |-> FALSE]
        BY <3>1
      <3>. QED BY <3>1, <3>2
    <2>2. UNCHANGED <<capp, pod, cpod, pc, my, evicts, faults>> /\ uid < MaxUid
      BY <1>1 DEF UserCreate
    <2>3. TypeOK'
      BY <2>1, <2>2
    <2>4. Issued'
      BY <2>1, <2>2
    <2>5. \A n \in {capp.uid, my.uid, pod.owner} : n # uid + 1
      OBVIOUS
    <2>6. app.uid = 0 /\ ~app.fin
      BY <1>1 DEF UserCreate
    <2>7. Copies'
      BY <2>1, <2>2, <2>5, <2>6
    <2>8. Worker'
      BY <2>1, <2>2, <2>6
    <2>9. PodsUnderFinalizer'
      BY <2>1, <2>2, <2>5, <2>6
    <2>. QED BY <2>3, <2>4, <2>7, <2>8, <2>9
  <1>2. CASE UserDelete
    <2>1. UNCHANGED <<capp, pod, cpod, pc, my, counters>>
      BY <1>2 DEF UserDelete
    <2>2. CASE app.fin
      <3>1. /\ app' \in Apps /\ app'.uid = app.uid /\ app.uid # 0
            /\ app'.fin = TRUE /\ app'.del = TRUE
        BY <1>2, <2>2 DEF UserDelete
      <3>. QED BY <2>1, <2>2, <3>1 DEF counters
    <2>3. CASE ~app.fin
      BY <1>2, <2>1, <2>3 DEF UserDelete, counters
    <2>. QED BY <2>2, <2>3
  <1>3. CASE SyncApp
    BY <1>3 DEF SyncApp, counters
  <1>4. CASE SyncPod
    BY <1>4 DEF SyncPod, counters
  <1>5. CASE PodGone
    BY <1>5 DEF PodGone, counters
  <1>6. CASE Evict
    BY <1>6, Terminating DEF Evict
  <1>7. CASE GarbageCollect
    BY <1>7, Terminating DEF GarbageCollect, counters
  <1>8. CASE Reconcile
    BY <1>8 DEF Reconcile, Dispatch, counters
  <1>9. CASE AddFinalizer
    <2>1. pc' = "idle" /\ my' = NoApp /\ UNCHANGED <<capp, pod, cpod, counters>>
      BY <1>9 DEF AddFinalizer, Return
    <2>2. my.uid # 0 /\ ~my.fin /\ ~my.del
      BY <1>9 DEF AddFinalizer
    <2>3. CASE app' = app
      BY <2>1, <2>3 DEF counters
    <2>4. CASE /\ app = my /\ app' \in Apps /\ app'.uid = app.uid
               /\ app'.fin = TRUE /\ app'.del = app.del
      BY <2>1, <2>2, <2>4 DEF counters
    <2>. QED BY <1>9, <2>2, <2>3, <2>4, FinalizerAdded DEF AddFinalizer
  <1>10. CASE List
    BY <1>10 DEF List, Goto, counters
  <1>11. CASE CreatePod
    <2>1. CASE pod = NoPod
      <3>1. pod' = [owner |-> my.uid, del |-> FALSE] /\ my.uid # 0
        BY <1>11, <2>1 DEF CreatePod
      <3>2. pod' \in Pods /\ pod'.owner = my.uid
        BY <3>1
      <3>. QED BY <1>11, <2>1, <3>1, <3>2 DEF CreatePod, Goto, counters
    <2>2. CASE pod # NoPod
      <3>1. pc' = "idle" /\ my' = NoApp /\ UNCHANGED <<app, capp, pod, cpod, counters>>
        BY <1>11, <2>2 DEF CreatePod, Return
      <3>. QED BY <3>1 DEF counters
    <2>. QED BY <2>1, <2>2
  <1>12. CASE UpdateStatus
    BY <1>12, ReadySet DEF UpdateStatus, Return, counters
  <1>13. CASE FinList
    BY <1>13 DEF FinList, Goto, counters
  <1>14. CASE FinDelete
    BY <1>14, Terminating DEF FinDelete, Return, counters
  <1>15. CASE FinRemove
    BY <1>15 DEF FinRemove, Update, Return, counters
  <1>16. CASE Fault
    BY <1>16 DEF Fault, Return
  <1>17. CASE UNCHANGED vars
    BY <1>17 DEF vars
  <1>. QED BY <1>1, <1>2, <1>3, <1>4, <1>5, <1>6, <1>7, <1>8, <1>9, <1>10,
              <1>11, <1>12, <1>13, <1>14, <1>15, <1>16, <1>17 DEF Next, Step

LEMMA Invariant == Spec => []IInv
  BY InitIInv, NextIInv, PTL DEF Spec

-----------------------------------------------------------------------------
(* Theorems.                                                               *)

\* What does not exist has no fields, and only a running reconcile has a copy.
THEOREM TypeCorrect == Spec => []TypeOK
  BY Invariant, PTL DEF IInv

\* The Pod is under the finalizer of the object it belongs to, and none is
\* created for an object that is gone, however old the copies are.
THEOREM FinalizerFirst == Spec => []PodsUnderFinalizer
  BY Invariant, PTL DEF IInv
=============================================================================
