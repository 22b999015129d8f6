----------------------- MODULE QueueControllerProofs ------------------------
(***************************************************************************)
(* Proofs about QueueController, for any set of keys, any number of        *)
(* workers, whichever of them always fail, and any retry limit.            *)
(*                                                                         *)
(* The inductive invariant adds to the type invariant what the queue's     *)
(* three collections mean to the workers (Held, Lined) and what a worker   *)
(* leaves behind between Handle and Done (Handled).                        *)
(***************************************************************************)
EXTENDS QueueController, SequenceTheorems, TLAPS

\* What is processed is what the workers have got.
Held ==
    /\ \A w \in Workers : wkey[w] # NoKey => wkey[w] \in processing
    /\ \A v, w \in Workers : wkey[v] = wkey[w] /\ wkey[v] # NoKey => v = w

\* A queued key is dirty, waits once, and is in nobody's hands.
Lined ==
    /\ \A i \in 1 .. Len(queue) : queue[i] \in dirty \ processing
    /\ \A i, j \in 1 .. Len(queue) : queue[i] = queue[j] => i = j

\* A key that failed and is not Done yet is already on its way back.
Handled ==
    \A w \in Workers :
        wpc[w] = "done" /\ failures[wkey[w]] > 0
            => shutdown \/ wkey[w] \in dirty \cup waiting

IInv ==
    /\ TypeOK /\ Held /\ Lined /\ Handled
    /\ NoLostChange /\ RetriesBounded /\ IdleMeansForgotten

-----------------------------------------------------------------------------
\* Appending a new key keeps the line in order: what Add and Done do.
LEMMA AppendLined ==
    ASSUME NEW q \in Seq(Keys), NEW k \in Keys, NEW D, NEW E, D \subseteq E, k \in E,
           \A i \in 1 .. Len(q) : q[i] \in D /\ q[i] # k,
           \A i, j \in 1 .. Len(q) : q[i] = q[j] => i = j
    PROVE  /\ Append(q, k) \in Seq(Keys)
           /\ \A i \in 1 .. Len(Append(q, k)) : Append(q, k)[i] \in E
           /\ \A i, j \in 1 .. Len(Append(q, k)) :
                Append(q, k)[i] = Append(q, k)[j] => i = j
  OBVIOUS

\* Taking the head leaves the others, none of which is the head: Get.
LEMMA TailLined ==
    ASSUME NEW q \in Seq(Keys), q # <<>>, NEW D,
           \A i \in 1 .. Len(q) : q[i] \in D,
           \A i, j \in 1 .. Len(q) : q[i] = q[j] => i = j
    PROVE  /\ Tail(q) \in Seq(Keys) /\ Head(q) \in Keys /\ Head(q) \in D
           /\ \A i \in 1 .. Len(Tail(q)) : Tail(q)[i] \in D /\ Tail(q)[i] # Head(q)
           /\ \A i, j \in 1 .. Len(Tail(q)) : Tail(q)[i] = Tail(q)[j] => i = j
  OBVIOUS

\* Add keeps the line in order, whoever calls it.
LEMMA AddLined ==
    ASSUME queue \in Seq(Keys), dirty \subseteq Keys, Lined, NEW k \in Keys, Add(k),
           UNCHANGED processing
    PROVE  Lined' /\ queue' \in Seq(Keys) /\ dirty' \subseteq Keys
           /\ dirty \subseteq dirty' /\ (shutdown \/ k \in dirty')
  <1>1. CASE shutdown \/ k \in dirty
    BY <1>1 DEF Add, Lined
  <1>2. CASE ~(shutdown \/ k \in dirty) /\ k \in processing
    BY <1>2 DEF Add, Lined
  <1>3. CASE ~(shutdown \/ k \in dirty) /\ k \notin processing
    <2>1. dirty' = dirty \cup {k} /\ queue' = Append(queue, k)
      BY <1>3 DEF Add
    <2>2. \A i \in 1 .. Len(queue) : queue[i] \in dirty \ processing /\ queue[i] # k
      BY <1>3 DEF Lined
    <2>3. k \in dirty' \ processing /\ dirty \ processing \subseteq dirty' \ processing
      BY <1>3, <2>1
    <2>4. /\ Append(queue, k) \in Seq(Keys)
          /\ \A i \in 1 .. Len(Append(queue, k)) : Append(queue, k)[i] \in dirty' \ processing
          /\ \A i, j \in 1 .. Len(Append(queue, k)) :
               Append(queue, k)[i] = Append(queue, k)[j] => i = j
      BY <2>2, <2>3, AppendLined DEF Lined
    <2>. QED BY <2>1, <2>4 DEF Lined
  <1>. QED BY <1>1, <1>2, <1>3

\* Both branches of Lookup give err a truth value.
LEMMA ErrIsBoolean ==
    ASSUME NEW a, NEW S, NEW b \in BOOLEAN, NEW x, NEW T
    PROVE  (IF x \in T THEN a \in S ELSE b) \in BOOLEAN
  <1>1. CASE x \in T
    <2>1. CASE a \in S
      BY <1>1, <2>1, Zenon
    <2>2. CASE a \notin S
      <3>1. (a \in S) <=> FALSE
        BY <2>2
      <3>2. (a \in S) = FALSE
        BY <3>1
      <3>. QED BY <1>1, <3>2, SMT
    <2>. QED BY <2>1, <2>2, Zenon
  <1>2. CASE x \notin T
    BY <1>2, Zenon
  <1>. QED BY <1>1, <1>2, Zenon

\* ... for every worker.
LEMMA LookupErr ==
    ASSUME NEW w \in Workers
    PROVE  (IF wkey[w] \in cached THEN w \in Chronic ELSE MissIsError) \in BOOLEAN
  <1>1. MissIsError \in BOOLEAN
    BY ControllerAssumption
  <1>. QED BY <1>1, ErrIsBoolean, Zenon

-----------------------------------------------------------------------------
LEMMA InitIInv == Init => IInv
  <1>. SUFFICES ASSUME Init PROVE IInv
    OBVIOUS
  <1>. USE ControllerAssumption, NoKeyAssumption DEF Init, QueueInit
  <1>1. queue \in Seq(Keys) /\ Len(queue) = 0
    OBVIOUS
  <1>2. werr \in [Workers -> BOOLEAN]
    BY Zenon
  <1>3. TypeOK
    <2>1. \A w \in Workers : wpc[w] = "loop" /\ wkey[w] = NoKey
      OBVIOUS
    <2>2. \A w \in Workers : Busy(w) <=> wkey[w] # NoKey
      BY <2>1 DEF Busy
    <2>3. shutdown \in BOOLEAN /\ cancelled \in BOOLEAN
      BY Zenon
    <2>. QED BY <1>1, <1>2, <2>2, <2>3 DEF TypeOK
  <1>4. Lined
    BY <1>1 DEF Lined
  <1>5. Held /\ Handled /\ NoLostChange /\ RetriesBounded /\ IdleMeansForgotten
    BY DEF Held, Handled, NoLostChange, RetriesBounded, IdleMeansForgotten
  <1>. QED BY <1>3, <1>4, <1>5 DEF IInv

\* Every step keeps the invariant, action by action.
LEMMA NextIInv == IInv /\ [Next]_vars => IInv'
  <1>. SUFFICES ASSUME IInv, [Next]_vars PROVE IInv'
    OBVIOUS
  <1>. USE ControllerAssumption, NoKeyAssumption
       DEF IInv, TypeOK, Busy, Held, Handled, NoLostChange, RetriesBounded,
           IdleMeansForgotten
  <1>1. ASSUME NEW k \in Keys, Change(k) PROVE IInv'
    BY <1>1 DEF Change, queueVars, workerVars, Lined
  <1>2. ASSUME NEW k \in Keys, Resync(k) PROVE IInv'
    BY <1>2 DEF Resync, queueVars, workerVars, Lined
  <1>3. ASSUME NEW k \in Keys, Notify(k) PROVE IInv'
    <2>1. Lined' /\ queue' \in Seq(Keys) /\ dirty' \subseteq Keys
          /\ dirty \subseteq dirty' /\ (shutdown \/ k \in dirty')
      BY <1>3, AddLined DEF Notify
    <2>. QED BY <1>3, <2>1 DEF Notify, workerVars
  <1>4. ASSUME NEW k \in Keys, DeliverKey(k) PROVE IInv'
    <2>1. Lined' /\ queue' \in Seq(Keys) /\ dirty' \subseteq Keys
          /\ dirty \subseteq dirty' /\ (shutdown \/ k \in dirty')
      BY <1>4, AddLined DEF DeliverKey, Deliver
    <2>. QED BY <1>4, <2>1 DEF DeliverKey, Deliver, workerVars, eventVars
  <1>5. ASSUME NEW w \in Workers, CheckDone(w) PROVE IInv'
    BY <1>5 DEF CheckDone, Goto, queueVars, eventVars, Lined
  <1>6. ASSUME NEW w \in Workers, Get(w) PROVE IInv'
    <2>1. CASE UNCHANGED queueVars /\ UNCHANGED wkey /\ Goto(w, "exit")
      BY <1>6, <2>1 DEF Get, Goto, queueVars, eventVars, Lined
    <2>2. ASSUME NEW k \in Keys, Take(k), wkey' = [wkey EXCEPT ![w] = k], Goto(w, "lookup")
          PROVE  IInv'
      <3>1. /\ queue' \in Seq(Keys) /\ k \in dirty \ processing
            /\ \A i \in 1 .. Len(queue') : queue'[i] \in dirty \ processing /\ queue'[i] # k
            /\ \A i, j \in 1 .. Len(queue') : queue'[i] = queue'[j] => i = j
        <4>1. queue # <<>> /\ k = Head(queue) /\ queue' = Tail(queue)
          BY <2>2 DEF Take
        <4>2. /\ \A i \in 1 .. Len(queue) : queue[i] \in dirty \ processing
              /\ \A i, j \in 1 .. Len(queue) : queue[i] = queue[j] => i = j
          BY DEF Lined
        <4>. QED BY <4>1, <4>2, TailLined
      <3>2. Lined'
        BY <2>2, <3>1 DEF Take, Lined
      <3>3. wpc[w] = "get" /\ wkey[w] = NoKey /\ UNCHANGED <<werr, eventVars, cancelled>>
        BY <1>6 DEF Get
      <3>4. TypeOK'
        BY <2>2, <3>1, <3>3 DEF Take, Goto, eventVars
      <3>5. Held'
        BY <2>2, <3>1, <3>3 DEF Take, Goto, eventVars
      <3>6. Handled'
        BY <2>2, <3>1, <3>3 DEF Take, Goto, eventVars
      <3>7. NoLostChange'
        BY <2>2, <3>1, <3>3 DEF Take, Goto, eventVars
      <3>8. RetriesBounded' /\ IdleMeansForgotten'
        BY <2>2, <3>1, <3>3 DEF Take, Goto, eventVars
      <3>. QED BY <3>2, <3>4, <3>5, <3>6, <3>7, <3>8
    <2>. QED BY <1>6, <2>1, <2>2 DEF Get
  <1>7. ASSUME NEW w \in Workers, Lookup(w) PROVE IInv'
    <2>1. werr' \in [Workers -> BOOLEAN]
      <3> DEFINE e == IF wkey[w] \in cached THEN w \in Chronic ELSE MissIsError
      <3>1. e \in BOOLEAN
        BY ONLY LookupErr, w \in Workers, Zenon
      <3>2. werr' = [werr EXCEPT ![w] = e]
        BY <1>7 DEF Lookup
      <3> HIDE DEF e
      <3>. QED BY <3>1, <3>2, Zenon
    <2>2. TypeOK'
      BY <1>7, <2>1 DEF Lookup, Goto, queueVars
    <2>3. Lined'
      BY <1>7 DEF Lookup, queueVars, Lined
    <2>4. Held' /\ Handled' /\ RetriesBounded' /\ IdleMeansForgotten'
      BY <1>7 DEF Lookup, Goto, queueVars
    <2>5. NoLostChange'
      BY <1>7 DEF Lookup, Goto, queueVars
    <2>. QED BY <2>2, <2>3, <2>4, <2>5
  <1>8. ASSUME NEW w \in Workers, Handle(w) PROVE IInv'
    <2>1. wkey[w] \in Keys /\ wkey[w] \in processing /\ wpc[w] = "handle"
      BY <1>8 DEF Handle
    <2>2. CASE AddRateLimited(wkey[w]) /\ ~GiveUp(wkey[w])
      <3>1. Lined'
        BY <1>8, <2>1, <2>2 DEF Handle, AddRateLimited, GiveUp, Goto, eventVars, Lined
      <3>2. TypeOK'
        BY <1>8, <2>1, <2>2 DEF Handle, AddRateLimited, GiveUp, Goto, eventVars
      <3>3. Held'
        BY <1>8, <2>1, <2>2 DEF Handle, AddRateLimited, GiveUp, Goto, eventVars
      <3>4. Handled'
        BY <1>8, <2>1, <2>2 DEF Handle, AddRateLimited, GiveUp, Goto, eventVars
      <3>5. NoLostChange'
        BY <1>8, <2>1, <2>2 DEF Handle, AddRateLimited, GiveUp, Goto, eventVars
      <3>6. RetriesBounded'
        BY <1>8, <2>1, <2>2 DEF Handle, AddRateLimited, GiveUp, Goto, eventVars
      <3>7. IdleMeansForgotten'
        BY <1>8, <2>1, <2>2 DEF Handle, AddRateLimited, GiveUp, Goto, eventVars
      <3>. QED BY <3>1, <3>2, <3>3, <3>4, <3>5, <3>6, <3>7
    <2>3. CASE Forget(wkey[w])
      <3>1. Lined'
        BY <1>8, <2>1, <2>3 DEF Handle, Forget, Goto, eventVars, Lined
      <3>2. TypeOK'
        BY <1>8, <2>1, <2>3 DEF Handle, Forget, Goto, eventVars
      <3>3. Held'
        BY <1>8, <2>1, <2>3 DEF Handle, Forget, Goto, eventVars
      <3>4. Handled'
        BY <1>8, <2>1, <2>3 DEF Handle, Forget, Goto, eventVars
      <3>5. NoLostChange'
        BY <1>8, <2>1, <2>3 DEF Handle, Forget, Goto, eventVars
      <3>6. RetriesBounded'
        BY <1>8, <2>1, <2>3 DEF Handle, Forget, Goto, eventVars
      <3>7. IdleMeansForgotten'
        BY <1>8, <2>1, <2>3 DEF Handle, Forget, Goto, eventVars
      <3>. QED BY <3>1, <3>2, <3>3, <3>4, <3>5, <3>6, <3>7
    <2>. QED BY <1>8, <2>2, <2>3 DEF Handle
  <1>9. ASSUME NEW w \in Workers, Finish(w) PROVE IInv'
    <2> DEFINE k == wkey[w]
    <2>1. k \in Keys /\ k \in processing /\ wpc[w] = "done"
      BY <1>9 DEF Finish
    <2>2. Lined' /\ queue' \in Seq(Keys)
      <3>1. CASE k \notin dirty
        BY <1>9, <2>1, <3>1 DEF Finish, Done, Lined
      <3>2. CASE k \in dirty
        <4>1. queue' = Append(queue, k) /\ processing' = processing \ {k} /\ dirty' = dirty
          BY <1>9, <3>2 DEF Finish, Done
        <4>2. \A i \in 1 .. Len(queue) : queue[i] \in dirty \ processing /\ queue[i] # k
          BY <2>1 DEF Lined
        <4>3. k \in dirty \ processing' /\ dirty \ processing \subseteq dirty \ processing'
          BY <3>2, <4>1
        <4>4. /\ Append(queue, k) \in Seq(Keys)
              /\ \A i \in 1 .. Len(Append(queue, k)) :
                   Append(queue, k)[i] \in dirty \ processing'
              /\ \A i, j \in 1 .. Len(Append(queue, k)) :
                   Append(queue, k)[i] = Append(queue, k)[j] => i = j
          BY <2>1, <4>2, <4>3, AppendLined DEF Lined
        <4>. QED BY <4>1, <4>4 DEF Lined
      <3>. QED BY <3>1, <3>2
    <2>3. TypeOK' /\ Held' /\ Handled' /\ NoLostChange' /\ RetriesBounded'
      BY <1>9, <2>1, <2>2 DEF Finish, Done, Goto, eventVars
    <2>4. IdleMeansForgotten'
      BY <1>9, <2>1 DEF Finish, Done, Goto, eventVars
    <2>. QED BY <2>2, <2>3, <2>4
  <1>10. ASSUME ShutDown PROVE IInv'
    BY <1>10 DEF ShutDown, workerVars, eventVars, Lined
  <1>11. ASSUME Cancel PROVE IInv'
    BY <1>11 DEF Cancel, queueVars, workerVars, eventVars, Lined
  <1>12. ASSUME UNCHANGED vars PROVE IInv'
    BY <1>12 DEF vars, queueVars, workerVars, eventVars, Lined
  <1>. QED
    BY <1>1, <1>2, <1>3, <1>4, <1>5, <1>6, <1>7, <1>8, <1>9, <1>10, <1>11, <1>12
    DEF Next, Informer, Worker

\* What every reachable state satisfies.
THEOREM Invariance == Spec => []IInv
  BY InitIInv, NextIInv, PTL DEF Spec

\* The variables keep their types, and a worker past Get has a key.
THEOREM TypeCorrect == Spec => []TypeOK
  BY Invariance, PTL DEF IInv

\* Two workers never process the same key at the same time, as the comment at
\* the deferred queue.Done promises, for any number of workers.
THEOREM Exclusive == Spec => []NeverInParallel
  <1>1. IInv => NeverInParallel
    BY DEF IInv, Held, NeverInParallel
  <1>. QED BY <1>1, Invariance, PTL

\* No change of a cached object is lost on its way to a worker's lookup.
THEOREM ChangesKept == Spec => []NoLostChange
  BY Invariance, PTL DEF IInv

\* The history of a key stays within K and ends with the work on the key.
THEOREM RetriesForgotten == Spec => [](RetriesBounded /\ IdleMeansForgotten)
  BY Invariance, PTL DEF IInv

-----------------------------------------------------------------------------
(* Refinement: what a step does to Due, wkey, Looked and shutdown.          *)

\* Add leaves an open queue with the key in it and loses no other.
LEMMA AddDue ==
    ASSUME NEW k \in Keys, Add(k)
    PROVE  dirty' \in {dirty, dirty \cup {k}} /\ (shutdown \/ k \in dirty')
  BY DEF Add

\* Every step of the controller is a step of KeyedWork or changes nothing in
\* it, action by action.
LEMMA StepRefines ==
    IInv /\ [Next]_vars => [Promised!Next]_<<Due, wkey, Looked, shutdown>>
  <1>. SUFFICES ASSUME IInv, [Next]_vars
                PROVE  Promised!Next \/ UNCHANGED <<Due, wkey, Looked, shutdown>>
    OBVIOUS
  <1>. USE NoKeyAssumption
  <1>1. ASSUME NEW k \in Keys, Change(k) \/ Resync(k) PROVE Promised!Raise(k)
    BY <1>1 DEF Change, Resync, Due, Looked, queueVars, workerVars, Promised!Raise
  <1>2. ASSUME NEW k \in Keys, Notify(k)
        PROVE  Promised!Drop(k) \/ UNCHANGED <<Due, wkey, Looked, shutdown>>
    <2>1. UNCHANGED <<wkey, Looked, shutdown>>
      BY <1>2 DEF Notify, workerVars, Looked
    <2>2. CASE ~shutdown
      <3>1. k \in dirty' /\ dirty' \subseteq dirty \cup {k} /\ dirty \subseteq dirty'
        BY <1>2, <2>2, AddDue DEF Notify
      <3>2. k \in notify /\ notify' = notify \ {k} /\ waiting' = waiting
        BY <1>2 DEF Notify
      <3>3. Due' = Due
        BY <3>1, <3>2 DEF Due
      <3>. QED BY <2>1, <3>3
    <2>3. CASE shutdown
      <3>1. k \in notify /\ notify' = notify \ {k} /\ UNCHANGED <<dirty, waiting>>
        BY <1>2, <2>3 DEF Notify, Add
      <3>2. CASE k \in dirty \cup waiting
        BY <2>1, <3>1, <3>2 DEF Due
      <3>3. CASE k \notin dirty \cup waiting
        BY <2>1, <2>3, <3>1, <3>3 DEF Due, Promised!Drop
      <3>. QED BY <3>2, <3>3
    <2>. QED BY <2>2, <2>3
  <1>3. ASSUME NEW k \in Keys, DeliverKey(k)
        PROVE  UNCHANGED <<Due, wkey, Looked, shutdown>>
    <2>1. /\ ~shutdown /\ k \in waiting /\ waiting' = waiting \ {k} /\ notify' = notify
          /\ UNCHANGED <<wkey, Looked, shutdown>> /\ Add(k)
      BY <1>3 DEF DeliverKey, Deliver, workerVars, eventVars, Looked
    <2>2. k \in dirty' /\ dirty' \subseteq dirty \cup {k} /\ dirty \subseteq dirty'
      BY <2>1, AddDue
    <2>. QED BY <2>1, <2>2 DEF Due
  <1>4. ASSUME NEW w \in Workers, CheckDone(w)
        PROVE  UNCHANGED <<Due, wkey, Looked, shutdown>>
    BY <1>4 DEF CheckDone, Goto, Due, Looked, queueVars, eventVars, IInv, TypeOK
  <1>5. ASSUME NEW w \in Workers, Get(w)
        PROVE  \/ UNCHANGED <<Due, wkey, Looked, shutdown>>
               \/ \E k \in Keys : Promised!Start(w, k)
    <2>1. wpc[w] = "get" /\ wkey[w] = NoKey /\ UNCHANGED notify
      BY <1>5 DEF Get, eventVars, IInv, TypeOK, Busy
    <2>2. CASE UNCHANGED queueVars /\ UNCHANGED wkey /\ Goto(w, "exit")
      BY <2>1, <2>2 DEF Goto, Due, Looked, queueVars, IInv, TypeOK
    <2>3. ASSUME NEW k \in Keys, Take(k), wkey' = [wkey EXCEPT ![w] = k], Goto(w, "lookup")
          PROVE  Promised!Start(w, k)
      <3>1. k \in dirty \ processing
        BY <2>3 DEF Take, IInv, TypeOK, Lined
      <3>2. \A v \in Workers : wkey[v] # k
        BY <3>1 DEF IInv, Held
      <3>3. Due' \in {Due, Due \ {k}} /\ k \in Due
        <4>1. dirty' = dirty \ {k} /\ waiting' = waiting
          BY <2>3 DEF Take
        <4>2. CASE k \in notify \cup waiting
          BY <2>1, <3>1, <4>1, <4>2 DEF Due
        <4>3. CASE k \notin notify \cup waiting
          BY <2>1, <3>1, <4>1, <4>3 DEF Due
        <4>. QED BY <4>2, <4>3
      <3>4. UNCHANGED <<Looked, shutdown>>
        BY <2>1, <2>3 DEF Take, Goto, Looked, IInv, TypeOK
      <3>. QED BY <2>1, <2>3, <3>2, <3>3, <3>4 DEF Promised!Start
    <2>. QED BY <1>5, <2>2, <2>3 DEF Get
  <1>6. ASSUME NEW w \in Workers, Lookup(w) PROVE Promised!Look(w)
    <2>1. wpc[w] = "lookup" /\ wkey[w] # NoKey /\ wpc' = [wpc EXCEPT ![w] = "handle"]
      BY <1>6 DEF Lookup, Goto, IInv, TypeOK, Busy
    <2>2. w \notin Looked /\ Looked' = Looked \cup {w}
      BY <2>1 DEF Looked, IInv, TypeOK
    <2>3. UNCHANGED <<Due, wkey, shutdown>>
      BY <1>6 DEF Lookup, Due, queueVars
    <2>. QED BY <2>1, <2>2, <2>3 DEF Promised!Look
  <1>7. ASSUME NEW w \in Workers, Handle(w)
        PROVE  \/ UNCHANGED <<Due, wkey, Looked, shutdown>>
               \/ \E k \in Keys : Promised!Raise(k)
    <2>1. wkey[w] \in Keys /\ wpc[w] = "handle" /\ wpc' = [wpc EXCEPT ![w] = "done"]
      BY <1>7 DEF Handle, Goto, IInv, TypeOK, Busy
    <2>2. UNCHANGED <<wkey, notify, dirty, Looked, shutdown>>
      BY <1>7, <2>1 DEF Handle, AddRateLimited, Forget, eventVars, Looked, IInv, TypeOK
    <2>3. waiting' \in {waiting, waiting \cup {wkey[w]}}
      BY <1>7 DEF Handle, AddRateLimited, Forget
    <2>4. Due' = Due \/ Due' = Due \cup {wkey[w]}
      BY <2>2, <2>3 DEF Due
    <2>. QED BY <2>1, <2>2, <2>4 DEF Promised!Raise
  <1>8. ASSUME NEW w \in Workers, Finish(w) PROVE Promised!End(w)
    <2>1. wpc[w] = "done" /\ wpc' = [wpc EXCEPT ![w] = "loop"]
      BY <1>8 DEF Finish, Goto
    <2>2. w \in Looked /\ Looked' = Looked \ {w}
      BY <2>1 DEF Looked, IInv, TypeOK
    <2>3. UNCHANGED <<Due, shutdown>>
      BY <1>8 DEF Finish, Done, eventVars, Due
    <2>. QED BY <1>8, <2>2, <2>3 DEF Finish, Promised!End
  <1>9. ASSUME ShutDown PROVE Promised!Close
    BY <1>9 DEF ShutDown, workerVars, eventVars, Due, Looked, Promised!Close
  <1>10. ASSUME Cancel \/ UNCHANGED vars PROVE UNCHANGED <<Due, wkey, Looked, shutdown>>
    BY <1>10 DEF Cancel, vars, queueVars, workerVars, eventVars, Due, Looked
  <1>. QED
    BY <1>1, <1>2, <1>3, <1>4, <1>5, <1>6, <1>7, <1>8, <1>9, <1>10
    DEF Next, Informer, Worker, Promised!Next

\* The controller implements KeyedWork, for any number of keys and workers:
\* no key is dropped or handed out twice on its way from informer to worker.
THEOREM ImplementsKeyedWork == Spec => KeysAttended
  <1>1. Init => Promised!Init
    BY DEF Init, QueueInit, Due, Looked, Promised!Init
  <1>. QED BY <1>1, StepRefines, Invariance, PTL DEF Spec, KeysAttended, Promised!Spec
=============================================================================
