-------------------------- MODULE QueueController ---------------------------
(***************************************************************************)
(* The controllers of client-go/workqueue/main.go and of the official      *)
(* example next to it: an informer pushes keys of changed objects into a   *)
(* WorkQueue, workers take keys, look the object up in the informer's      *)
(* cache, and forget the key or put it back.                               *)
(***************************************************************************)
EXTENDS WorkQueue

CONSTANTS Workers,
          Chronic,      \* workers whose business logic always fails
          MissIsError,  \* a key missing in the cache is an error
          MaxRetries,   \* K
          MaxChanges    \* how many changes and resyncs the informer sees

ASSUME ControllerAssumption ==
    /\ Chronic \subseteq Workers
    /\ MissIsError \in BOOLEAN
    /\ MaxRetries \in Nat /\ MaxChanges \in Nat

VARIABLES cached,    \* keys in the informer's cache
          notify,    \* keys with an event not yet handed to the handlers
          changed,   \* keys that changed after their last lookup
          cancelled, \* the context is cancelled
          wpc,       \* where each worker is
          wkey,      \* the key each worker has got
          werr,      \* err of each worker
          changes

workerVars == <<wpc, wkey, werr>>
eventVars  == <<cached, notify, changed, changes>>
vars == <<queueVars, workerVars, eventVars, cancelled>>

NoKey == "no key"
ASSUME NoKeyAssumption == NoKey \notin Keys

\* w is between Get and Done.
Busy(w) == wpc[w] \in {"lookup", "handle", "done"}

\* A busy worker has a key: key.(string) does not panic.
TypeOK ==
    /\ queue \in Seq(Keys)
    /\ dirty \subseteq Keys /\ processing \subseteq Keys /\ waiting \subseteq Keys
    /\ failures \in [Keys -> Nat]
    /\ shutdown \in BOOLEAN /\ cancelled \in BOOLEAN
    /\ cached \subseteq Keys /\ notify \subseteq Keys /\ changed \subseteq Keys
    /\ wpc \in [Workers -> {"loop", "get", "lookup", "handle", "done", "exit"}]
    /\ wkey \in [Workers -> Keys \cup {NoKey}]
    /\ werr \in [Workers -> BOOLEAN]
    /\ \A w \in Workers : Busy(w) <=> wkey[w] # NoKey
    /\ changes \in 0 .. MaxChanges

Init ==
    /\ QueueInit
    /\ cached = {} /\ notify = {} /\ changed = {}
    /\ cancelled = FALSE
    /\ wpc = [w \in Workers |-> "loop"]
    /\ wkey = [w \in Workers |-> NoKey]
    /\ werr = [w \in Workers |-> FALSE]
    /\ changes = 0

Goto(w, l) == wpc' = [wpc EXCEPT ![w] = l]

-----------------------------------------------------------------------------
(* The informer.                                                           *)

\* The cache takes an addition, an update or a deletion; the event is still
\* on its way to the handlers.
Change(k) ==
    /\ changes < MaxChanges /\ changes' = changes + 1
    /\ cached' \in {cached \cup {k}, cached \ {k}}
    /\ k \in cached \cup cached'
    /\ notify' = notify \cup {k}
    /\ changed' = changed \cup {k}
    /\ UNCHANGED <<queueVars, workerVars, cancelled>>

\* The resync period repeats an UPDATE for an object that is there.
Resync(k) ==
    /\ k \in cached
    /\ changes < MaxChanges /\ changes' = changes + 1
    /\ notify' = notify \cup {k}
    /\ UNCHANGED <<queueVars, workerVars, cached, changed, cancelled>>

\* AddFunc, UpdateFunc and DeleteFunc all add the key.
Notify(k) ==
    /\ k \in notify
    /\ notify' = notify \ {k}
    /\ Add(k)
    /\ UNCHANGED <<processing, waiting, failures, shutdown, workerVars, cached,
                   changed, changes, cancelled>>

DeliverKey(k) ==
    /\ Deliver(k)
    /\ UNCHANGED <<workerVars, eventVars, cancelled>>

-----------------------------------------------------------------------------
(* A worker.                                                               *)

\* Someone said we're done?
CheckDone(w) ==
    /\ wpc[w] = "loop"
    /\ Goto(w, IF cancelled THEN "exit" ELSE "get")
    /\ UNCHANGED <<queueVars, wkey, werr, eventVars, cancelled>>

\* Mutant: queue.Done(key) without the defer, so it runs at once.
GetDoneAtOnce(w) ==
    /\ wpc[w] = "get"
    /\ \/ /\ queue # <<>>
          /\ queue' = Tail(queue) /\ dirty' = dirty \ {Head(queue)}
          /\ wkey' = [wkey EXCEPT ![w] = Head(queue)]
          /\ Goto(w, "lookup")
          /\ UNCHANGED <<processing, waiting, failures, shutdown>>
       \/ /\ queue = <<>> /\ shutdown
          /\ Goto(w, "exit")
          /\ UNCHANGED <<queueVars, wkey>>
    /\ UNCHANGED <<werr, eventVars, cancelled>>

\* queue.Get, which blocks as long as the queue is empty and open.
Get(w) ==
    /\ wpc[w] = "get"
    /\ \/ \E k \in Keys : /\ Take(k)
                          /\ wkey' = [wkey EXCEPT ![w] = k]
                          /\ Goto(w, "lookup")
       \/ /\ queue = <<>> /\ shutdown
          /\ Goto(w, "exit")
          /\ UNCHANGED <<queueVars, wkey>>
    /\ UNCHANGED <<werr, eventVars, cancelled>>

\* Lister().Get and the business logic.
Lookup(w) ==
    /\ wpc[w] = "lookup"
    /\ LET k == wkey[w] IN
         /\ werr' = [werr EXCEPT ![w] = IF k \in cached THEN w \in Chronic
                                                       ELSE MissIsError]
         /\ changed' = changed \ {k}
    /\ Goto(w, "handle")
    /\ UNCHANGED <<queueVars, wkey, cached, notify, changes, cancelled>>

\* We retry no more than K times.
GiveUp(k) == failures[k] >= MaxRetries

\* Mutant: success does not clear the history of the key.
HandleKeepsHistory(w) ==
    /\ wpc[w] = "handle"
    /\ LET k == wkey[w] IN
         IF werr[w] /\ ~GiveUp(k) THEN AddRateLimited(k)
         ELSE IF werr[w] THEN Forget(k) ELSE UNCHANGED queueVars
    /\ Goto(w, "done")
    /\ UNCHANGED <<wkey, werr, eventVars, cancelled>>

\* Mutant: Forget also before a retry, so that the count never gets to K.
HandleRetriesFresh(w) ==
    /\ wpc[w] = "handle"
    /\ LET k == wkey[w] IN
         IF werr[w] /\ ~GiveUp(k)
         THEN /\ failures' = [failures EXCEPT ![k] = 1]
              /\ waiting' = IF shutdown THEN waiting ELSE waiting \cup {k}
              /\ UNCHANGED <<queue, dirty, processing, shutdown>>
         ELSE Forget(k)
    /\ Goto(w, "done")
    /\ UNCHANGED <<wkey, werr, eventVars, cancelled>>

\* Forget on success and when giving up, else put the key back.
Handle(w) ==
    /\ wpc[w] = "handle"
    /\ LET k == wkey[w] IN
         IF werr[w] /\ ~GiveUp(k) THEN AddRateLimited(k) ELSE Forget(k)
    /\ Goto(w, "done")
    /\ UNCHANGED <<wkey, werr, eventVars, cancelled>>

\* Mutant: no deferred queue.Done.
FinishWithoutDone(w) ==
    /\ wpc[w] = "done"
    /\ wkey' = [wkey EXCEPT ![w] = NoKey]
    /\ werr' = [werr EXCEPT ![w] = FALSE]
    /\ Goto(w, "loop")
    /\ UNCHANGED <<queueVars, eventVars, cancelled>>

\* defer queue.Done(key)
Finish(w) ==
    /\ wpc[w] = "done"
    /\ Done(wkey[w])
    /\ wkey' = [wkey EXCEPT ![w] = NoKey]
    /\ werr' = [werr EXCEPT ![w] = FALSE]
    /\ Goto(w, "loop")
    /\ UNCHANGED <<eventVars, cancelled>>

-----------------------------------------------------------------------------
(* The end of main: ShutDown, then cancel.                                 *)

ShutDown ==
    /\ ~shutdown
    /\ shutdown' = TRUE
    /\ UNCHANGED <<queue, dirty, processing, waiting, failures, workerVars,
                   eventVars, cancelled>>

\* Mutant: cancel does not wait for ShutDown.
CancelAlone ==
    /\ ~cancelled
    /\ cancelled' = TRUE
    /\ UNCHANGED <<queueVars, workerVars, eventVars>>

Cancel ==
    /\ shutdown /\ ~cancelled
    /\ cancelled' = TRUE
    /\ UNCHANGED <<queueVars, workerVars, eventVars>>

Informer ==
    \E k \in Keys : Change(k) \/ Resync(k)

Worker(w) == CheckDone(w) \/ Get(w) \/ Lookup(w) \/ Handle(w) \/ Finish(w)

Next ==
    \/ Informer
    \/ \E k \in Keys : Notify(k) \/ DeliverKey(k)
    \/ \E w \in Workers : Worker(w)
    \/ ShutDown \/ Cancel

Spec == Init /\ [][Next]_vars

\* Goroutines run, delays end, and main gets to its cancel after ShutDown.
Fairness ==
    /\ \A k \in Keys : WF_vars(Notify(k)) /\ WF_vars(DeliverKey(k))
    /\ \A w \in Workers : WF_vars(Worker(w))
    /\ WF_vars(Cancel)

FairSpec == Spec /\ Fairness

-----------------------------------------------------------------------------
(* Properties.                                                             *)

\* Two workers never process the same key: what Done is deferred for.
NeverInParallel ==
    \A v, w \in Workers : wkey[v] = wkey[w] /\ wkey[v] # NoKey => v = w

\* The abstract view of the controller: a key is due while its event, the key
\* itself or its retry is on the way, and looked at from Lookup on.
Due    == notify \cup dirty \cup waiting
Looked == {w \in Workers : wpc[w] \in {"handle", "done"}}

Promised == INSTANCE KeyedWork WITH due <- Due, task <- wkey, looked <- Looked,
                                    closed <- shutdown

\* Informer, handlers, queue and delays together keep the promises of
\* KeyedWork: on its way from one to the next a key is never dropped while the
\* queue is open, whoever has it, and Get hands out no key before its Done.
KeysAttended == Promised!Spec

\* A change is never lost between cache, handler, queue and worker: until
\* somebody looks the key up again, its event is on the way, it is queued,
\* or a worker that has it is about to look it up.
NoLostChange ==
    \A k \in changed :
        \/ shutdown
        \/ k \in notify \cup dirty
        \/ \E w \in Workers : wkey[w] = k /\ wpc[w] = "lookup"

\* A key is put back at most MaxRetries times in a row, whoever processes it.
RetriesBounded == \A k \in Keys : failures[k] <= MaxRetries

\* No history outlives the work: a key nobody has, queued or waiting has no
\* failures left to slow its next event down.
IdleMeansForgotten ==
    \A k \in Keys :
        failures[k] > 0 => shutdown \/ k \in dirty \cup processing \cup waiting

\* Every change is looked at by some worker after it happened.
ChangesSeen == \A k \in Keys : k \in changed ~> (k \notin changed \/ shutdown)

\* Failing keys, deleted objects included, do not go round for ever.
RetriesEnd == <>[](shutdown \/ dirty \cup processing \cup waiting = {})

\* After ShutDown and cancel every worker exits, those blocked in Get too.
ShutDownCompletes == cancelled ~> \A w \in Workers : wpc[w] = "exit"
=============================================================================
