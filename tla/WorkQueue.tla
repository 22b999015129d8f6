----------------------------- MODULE WorkQueue ------------------------------
(***************************************************************************)
(* client-go's rate-limiting work queue as the repository's controllers    *)
(* use it (client-go/workqueue): Add, Get, Done, AddRateLimited, Forget,   *)
(* NumRequeues and ShutDown, each one critical section of the library.     *)
(***************************************************************************)
EXTENDS Naturals, Sequences

CONSTANTS Keys

VARIABLES queue,       \* keys waiting for a worker, in order
          dirty,       \* keys that need processing
          processing,  \* keys some worker has got and not Done
          waiting,     \* keys that AddRateLimited will Add after a delay
          failures,    \* NumRequeues, by key
          shutdown     \* ShutDown was called

queueVars == <<queue, dirty, processing, waiting, failures, shutdown>>

QueueInit ==
    /\ queue = <<>>
    /\ dirty = {} /\ processing = {} /\ waiting = {}
    /\ failures = [k \in Keys |-> 0]
    /\ shutdown = FALSE

\* Mutant: a key that is being processed is not marked for another round.
AddIgnoresProcessing(k) ==
    IF shutdown \/ k \in dirty \cup processing
    THEN UNCHANGED <<queue, dirty>>
    ELSE dirty' = dirty \cup {k} /\ queue' = Append(queue, k)

\* Add; the caller says what happens to the rest.
Add(k) ==
    IF shutdown \/ k \in dirty
    THEN UNCHANGED <<queue, dirty>>
    ELSE /\ dirty' = dirty \cup {k}
         /\ queue' = IF k \in processing THEN queue ELSE Append(queue, k)

Take(k) ==
    /\ queue # <<>> /\ k = Head(queue)
    /\ queue' = Tail(queue)
    /\ processing' = processing \cup {k}
    /\ dirty' = dirty \ {k}
    /\ UNCHANGED <<waiting, failures, shutdown>>

Done(k) ==
    /\ processing' = processing \ {k}
    /\ queue' = IF k \in dirty THEN Append(queue, k) ELSE queue
    /\ UNCHANGED <<dirty, waiting, failures, shutdown>>

Forget(k) ==
    /\ failures' = [failures EXCEPT ![k] = 0]
    /\ UNCHANGED <<queue, dirty, processing, waiting, shutdown>>

\* The limiter counts first, then AddAfter returns at once on a closed queue.
AddRateLimited(k) ==
    /\ failures' = [failures EXCEPT ![k] = @ + 1]
    /\ waiting' = IF shutdown THEN waiting ELSE waiting \cup {k}
    /\ UNCHANGED <<queue, dirty, processing, shutdown>>

\* The delay of a rate-limited key is over.
Deliver(k) ==
    /\ k \in waiting /\ ~shutdown
    /\ waiting' = waiting \ {k}
    /\ Add(k)
    /\ UNCHANGED <<processing, failures, shutdown>>
=============================================================================
