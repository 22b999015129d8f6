------------------------- MODULE MCQueueController --------------------------
(***************************************************************************)
(* Model-checking instances of QueueController: the workers of main.go,    *)
(* number 1 always failing.                                                *)
(***************************************************************************)
EXTENDS QueueController

\* client-go/workqueue/README.md on an Add of a key that a worker has: it is
\* "ignored, already being processed".  The queue, and with it the work that
\* is due, stays as it is.
AddInProcessingIgnored ==
    [][\A k \in Keys : Notify(k) /\ k \in processing => UNCHANGED <<queue, dirty>>]_vars
=============================================================================
