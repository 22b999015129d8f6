----------------------------- MODULE KeyedWork ------------------------------
(***************************************************************************)
(* What a controller's work queue promises, whatever queues, retries and   *)
(* bookkeeping are behind it: a key that is due stays due until a worker   *)
(* starts with it, a worker looks at the object between start and end, and *)
(* nobody starts with a key that another worker has.  Only a closed        *)
(* controller drops keys.                                                  *)
(***************************************************************************)
CONSTANTS Keys, Workers, NoKey

VARIABLES due,     \* keys that a worker has to start with
          task,    \* the key each worker has
          looked,  \* workers that have looked at the object of their key
          closed   \* the controller is shut down

Init ==
    /\ due = {} /\ looked = {}
    /\ task = [w \in Workers |-> NoKey]
    /\ closed = FALSE

\* The object changed, or the last attempt failed.
Raise(k) ==
    /\ due' = due \cup {k}
    /\ UNCHANGED <<task, looked, closed>>

Drop(k) ==
    /\ closed
    /\ due' = due \ {k}
    /\ UNCHANGED <<task, looked, closed>>

\* The key may be due once more already.
Start(w, k) ==
    /\ task[w] = NoKey /\ k \in due
    /\ \A v \in Workers : task[v] # k
    /\ due' \in {due, due \ {k}}
    /\ task' = [task EXCEPT ![w] = k]
    /\ UNCHANGED <<looked, closed>>

Look(w) ==
    /\ task[w] # NoKey /\ w \notin looked
    /\ looked' = looked \cup {w}
    /\ UNCHANGED <<due, task, closed>>

End(w) ==
    /\ w \in looked
    /\ task' = [task EXCEPT ![w] = NoKey]
    /\ looked' = looked \ {w}
    /\ UNCHANGED <<due, closed>>

Close ==
    /\ closed' = TRUE
    /\ UNCHANGED <<due, task, looked>>

Next ==
    \/ Close
    \/ \E k \in Keys : Raise(k) \/ Drop(k)
    \/ \E w \in Workers : Look(w) \/ End(w) \/ \E k \in Keys : Start(w, k)

Spec == Init /\ [][Next]_<<due, task, looked, closed>>
=============================================================================
