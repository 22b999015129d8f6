---------------------------- MODULE MCPodManager ----------------------------
(***************************************************************************)
(* Model-checking instance of PodManager.  Each behaviour has one kind of  *)
(* trouble, chosen at the start, and any number of it that the constants   *)
(* allow; the proofs take them all together.                               *)
(***************************************************************************)
EXTENDS PodManager

\* Another client writes one condition, not of the type the controller sets.
OneSeed == {"Scheduled"}

VARIABLE trouble

Troubles == {"re-creation", "eviction", "scale-down", "failure"}

Only(t, happens) == happens => trouble = t

\* Failures come with another writer of the status: both meet UpdateStatus.
OneTrouble ==
    /\ Only("re-creation", lastUid' > 1)
    /\ Only("eviction", evictions' > 0)
    /\ Only("scale-down", pm'.uid = pm.uid /\ pm'.replicas < pm.replicas)
    /\ Only("failure", faults' > 0 \/ pm'.status.conds # <<>>)
    /\ UNCHANGED trouble

LiveInit == Init /\ trouble \in Troubles

LiveSpec ==
    /\ LiveInit
    /\ [][Next /\ OneTrouble]_<<vars, trouble>>
    /\ Fairness

\* A stale podList never makes the create loop overshoot: as long as nobody
\* lowers spec.replicas the Pods of the object are below it, and as long as
\* nobody takes a Pod away either, they are there without a gap, which is what
\* the index of the next Create relies on.
NoSurplus ==
    pm.uid # 0 /\ ~pm.del =>
        /\ trouble # "scale-down" => BelowReplicas
        /\ trouble \notin {"scale-down", "eviction"} => ~Gap(pm.uid)
=============================================================================
