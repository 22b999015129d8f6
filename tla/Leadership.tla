----------------------------- MODULE Leadership -----------------------------
(***************************************************************************)
(* What leader election promises its processes, whatever the lock behind   *)
(* it: the lease is granted to one process at a time, only the owner of    *)
(* the lease is made leader, and the lease is taken back, by a release or  *)
(* by the clock, only when its owner no longer leads.                      *)
(***************************************************************************)
CONSTANTS Procs, Nobody

VARIABLES owner,    \* the process whose lease is running, or Nobody
          leaders   \* the processes that act as leaders

Init == owner = Nobody /\ leaders = {}

\* The lease passes from nobody to p, never from one process to another.
Grant(p) ==
    /\ owner = Nobody /\ leaders = {}
    /\ owner' = p
    /\ UNCHANGED leaders

Elect(p) ==
    /\ owner = p /\ leaders = {}
    /\ leaders' = {p}
    /\ UNCHANGED owner

\* p stops leading, or crashes; its lease may run on.
Resign(p) ==
    /\ leaders = {p}
    /\ leaders' = {}
    /\ UNCHANGED owner

\* The lease is released or runs out.
Lapse ==
    /\ owner # Nobody /\ leaders = {}
    /\ owner' = Nobody
    /\ UNCHANGED leaders

Next == Lapse \/ \E p \in Procs : Grant(p) \/ Elect(p) \/ Resign(p)

Spec == Init /\ [][Next]_<<owner, leaders>>
=============================================================================
