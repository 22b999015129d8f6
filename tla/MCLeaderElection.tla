-------------------------- MODULE MCLeaderElection --------------------------
(***************************************************************************)
(* Model-checking instance of LeaderElection: processes are model values.  *)
(***************************************************************************)
EXTENDS LeaderElection

\* The program of main.go alone: the lock is a Lease.
LeaseSpec == Init /\ lockKind = "lease" /\ [][Next]_vars
=============================================================================
