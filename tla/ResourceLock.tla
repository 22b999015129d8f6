---------------------------- MODULE ResourceLock ----------------------------
(***************************************************************************)
(* The lock that the leader elector works on, resourcelock.Interface, in   *)
(* the two implementations the repository runs:                            *)
(*                                                                         *)
(*   "redis"  leader-election/redislock: a Redis key with a TTL.  Create   *)
(*            is SETNX, Update a Lua script that checks the holder.        *)
(*   "lease"  resourcelock.LeaseLock of leader-election/main.go: a Lease   *)
(*            object that never expires by itself.  Create fails if it     *)
(*            exists, Update if its resourceVersion is not the one the     *)
(*            client saw last.                                             *)
(*                                                                         *)
(* Of the LeaderElectionRecord only the holder and the lease duration      *)
(* matter.  ttl is the time left of the duration written last; Redis acts  *)
(* on it, for a Lease it is a history variable that nobody reads.          *)
(***************************************************************************)
EXTENDS Naturals

CONSTANTS Procs,     \* the competing processes, named by their identity
          Free,      \* the empty holderIdentity, written by release()
          Absent     \* no key, no Lease object

ASSUME LockAssumption ==
    /\ Free \notin Procs /\ Absent \notin Procs /\ Free # Absent

VARIABLES lockKind,  \* which of the two it is, for good
          holder,  \* holderIdentity of the stored record, Free or Absent
          ttl,     \* time left of the stored record's duration
          cas,     \* cas[p]: p's LeaseLock has the current resourceVersion
          same     \* same[p]: nothing was written since p's last Get

LockKinds == {"redis", "lease"}

lockVars == <<lockKind, holder, ttl, cas, same>>

LockInit ==
    /\ lockKind \in LockKinds
    /\ holder = Absent
    /\ ttl = 0
    /\ cas = [p \in Procs |-> FALSE]
    /\ same = [p \in Procs |-> FALSE]

\* Mutant: the TTL in milliseconds where seconds are expected.
WriteWrongUnit(p, h, d) ==
    /\ holder' = h
    /\ ttl' = 1000 * d
    /\ cas' = [q \in Procs |-> q = p]
    /\ same' = [q \in Procs |-> FALSE]
    /\ UNCHANGED lockKind

\* A record with holder h and duration d replaces what was stored.
Write(p, h, d) ==
    /\ holder' = h
    /\ ttl' = d
    /\ cas' = [q \in Procs |-> q = p]
    /\ same' = [q \in Procs |-> FALSE]
    /\ UNCHANGED lockKind

\* Get, when there is something to get.
Read(p) ==
    /\ cas' = [cas EXCEPT ![p] = TRUE]
    /\ same' = [same EXCEPT ![p] = TRUE]
    /\ UNCHANGED <<lockKind, holder, ttl>>

CanCreate == holder = Absent

\* "not found", "not holder" and conflict are the ways an Update fails.
CanUpdate(p) ==
    /\ holder # Absent
    /\ CASE lockKind = "redis" -> holder \in {p, Free}
         [] lockKind = "lease" -> cas[p]

\* A unit of time passes: Redis drops the key when its TTL is over.
LockTick ==
    /\ ttl' = IF ttl = 0 THEN 0 ELSE ttl - 1
    /\ holder' = IF lockKind = "redis" /\ ttl = 1 THEN Absent ELSE holder
    /\ UNCHANGED <<lockKind, cas, same>>
=============================================================================
