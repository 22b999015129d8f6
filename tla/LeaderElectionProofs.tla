------------------------ MODULE LeaderElectionProofs ------------------------
(***************************************************************************)
(* Mutual exclusion of LeaderElection, for any number of processes, both   *)
(* kinds of lock and every timing that TimingAssumption allows.            *)
(***************************************************************************)
EXTENDS LeaderElection, TLAPS

InCall(p) == stage[p] # "rest"

\* The heart of it: how long the lease outlives the leader's last chance to
\* notice that it failed to renew.
Margin(p) ==
    mode[p] = "leader" =>
        /\ holder = p /\ obs[p] = p /\ ttl > 0
        /\ left[p] > 0 => ttl >= left[p] + MaxDelay
        /\ left[p] = 0 /\ InCall(p) => wait[p] >= 1 /\ ttl + wait[p] >= MaxDelay + 1

\* A write that was executed and not yet answered is still in force.
Pending(p) ==
    reply[p] = "ok" =>
        /\ stage[p] \in Writes /\ ~same[p]
        /\ stage[p] # "release" => holder = p /\ ttl + wait[p] >= Lease

\* Which process is where.
Places(p) ==
    /\ mode[p] \in {"cancelled", "releasing"} <=> stage[p] = "release"
    /\ stage[p] = "release" => obs[p] = p
    /\ mode[p] = "stopped" => stage[p] = "rest"
    /\ stage[p] = "fast" => obs[p] = p
    /\ stage[p] = "rest" => reply[p] = "none"

\* What a LeaseLock client knows when its resourceVersion is current, and
\* when the record is the one it read last: a lease that is over for the
\* observer is over.
Knows(p) ==
    lockKind = "lease" /\ mode[p] # "stopped" =>
        /\ cas[p] /\ reply[p] # "ok" => obs[p] = holder
        /\ same[p] => obs[p] = holder /\ obsLeft[p] >= ttl
        /\ stage[p] = "slow" /\ reply[p] = "none" /\ cas[p] =>
              holder \in {p, Free} \/ ttl = 0

Core ==
    /\ holder = Free => ttl <= 1
    /\ \A p \in Procs : Margin(p) /\ Pending(p) /\ Places(p) /\ Knows(p)

IInv == TypeOK /\ Core

-----------------------------------------------------------------------------
(* Typing.                                                                 *)

\* Every action keeps the types.
LEMMA TypeStep ==
    ASSUME TypeOK, [Next]_vars
    PROVE  TypeOK'
<1> USE LockAssumption, TimingAssumption
    DEF TypeOK, Modes, Writes, Stages, Holders, Window, lockVars, LockKinds
<1>1. ASSUME NEW p \in Procs, Start(p) PROVE TypeOK'
  BY <1>1 DEF Start, Observe
<1>2. ASSUME NEW p \in Procs, Try(p) PROVE TypeOK'
  BY <1>2 DEF Try, Call
<1>3. ASSUME NEW p \in Procs, Exec(p) PROVE TypeOK'
  <2>1. ASSUME NEW h \in Holders, NEW d \in 0 .. Lease, Write(p, h, d)
        PROVE  /\ lockKind' \in LockKinds /\ holder' \in Holders /\ ttl' \in 0 .. Lease
               /\ cas' \in [Procs -> BOOLEAN] /\ same' \in [Procs -> BOOLEAN]
    BY <2>1 DEF Write
  <2>2. CASE reply' = [reply EXCEPT ![p] = "ok"]
    <3>1. Write(p, Free, 1) \/ Write(p, p, Lease) \/ UNCHANGED lockVars
      BY <1>3 DEF Exec
    <3>2. 1 \in 0 .. Lease /\ Lease \in 0 .. Lease /\ Free \in Holders /\ p \in Holders
      OBVIOUS
    <3>3. /\ lockKind' \in LockKinds /\ holder' \in Holders /\ ttl' \in 0 .. Lease
          /\ cas' \in [Procs -> BOOLEAN] /\ same' \in [Procs -> BOOLEAN]
      BY <2>1, <3>1, <3>2
    <3> QED
      BY <1>3, <2>2, <3>3 DEF Exec
  <2>3. CASE reply' = [reply EXCEPT ![p] = "err"] /\ UNCHANGED lockVars
    BY <1>3, <2>3 DEF Exec
  <2> QED
    BY <1>3, <2>2, <2>3 DEF Exec
<1>4. ASSUME NEW p \in Procs, Won(p) PROVE TypeOK'
  BY <1>4 DEF Won, Observe, Call
<1>5. ASSUME NEW p \in Procs, Rejected(p) PROVE TypeOK'
  BY <1>5 DEF Rejected, Failed, Proceed, Call
<1>6. ASSUME NEW p \in Procs, Get(p) PROVE TypeOK'
  <2>1. /\ lockKind' \in LockKinds /\ holder' \in Holders /\ ttl' \in 0 .. Lease
        /\ cas' \in [Procs -> BOOLEAN] /\ same' \in [Procs -> BOOLEAN]
    BY <1>6 DEF Get, Read
  <2>2. obs' \in [Procs -> Holders] /\ obsLeft' \in [Procs -> 0 .. Lease]
    BY <1>6 DEF Get, Observe
  <2>3. \E st \in Stages : Call(p, st)
    BY <1>6 DEF Get, Proceed
  <2>4. /\ stage' \in [Procs -> Stages]
        /\ reply' \in [Procs -> {"none", "ok", "err"}]
        /\ wait' \in [Procs -> 0 .. MaxDelay]
    BY <2>3 DEF Call
  <2> QED
    BY <1>6, <2>1, <2>2, <2>4 DEF Get
<1>7. ASSUME NEW p \in Procs, GiveUp(p) PROVE TypeOK'
  BY <1>7 DEF GiveUp, Call
<1>8. ASSUME NEW p \in Procs, Released(p) PROVE TypeOK'
  BY <1>8 DEF Released, Observe, Call
<1>9. ASSUME NEW p \in Procs, LoopEnds(p) PROVE TypeOK'
  BY <1>9 DEF LoopEnds
<1>10. ASSUME NEW p \in Procs, Cancel(p) PROVE TypeOK'
  BY <1>10 DEF Cancel, Call
<1>11. ASSUME NEW p \in Procs, Lost(p) PROVE TypeOK'
  <2>1. cas' \in [Procs -> BOOLEAN]
    BY <1>11 DEF Lost
  <2>2. \E st \in Stages : Call(p, st)
    BY <1>11 DEF Lost, Failed, Proceed
  <2>3. /\ stage' \in [Procs -> Stages]
        /\ reply' \in [Procs -> {"none", "ok", "err"}]
        /\ wait' \in [Procs -> 0 .. MaxDelay]
    BY <2>2 DEF Call
  <2>4. mode' \in [Procs -> Modes]
    BY <1>11 DEF Lost
  <2> QED
    BY <1>11, <2>1, <2>3, <2>4 DEF Lost
<1>12. ASSUME NEW p \in Procs, Crash(p) PROVE TypeOK'
  BY <1>12 DEF Crash, Call
<1>13. ASSUME Tick PROVE TypeOK'
  <2>1. holder' \in Holders /\ ttl' \in 0 .. Lease
    BY <1>13 DEF Tick, LockTick
  <2>2. wait' \in [Procs -> 0 .. MaxDelay]
    BY <1>13 DEF Tick
  <2>3. left' \in [Procs -> 0 .. Window] /\ obsLeft' \in [Procs -> 0 .. Lease]
    BY <1>13 DEF Tick, Less
  <2> QED
    BY <1>13, <2>1, <2>2, <2>3 DEF Tick, LockTick
<1>14. ASSUME UNCHANGED vars PROVE TypeOK'
  BY <1>14 DEF vars, procVars
<1> QED
  BY <1>1, <1>2, <1>3, <1>4, <1>5, <1>6, <1>7, <1>8, <1>9, <1>10, <1>11, <1>12,
     <1>13, <1>14 DEF Next, Step, Fault, Terminated, TimedOut

(* The inductive step.                                                     *)

\* No Update of p is accepted while the lease of another process runs.
LEMMA OwnerUndisturbed ==
    ASSUME IInv, NEW p \in Procs, NEW q \in Procs, q # p, holder = q, ttl > 0,
           stage[p] \in {"fast", "slow", "release"}, reply[p] = "none", CanUpdate(p)
    PROVE  FALSE
<1>1. lockKind \in LockKinds /\ ttl \in Nat /\ p # Free /\ q # Free
  BY LockAssumption, TimingAssumption DEF IInv, TypeOK
<1>2. Places(p) /\ Knows(p)
  BY DEF IInv, Core
<1>3. CASE lockKind = "redis"
  BY <1>1, <1>3 DEF CanUpdate
<1>4. CASE lockKind = "lease"
  <2>1. cas[p] /\ mode[p] # "stopped"
    BY <1>2, <1>4 DEF CanUpdate, Places
  <2>2. obs[p] = q /\ (stage[p] = "slow" => holder \in {p, Free} \/ ttl = 0)
    BY <1>2, <1>4, <2>1 DEF Knows
  <2>3. stage[p] # "slow" => obs[p] = p
    BY <1>2 DEF Places
  <2> QED
    BY <1>1, <2>2, <2>3
<1> QED
  BY <1>1, <1>3, <1>4 DEF LockKinds

\* Every action keeps the margin between lease and leadership.
LEMMA CoreStep ==
    ASSUME IInv, TypeOK', [Next]_vars
    PROVE  Core'
<1> USE LockAssumption, TimingAssumption
    DEF IInv, Core, TypeOK, Modes, Writes, Stages, Holders, Window, lockVars, LockKinds,
        Margin, Pending, Places, Knows, InCall
<1>1. ASSUME NEW p \in Procs, Start(p) PROVE Core'
  BY <1>1 DEF Start, Observe
<1>2. ASSUME NEW p \in Procs, Try(p) PROVE Core'
  BY <1>2 DEF Try, IsLeader, Call
<1>3. ASSUME NEW p \in Procs, Exec(p) PROVE Core'
  <2>1. CASE UNCHANGED lockVars /\ reply' = [reply EXCEPT ![p] = "err"]
    BY <1>3, <2>1 DEF Exec
  <2>2. CASE /\ IF stage[p] = "create" THEN CanCreate ELSE CanUpdate(p)
             /\ reply' = [reply EXCEPT ![p] = "ok"]
             /\ IF stage[p] = "release" THEN Write(p, Free, 1) ELSE Write(p, p, Lease)
    <3>1. \A q \in Procs : q # p => ~(holder = q /\ ttl > 0)
      <4> SUFFICES ASSUME NEW q \in Procs, q # p, holder = q, ttl > 0
                   PROVE  FALSE
        OBVIOUS
      <4>1. stage[p] \in {"fast", "slow", "release"} /\ reply[p] = "none" /\ CanUpdate(p)
        BY <1>3, <2>2 DEF Exec, CanCreate
      <4> QED
        BY <4>1, OwnerUndisturbed
    <3>2. /\ stage[p] \in Writes /\ reply[p] = "none"
          /\ UNCHANGED <<mode, stage, wait, left, obs, obsLeft>>
      BY <1>3 DEF Exec
    <3>3. holder' = Free => ttl' <= 1
      BY <2>2 DEF Write
    <3>4. ASSUME NEW q \in Procs PROVE Margin(q)'
      <4>1. CASE q = p
        BY <2>2, <3>2, <4>1 DEF Write
      <4>2. CASE q # p
        BY <3>1, <3>2, <4>2
      <4> QED
        BY <4>1, <4>2
    <3>5. ASSUME NEW q \in Procs PROVE Pending(q)'
      <4>1. CASE q = p
        BY <2>2, <3>2, <4>1 DEF Write
      <4>2. CASE q # p
        BY <2>2, <3>1, <3>2, <4>2 DEF Write
      <4> QED
        BY <4>1, <4>2
    <3>6. ASSUME NEW q \in Procs PROVE Places(q)'
      BY <2>2, <3>2
    <3>7. ASSUME NEW q \in Procs PROVE Knows(q)'
      BY <2>2, <3>2 DEF Write
    <3> QED
      BY <3>3, <3>4, <3>5, <3>6, <3>7
  <2> QED
    BY <1>3, <2>1, <2>2 DEF Exec
<1>4. ASSUME NEW p \in Procs, Won(p) PROVE Core'
  BY <1>4 DEF Won, Observe, Call
<1>5. ASSUME NEW p \in Procs, Rejected(p) PROVE Core'
  BY <1>5 DEF Rejected, Failed, Proceed, Call
<1>6. ASSUME NEW p \in Procs, Get(p) PROVE Core'
  BY <1>6 DEF Get, Read, Observe, Proceed, Call
<1>7. ASSUME NEW p \in Procs, GiveUp(p) PROVE Core'
  BY <1>7 DEF GiveUp, Call
<1>8. ASSUME NEW p \in Procs, Released(p) PROVE Core'
  BY <1>8 DEF Released, Observe, Call
<1>9. ASSUME NEW p \in Procs, LoopEnds(p) PROVE Core'
  BY <1>9 DEF LoopEnds
<1>10. ASSUME NEW p \in Procs, Cancel(p) PROVE Core'
  BY <1>10 DEF Cancel, Call
<1>11. ASSUME NEW p \in Procs, Lost(p) PROVE Core'
  BY <1>11 DEF Lost, Failed, Proceed, Call
<1>12. ASSUME NEW p \in Procs, Crash(p) PROVE Core'
  BY <1>12 DEF Crash, Call
<1>13. ASSUME Tick PROVE Core'
  BY <1>13 DEF Tick, LockTick, Less
<1>14. ASSUME UNCHANGED vars PROVE Core'
  BY <1>14 DEF vars, procVars
<1> QED
  BY <1>1, <1>2, <1>3, <1>4, <1>5, <1>6, <1>7, <1>8, <1>9, <1>10, <1>11, <1>12,
     <1>13, <1>14 DEF Next, Step, Fault, Terminated, TimedOut

-----------------------------------------------------------------------------
(* The theorems.                                                           *)

\* IInv is inductive.
LEMMA Invariance == Spec => []IInv
<1>1. Init => IInv
  <2> SUFFICES ASSUME Init PROVE IInv
    OBVIOUS
  <2>1. TypeOK
    BY TimingAssumption DEF Init, LockInit, TypeOK, Modes, Stages, Holders, Window, LockKinds
  <2>2. Core
    BY LockAssumption DEF Init, LockInit, Core, Margin, Pending, Places, Knows, InCall
  <2> QED
    BY <2>1, <2>2 DEF IInv
<1>2. IInv /\ [Next]_vars => IInv'
  <2> SUFFICES ASSUME IInv, [Next]_vars PROVE IInv'
    OBVIOUS
  <2>1. TypeOK'
    BY TypeStep DEF IInv
  <2> QED
    BY <2>1, CoreStep DEF IInv
<1> QED
  BY <1>1, <1>2, PTL DEF Spec

\* The variables keep their types; timers stay within their bounds.
THEOREM TypeCorrect == Spec => []TypeOK
<1>1. IInv => TypeOK
  BY DEF IInv
<1> QED
  BY Invariance, <1>1, PTL

\* With LeaseDuration >= RenewDeadline + RetryPeriod + 2 * MaxDelay the lease
\* of the RedisLock and of the LeaseLock outlives renew.
THEOREM LeaderHolds == Spec => []LeaderHoldsLock
<1>1. IInv => LeaderHoldsLock
  BY DEF IInv, Core, Margin, LeaderHoldsLock
<1> QED
  BY Invariance, <1>1, PTL

\* Leader election is mutual exclusion, for any number of processes.
THEOREM MutualExclusion == Spec => []AtMostOneLeader
<1>1. IInv => AtMostOneLeader
  BY DEF IInv, Core, Margin, AtMostOneLeader
<1> QED
  BY Invariance, <1>1, PTL

-----------------------------------------------------------------------------
(* Refinement: LeaderElection implements Leadership.                       *)

\* Who leads, and whose lease runs.
Led ==
    /\ Leaders = {} \/ (Owner \in Procs /\ Leaders = {Owner})
    /\ \A p \in Procs : mode[p] = "leader" => Owner = p /\ Leaders = {p}
    /\ Owner \in Procs \cup {Absent}

\* The inductive invariant says that the owner leads, or nobody does.
LEMMA LeadersOwn == IInv => Led
<1> SUFFICES ASSUME IInv PROVE Led
  OBVIOUS
<1>1. \A p \in Procs : mode[p] = "leader" => holder = p /\ ttl > 0
  BY DEF IInv, Core, Margin
<1>2. \A p \in Procs : mode[p] = "leader" => Owner = p
  BY <1>1 DEF Owner
<1>3. \A p \in Procs : mode[p] = "leader" => Leaders = {p}
  BY <1>1 DEF Leaders
<1>4. Owner \in Procs \cup {Absent}
  BY DEF Owner
<1>5. Leaders = {} \/ \E p \in Procs : mode[p] = "leader"
  BY DEF Leaders
<1> QED
  BY <1>2, <1>3, <1>4, <1>5 DEF Led

\* Only p's mode changes, and not to leader: its resignation, or nothing.
LEMMA ModeDown ==
    ASSUME IInv, NEW p \in Procs, NEW m \in Modes, m # "leader",
           mode' = [mode EXCEPT ![p] = m], Owner' = Owner
    PROVE  [Promised!Next]_<<Owner, Leaders>>
<1>0. mode \in [Procs -> Modes]
  BY DEF IInv, TypeOK
<1>1. Leaders' = Leaders \ {p}
  BY <1>0 DEF Leaders
<1>2. CASE mode[p] = "leader"
  <2>1. Leaders = {p} /\ Leaders' = {}
    BY <1>1, <1>2, LeadersOwn DEF Led
  <2> QED
    BY <2>1 DEF Promised!Next, Promised!Resign
<1>3. CASE mode[p] # "leader"
  <2>1. Leaders' = Leaders
    BY <1>1, <1>3 DEF Leaders
  <2> QED
    BY <2>1
<1> QED
  BY <1>2, <1>3

\* Every step of the election is a step of Leadership, or none.
LEMMA StepRefines ==
    ASSUME IInv, IInv', [Next]_vars
    PROVE  [Promised!Next]_<<Owner, Leaders>>
<1> USE LockAssumption, TimingAssumption
<1>t. /\ mode \in [Procs -> Modes] /\ holder \in Holders /\ ttl \in Nat
      /\ ttl' \in Nat
  BY DEF IInv, TypeOK
<1>l. Led
  BY LeadersOwn
<1>m. Led'
  <2>1. IInv' => Led'
    BY LeadersOwn, PTL
  <2> QED
    BY <2>1
<1>1. ASSUME NEW p \in Procs, Start(p) PROVE [Promised!Next]_<<Owner, Leaders>>
  <2>1. Owner' = Owner
    BY <1>1 DEF Start, Owner
  <2> QED
    BY <1>1, <2>1, ModeDown DEF Start, Modes
<1>2. ASSUME UNCHANGED <<holder, ttl, mode>> PROVE [Promised!Next]_<<Owner, Leaders>>
  BY <1>2 DEF Owner, Leaders
<1>3. ASSUME NEW p \in Procs, Exec(p) PROVE [Promised!Next]_<<Owner, Leaders>>
  <2>1. Leaders' = Leaders
    BY <1>3 DEF Exec, Leaders
  <2>2. CASE stage[p] # "release" /\ Write(p, p, Lease)
    <3>1. Owner' = p
      BY <2>2 DEF Write, Owner
    <3>2. CASE Owner = Absent
      BY <2>1, <3>1, <3>2, <1>l DEF Led, Promised!Next, Promised!Grant
    <3>3. CASE Owner = p
      BY <2>1, <3>1, <3>3
    <3>4. CASE Owner \in Procs \ {p}
      <4>1. holder = Owner /\ ttl > 0
        BY <3>4 DEF Owner
      <4>2. reply[p] = "none" /\ stage[p] \in {"fast", "slow"} /\ CanUpdate(p)
        BY <1>3, <2>2, <3>4, <4>1 DEF Exec, Writes, CanCreate, Write, lockVars
      <4> QED
        BY <3>4, <4>1, <4>2, OwnerUndisturbed DEF IInv
    <3> QED
      BY <1>l, <3>2, <3>3, <3>4 DEF Led
  <2>3. CASE stage[p] = "release" /\ Write(p, Free, 1)
    <3>1. Owner' = Absent
      BY <2>3 DEF Write, Owner
    <3>2. Leaders' = {}
      BY <1>m, <2>1, <3>1 DEF Led
    <3> QED
      BY <2>1, <3>1, <3>2, <1>l DEF Led, Promised!Next, Promised!Lapse
  <2>4. CASE UNCHANGED lockVars
    BY <1>2, <1>3, <2>4 DEF Exec, lockVars
  <2> QED
    BY <1>3, <2>2, <2>3, <2>4 DEF Exec
<1>4. ASSUME NEW p \in Procs, Won(p) PROVE [Promised!Next]_<<Owner, Leaders>>
  <2>1. Owner' = Owner
    BY <1>4 DEF Won, lockVars, Owner
  <2>2. mode'[p] = "leader" /\ \A q \in Procs \ {p} : mode'[q] = mode[q]
    BY <1>4, <1>t DEF Won
  <2>3. Leaders' = {p} /\ Owner' = p
    BY <1>m, <2>2 DEF Led
  <2>4. CASE Leaders = {}
    BY <2>1, <2>3, <2>4 DEF Promised!Next, Promised!Elect
  <2>5. CASE Leaders # {}
    BY <1>l, <2>1, <2>3, <2>5 DEF Led
  <2> QED
    BY <2>4, <2>5
<1>5. ASSUME NEW p \in Procs, GiveUp(p) \/ Cancel(p) \/ Released(p) \/ Crash(p)
      PROVE  [Promised!Next]_<<Owner, Leaders>>
  <2>1. UNCHANGED <<holder, ttl>>
    BY <1>5 DEF GiveUp, Cancel, Released, Crash, lockVars
  <2>2. \E m \in Modes \ {"leader"} : mode' = [mode EXCEPT ![p] = m]
    BY <1>5 DEF GiveUp, Cancel, Released, Crash, Modes
  <2> QED
    BY <2>1, <2>2, ModeDown DEF Owner
<1>6. ASSUME NEW p \in Procs, Lost(p) PROVE [Promised!Next]_<<Owner, Leaders>>
  <2>1. UNCHANGED <<holder, ttl>>
    BY <1>6 DEF Lost
  <2>2. mode' = mode \/ mode' = [mode EXCEPT ![p] = "stopped"]
    BY <1>6 DEF Lost
  <2> QED
    BY <1>2, <2>1, <2>2, ModeDown DEF Owner, Modes
<1>7. ASSUME NEW p \in Procs, Try(p) \/ Rejected(p) \/ Get(p) \/ LoopEnds(p)
      PROVE  [Promised!Next]_<<Owner, Leaders>>
  BY <1>2, <1>7 DEF Try, Rejected, Get, Read, LoopEnds, lockVars
<1>8. ASSUME Tick PROVE [Promised!Next]_<<Owner, Leaders>>
  <2>1. Leaders' = Leaders
    BY <1>8 DEF Tick, Leaders
  <2>2. Owner' = Owner \/ Owner' = Absent
    BY <1>8, <1>t DEF Tick, LockTick, Owner, Holders
  <2>3. CASE Owner' = Absent /\ Owner # Absent
    <3>1. Leaders' = {}
      BY <1>m, <2>3 DEF Led
    <3> QED
      BY <2>1, <2>3, <3>1 DEF Promised!Next, Promised!Lapse
  <2> QED
    BY <2>1, <2>2, <2>3
<1>9. ASSUME UNCHANGED vars PROVE [Promised!Next]_<<Owner, Leaders>>
  BY <1>2, <1>9 DEF vars, lockVars, procVars
<1> QED
  BY <1>1, <1>3, <1>4, <1>5, <1>6, <1>7, <1>8, <1>9 DEF Next, Step, Fault, Terminated, TimedOut

\* Leader election on either lock, for any number of processes and every
\* admissible timing, implements the abstract Leadership.
THEOREM ImplementsLeadership == Spec => KeepsPromises
<1>1. Init => Promised!Init
  BY LockAssumption DEF Init, LockInit, Owner, Leaders, Promised!Init
<1>2. IInv /\ IInv' /\ [Next]_vars => [Promised!Next]_<<Owner, Leaders>>
  BY StepRefines
<1> QED
  BY <1>1, <1>2, Invariance, PTL DEF Spec, KeepsPromises, Promised!Spec
=============================================================================
