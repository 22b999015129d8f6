--------------------------- MODULE LeaderElection ---------------------------
(***************************************************************************)
(* Processes that run client-go's LeaderElector (v0.30) on a ResourceLock, *)
(* configured and called back as leader-election/redislock.go and          *)
(* leader-election/main.go do: acquire, renew until the deadline, release  *)
(* on cancel, and the protected loop started by OnStartedLeading.          *)
(*                                                                         *)
(* Time is discrete.  A call to the lock takes at most MaxDelay: it is     *)
(* sent, executed by the server at some point, and answered at a later     *)
(* one, or the answer is lost.  Every process has its own timers.          *)
(***************************************************************************)
EXTENDS ResourceLock

CONSTANTS Lease, Renew, Retry,  \* LeaseDuration, RenewDeadline, RetryPeriod
          MaxDelay,             \* longest call, lost ones included
          MaxFaults             \* crashes, cancels and lost calls

\* What NewLeaderElector checks (RenewDeadline > JitterFactor * RetryPeriod,
\* the factor being 1.2), and how slow the lock may be for that configuration.
ASSUME TimingAssumption ==
    /\ Lease \in Nat /\ Renew \in Nat /\ Retry \in Nat \ {0}
    /\ MaxDelay \in Nat \ {0} /\ MaxFaults \in Nat
    /\ Lease > Renew /\ 5 * Renew > 6 * Retry
    /\ Lease >= Renew + Retry + 2 * MaxDelay

VARIABLES mode,     \* mode[p]: what p's Run is in
          stage,    \* stage[p]: the call p has under way, "rest" if none
          reply,    \* reply[p]: "none" until the server executed the call
          wait,     \* wait[p]: age of the call
          left,     \* left[p]: time to the renew deadline
          obs,      \* obs[p]: holder in the observed record
          obsLeft,  \* obsLeft[p]: time for which the observed lease is valid
          loop,     \* loop[p]: the goroutine of OnStartedLeading runs
          faults

procVars == <<mode, stage, reply, wait, left, obs, obsLeft, loop>>
vars == <<lockVars, procVars, faults>>

Modes   == {"candidate", "leader", "cancelled", "releasing", "stopped"}
Writes  == {"fast", "create", "slow", "release"}
Stages  == {"rest", "get"} \cup Writes
Holders == Procs \cup {Free, Absent}
Window  == Retry + Renew

TypeOK ==
    /\ lockKind \in LockKinds
    /\ holder \in Holders
    /\ ttl \in 0 .. Lease
    /\ cas \in [Procs -> BOOLEAN]
    /\ same \in [Procs -> BOOLEAN]
    /\ mode \in [Procs -> Modes]
    /\ stage \in [Procs -> Stages]
    /\ reply \in [Procs -> {"none", "ok", "err"}]
    /\ wait \in [Procs -> 0 .. MaxDelay]
    /\ left \in [Procs -> 0 .. Window]
    /\ obs \in [Procs -> Holders]
    /\ obsLeft \in [Procs -> 0 .. Lease]
    /\ loop \in [Procs -> BOOLEAN]
    /\ faults \in 0 .. MaxFaults

Init ==
    /\ LockInit
    /\ mode = [p \in Procs |-> "stopped"]
    /\ stage = [p \in Procs |-> "rest"]
    /\ reply = [p \in Procs |-> "none"]
    /\ wait = [p \in Procs |-> 0]
    /\ left = [p \in Procs |-> 0]
    /\ obs = [p \in Procs |-> Absent]
    /\ obsLeft = [p \in Procs |-> 0]
    /\ loop = [p \in Procs |-> FALSE]
    /\ faults = 0

\* LeaderElector.IsLeader: the observed record names p.
IsLeader(p) == obs[p] = p

\* p's next call is st ("rest": none).
Call(p, st) ==
    /\ stage' = [stage EXCEPT ![p] = st]
    /\ reply' = [reply EXCEPT ![p] = "none"]
    /\ wait' = [wait EXCEPT ![p] = 0]

\* Mutant: calls do not heed the context of the round.
ProceedAnyway(p, st) == Call(p, st)

\* ... which is not sent when the context of a renew round is over.
Proceed(p, st) == Call(p, IF mode[p] = "leader" /\ left[p] = 0 THEN "rest" ELSE st)

\* setObservedRecord
Observe(p, h, d) ==
    /\ obs' = [obs EXCEPT ![p] = h]
    /\ obsLeft' = [obsLeft EXCEPT ![p] = d]

-----------------------------------------------------------------------------
(* tryAcquireOrRenew, one action per call and answer.                      *)

\* The process is started: flags, Ping, NewRedisLock, NewLeaderElector, Run.
Start(p) ==
    /\ mode[p] = "stopped" /\ ~loop[p]
    /\ mode' = [mode EXCEPT ![p] = "candidate"]
    /\ cas' = [cas EXCEPT ![p] = FALSE]
    /\ same' = [same EXCEPT ![p] = FALSE]
    /\ Observe(p, Absent, 0)
    /\ UNCHANGED <<lockKind, holder, ttl, stage, reply, wait, left, loop, faults>>

\* The next round of JitterUntil in acquire or of the poll in renew, which
\* starts none after its deadline.  A leader first tries the fast path.
Try(p) ==
    /\ stage[p] = "rest"
    /\ mode[p] = "candidate" \/ (mode[p] = "leader" /\ left[p] > 0)
    /\ Call(p, IF IsLeader(p) /\ obsLeft[p] > 0 THEN "fast" ELSE "get")
    /\ UNCHANGED <<lockVars, mode, left, obs, obsLeft, loop, faults>>

\* The server executes Create or Update; release writes an empty holder with
\* a lease of one second.
Exec(p) ==
    /\ stage[p] \in Writes /\ reply[p] = "none"
    /\ IF (IF stage[p] = "create" THEN CanCreate ELSE CanUpdate(p))
       THEN /\ IF stage[p] = "release" THEN Write(p, Free, 1) ELSE Write(p, p, Lease)
            /\ reply' = [reply EXCEPT ![p] = "ok"]
       ELSE /\ reply' = [reply EXCEPT ![p] = "err"]
            /\ UNCHANGED lockVars
    /\ UNCHANGED <<mode, stage, wait, left, obs, obsLeft, loop, faults>>

\* Create or Update succeeded: p is the leader, for another round.  The first
\* time acquire returns and Run starts OnStartedLeading.
Won(p) ==
    /\ stage[p] \in {"fast", "create", "slow"} /\ reply[p] = "ok"
    /\ mode' = [mode EXCEPT ![p] = "leader"]
    /\ left' = [left EXCEPT ![p] = Window]
    /\ loop' = [loop EXCEPT ![p] = TRUE]
    /\ Observe(p, p, Lease)
    /\ Call(p, "rest")
    /\ UNCHANGED <<lockVars, faults>>

\* The fast path falls back to the slow one; a failed Create, Get or slow
\* Update ends the try.
Failed(p) == Proceed(p, IF stage[p] = "fast" THEN "get" ELSE "rest")

Rejected(p) ==
    /\ stage[p] \in {"fast", "create", "slow"} /\ reply[p] = "err"
    /\ Failed(p)
    /\ UNCHANGED <<lockVars, mode, left, obs, obsLeft, loop, faults>>

\* Mutant: Get of a missing key returns an empty record and no error.
GetEmpty(p) ==
    /\ stage[p] = "get"
    /\ Observe(p, IF holder = Absent THEN Free ELSE holder, Lease)
    /\ Call(p, IF holder \in {p, Free, Absent} THEN "slow" ELSE "rest")
    /\ UNCHANGED <<lockVars, mode, left, loop, faults>>

\* Get answers: Create if there is no record; else note a record not seen
\* before, and go for it if nobody (else) holds it or its lease is over.
Get(p) ==
    /\ stage[p] = "get"
    /\ IF holder = Absent
       THEN /\ Proceed(p, "create")
            /\ UNCHANGED <<lockVars, obs, obsLeft>>
       ELSE /\ Read(p)
            /\ IF same[p] THEN UNCHANGED <<obs, obsLeft>>
                          ELSE Observe(p, holder, IF holder = Free THEN 1 ELSE Lease)
            /\ Proceed(p, IF holder \in {p, Free} \/ obsLeft'[p] = 0
                          THEN "slow" ELSE "rest")
    /\ UNCHANGED <<mode, left, loop, faults>>

-----------------------------------------------------------------------------
(* The end of renew and of Run.                                            *)

\* renew gives up at the deadline, and releases the lock: ReleaseOnCancel.
\* Nothing has told the protected loop yet.
GiveUp(p) ==
    /\ mode[p] = "leader" /\ stage[p] = "rest" /\ left[p] = 0
    /\ mode' = [mode EXCEPT ![p] = "releasing"]
    /\ Call(p, "release")
    /\ UNCHANGED <<lockVars, left, obs, obsLeft, loop, faults>>

\* The context of Run is cancelled, and with it the one OnStartedLeading got.
\* A leader releases the lock, a candidate's acquire just returns.
Cancel(p) ==
    /\ stage[p] = "rest" /\ mode[p] \in {"candidate", "leader"}
    /\ faults < MaxFaults /\ faults' = faults + 1
    /\ IF mode[p] = "leader"
       THEN /\ mode' = [mode EXCEPT ![p] = "cancelled"]
            /\ Call(p, "release")
       ELSE /\ mode' = [mode EXCEPT ![p] = "stopped"]
            /\ UNCHANGED <<stage, reply, wait>>
    /\ UNCHANGED <<lockVars, left, obs, obsLeft, loop>>

\* main.go, on a Lease: the goroutine that waits for SIGTERM or interrupt.
Terminated(p) == lockKind = "lease" /\ Cancel(p)

\* redislock.go: the goroutine that calls runCancel after two minutes.
TimedOut(p) == lockKind = "redis" /\ Cancel(p)

\* release() returns, whatever it got, renew and Run with it: the context of
\* OnStartedLeading is cancelled, if it was not before, and OnStoppedLeading
\* called.
Released(p) ==
    /\ stage[p] = "release" /\ reply[p] # "none"
    /\ mode' = [mode EXCEPT ![p] = "stopped"]
    /\ Call(p, "rest")
    /\ IF reply[p] = "ok" THEN Observe(p, Free, 1) ELSE UNCHANGED <<obs, obsLeft>>
    /\ UNCHANGED <<lockVars, left, loop, faults>>

\* The protected loop ends.  On a RedisLock it returns once it sees ctx.Done,
\* after Run or after runCancel, while the lock is being released.  On a Lease
\* it is select {}, which heeds no context: os.Exit in OnStoppedLeading ends
\* it, after Run.
LoopEnds(p) ==
    /\ loop[p]
    /\ mode[p] = "stopped" \/ (mode[p] = "cancelled" /\ lockKind = "redis")
    /\ loop' = [loop EXCEPT ![p] = FALSE]
    /\ UNCHANGED <<lockVars, mode, stage, reply, wait, left, obs, obsLeft, faults>>

-----------------------------------------------------------------------------
(* Failures and time.                                                      *)

\* A call returns an error to the client, executed or not; a LeaseLock then
\* does not learn the new resourceVersion.
Lost(p) ==
    /\ stage[p] # "rest"
    /\ faults < MaxFaults /\ faults' = faults + 1
    /\ cas' = [cas EXCEPT ![p] = @ /\ reply[p] # "ok"]
    /\ IF stage[p] = "release"
       THEN /\ mode' = [mode EXCEPT ![p] = "stopped"]
            /\ Call(p, "rest")
       ELSE Failed(p) /\ UNCHANGED mode
    /\ UNCHANGED <<lockKind, holder, ttl, same, left, obs, obsLeft, loop>>

Crash(p) ==
    /\ mode[p] # "stopped"
    /\ faults < MaxFaults /\ faults' = faults + 1
    /\ mode' = [mode EXCEPT ![p] = "stopped"]
    /\ loop' = [loop EXCEPT ![p] = FALSE]
    /\ Call(p, "rest")
    /\ UNCHANGED <<lockVars, left, obs, obsLeft>>

Less(n) == IF n = 0 THEN 0 ELSE n - 1

\* Calls end in time, and nobody dawdles at the renew deadline.
Tick ==
    /\ \A p \in Procs : /\ stage[p] # "rest" => wait[p] < MaxDelay
                        /\ mode[p] = "leader" /\ stage[p] = "rest" => left[p] > 0
    /\ LockTick
    /\ wait' = [p \in Procs |-> IF stage[p] = "rest" THEN 0 ELSE wait[p] + 1]
    /\ left' = [p \in Procs |-> Less(left[p])]
    /\ obsLeft' = [p \in Procs |-> Less(obsLeft[p])]
    /\ UNCHANGED <<mode, stage, reply, obs, loop, faults>>

-----------------------------------------------------------------------------
Step(p) ==
    \/ Try(p) \/ Exec(p) \/ Won(p) \/ Rejected(p) \/ Get(p)
    \/ GiveUp(p) \/ Released(p) \/ LoopEnds(p)

Fault(p) == Terminated(p) \/ TimedOut(p) \/ Lost(p) \/ Crash(p)

Next ==
    \/ \E p \in Procs : Start(p) \/ Step(p) \/ Fault(p)
    \/ Tick

Spec == Init /\ [][Next]_vars

\* Running processes and the lock service keep working, and time passes;
\* nobody has to start a process.
Fairness == WF_vars(Tick) /\ \A p \in Procs : WF_vars(Step(p))

FairSpec == Spec /\ Fairness

-----------------------------------------------------------------------------
(* Properties.                                                             *)

\* A process between the return of acquire and the end of renew has the lock,
\* and its lease is not over, although its last answer may be old and the
\* last calls may all have failed.
LeaderHoldsLock ==
    \A p \in Procs : mode[p] = "leader" => holder = p /\ ttl > 0

\* Two processes never lead at the same time.
AtMostOneLeader ==
    \A p, q \in Procs : mode[p] = "leader" /\ mode[q] = "leader" => p = q

\* The election as its users see it: the owner of a lease that is not over,
\* and the processes whose renew loop runs.
Owner   == IF holder \in Procs /\ ttl > 0 THEN holder ELSE Absent
Leaders == {p \in Procs : mode[p] = "leader"}

Promised == INSTANCE Leadership WITH Nobody <- Absent, owner <- Owner, leaders <- Leaders

\* The elector on a RedisLock or a Lease keeps the promises of Leadership: a
\* lease passes from one process to the next through nobody, although calls
\* are executed late and their answers are lost, and it is never released,
\* overwritten or over while its owner still acts as leader.
KeepsPromises == Promised!Spec

\* However the previous leader ended, somebody leads again, as long as there
\* is somebody: "kill the existing leader ... one of the remaining two
\* processes will be elected".
LeaderEmerges ==
    []<>(\/ \E p \in Procs : mode[p] = "leader"
         \/ \A p \in Procs : mode[p] = "stopped")

\* "you MUST ensure that any code you have that is protected by the lease
\* must terminate before you call cancel" (the comment of main.go, which uses
\* a Lease): one protected loop at a time.
OneProtectedLoop ==
    \A p, q \in Procs : loop[p] /\ loop[q] => p = q
=============================================================================
