----------------------------- MODULE Calculate ------------------------------
(***************************************************************************)
(* The Calculate resource of webhook/using-kubebuilder: users write a spec *)
(* through the validating webhook, the reconciler reads it from a cache    *)
(* and writes the result to the status, with optimistic concurrency.       *)
(*                                                                         *)
(* int is a two's complement integer: of 2 * Half values, 2^64 in Go.      *)
(***************************************************************************)
EXTENDS Integers

CONSTANTS Half,       \* half of the values of an int
          Operands,   \* values the users write
          MaxWrites,  \* creations and updates of the users
          MaxFaults   \* crashes and API errors

Ints == -Half .. Half - 1

ASSUME CalculateAssumption ==
    /\ Half \in Nat \ {0}
    /\ Operands \subseteq Ints
    /\ MaxWrites \in Nat /\ MaxFaults \in Nat

VARIABLES obj,     \* the object at the API server
          cached,  \* ... in the informer's cache
          pc, my,  \* the step of Reconcile, and its copy
          webhooks,  \* ENABLE_WEBHOOKS, read by cmd/main.go at the start
          rv,      \* the last resourceVersion given out
          writes, faults

vars == <<obj, cached, pc, my, webhooks, rv, writes, faults>>

\* action is a free string of the CRD; "" stands for all that are no ActionType.
Actions == {"add", "sub", "mul", "div", ""}
Specs   == [action : Actions, first : Ints, second : Ints]
Inputs  == [action : Actions, first : Operands, second : Operands]

\* An object with resourceVersion 0 does not exist.
NoObject == [rv |-> 0, spec |-> [action |-> "", first |-> 0, second |-> 0], result |-> 0]

-----------------------------------------------------------------------------
(* The arithmetic of the reconciler.                                       *)

Wrap(n) == ((n + Half) % (2 * Half)) - Half

Abs(n) == IF n < 0 THEN -n ELSE n

\* Go's division truncates; the one overflow, -Half / -1, wraps.
Quotient(a, b) ==
    LET q == Abs(a) \div Abs(b) IN IF (a < 0) = (b < 0) THEN q ELSE -q

Known(s) == s.action # ""

ZeroDivisor(s) == s.action = "div" /\ s.second = 0

Result(s) ==
    Wrap(CASE s.action = "add" -> s.first + s.second
           [] s.action = "sub" -> s.first - s.second
           [] s.action = "mul" -> s.first * s.second
           [] s.action = "div" -> Quotient(s.first, s.second))

-----------------------------------------------------------------------------
Init ==
    /\ obj = NoObject /\ cached = NoObject
    /\ pc = "idle" /\ my = NoObject
    /\ webhooks \in BOOLEAN
    /\ rv = 0 /\ writes = 0 /\ faults = 0

\* ValidateCreate and ValidateUpdate; Default does nothing.
validate(s) == ~ZeroDivisor(s)

UserWrite(o) ==
    /\ rv' = rv + 1
    /\ obj' = o
    /\ UNCHANGED <<cached, pc, my, faults, webhooks>>

\* A create or an update of the spec; a status survives an update.
UserApply(s) ==
    /\ webhooks => validate(s)
    /\ s # obj.spec \/ obj.rv = 0
    /\ writes < MaxWrites /\ writes' = writes + 1
    /\ UserWrite([obj EXCEPT !.rv = rv + 1, !.spec = s])

\* ValidateDelete allows it.  Each takes a creation, so there are no more of
\* them than writes.
UserDelete == obj.rv # 0 /\ UserWrite(NoObject) /\ UNCHANGED writes

Sync ==
    /\ cached # obj /\ cached' = obj
    /\ UNCHANGED <<obj, pc, my, rv, writes, faults, webhooks>>

-----------------------------------------------------------------------------
\* The request is over, or put back with an error.
Return == pc' = "idle" /\ my' = NoObject

\* Get, from the cache; "not found" is no error.
Reconcile ==
    /\ pc = "idle" /\ cached.rv # 0
    /\ my' = cached /\ pc' = "compute"
    /\ UNCHANGED <<obj, cached, rv, writes, faults, webhooks>>

\* Mutant: the reconciler trusts the webhook.
ComputeTrusting ==
    /\ pc = "compute"
    /\ IF ZeroDivisor(my.spec) THEN pc' = "panic" /\ UNCHANGED my
       ELSE IF Known(my.spec)
            THEN /\ my' = [my EXCEPT !.result = Result(my.spec)]
                 /\ pc' = "write"
            ELSE Return
    /\ UNCHANGED <<obj, cached, rv, writes, faults, webhooks>>

\* Any other action and a divisor of zero are errors, i.e. retried.
Compute ==
    /\ pc = "compute"
    /\ IF Known(my.spec) /\ ~ZeroDivisor(my.spec)
       THEN /\ my' = [my EXCEPT !.result = Result(my.spec)]
            /\ pc' = "write"
       ELSE Return
    /\ UNCHANGED <<obj, cached, rv, writes, faults, webhooks>>

\* Mutant: a patch without resourceVersion.
UpdateStatusForced ==
    /\ pc = "write"
    /\ IF obj.rv # 0 /\ obj.result # my.result
       THEN /\ rv' = rv + 1
            /\ obj' = [obj EXCEPT !.rv = rv + 1, !.result = my.result]
       ELSE UNCHANGED <<obj, rv>>
    /\ Return
    /\ UNCHANGED <<cached, writes, faults, webhooks>>

\* Mutant: a result that is there is not written again.
UpdateStatusOnce ==
    /\ pc = "write"
    /\ IF obj.rv = my.rv /\ obj.result = 0 /\ my.result # 0
       THEN /\ rv' = rv + 1
            /\ obj' = [obj EXCEPT !.rv = rv + 1, !.result = my.result]
       ELSE UNCHANGED <<obj, rv>>
    /\ Return
    /\ UNCHANGED <<cached, writes, faults, webhooks>>

\* Status().Update: a conflict or "not found" if the object was written since;
\* a status that is already there makes no new version.
UpdateStatus ==
    /\ pc = "write"
    /\ IF obj.rv = my.rv /\ obj.result # my.result
       THEN /\ rv' = rv + 1
            /\ obj' = [obj EXCEPT !.rv = rv + 1, !.result = my.result]
       ELSE UNCHANGED <<obj, rv>>
    /\ Return
    /\ UNCHANGED <<cached, writes, faults, webhooks>>

\* A crash, or a call that fails.
Fault ==
    /\ pc # "idle"
    /\ faults < MaxFaults /\ faults' = faults + 1
    /\ Return
    /\ UNCHANGED <<obj, cached, rv, writes, webhooks>>

Step == Reconcile \/ Compute \/ UpdateStatus

Next ==
    \/ \E s \in Inputs : UserApply(s)
    \/ UserDelete \/ Sync
    \/ Step \/ Fault

Spec == Init /\ [][Next]_vars

\* The manager runs, errors are requeued and the informer catches up.
FairSpec == Spec /\ WF_vars(Step) /\ WF_vars(Sync)

-----------------------------------------------------------------------------
(* Properties.                                                             *)

Versions == 0 .. rv

Objects == [rv : Versions, spec : Specs, result : Ints]

\* Results stay in the range of int, the overflowing ones too, and no step
\* divides by zero.
TypeOK ==
    /\ obj \in Objects /\ cached \in Objects /\ my \in Objects
    /\ pc \in {"idle", "compute", "write"}
    /\ webhooks \in BOOLEAN
    /\ rv \in Nat
    /\ writes \in 0 .. MaxWrites /\ faults \in 0 .. MaxFaults

\* A result is only ever put beside the spec it was computed from.
ResultOfItsSpec ==
    [][obj.rv # 0 /\ obj'.result # obj.result /\ obj'.rv # 0
           => obj'.spec = obj.spec /\ obj'.result = Result(obj.spec)]_vars

\* When the users are done, the status is the result of the last spec.  A
\* divisor of zero, which has no result, is an excuse only where no webhook
\* keeps it out; an action that is none always is.
StatusConverges ==
    <>[](\/ obj.rv = 0 \/ ~Known(obj.spec)
         \/ ZeroDivisor(obj.spec) /\ ~webhooks
         \/ obj.result = Result(obj.spec))
=============================================================================
