-------------------------- MODULE CalculateProofs ---------------------------
(***************************************************************************)
(* Proofs about Calculate, for any range of int, operands and number of    *)
(* writes, with the webhook or without.                                    *)
(*                                                                         *)
(* A resourceVersion names one spec (Versioned), so the copy a reconcile   *)
(* computed from is of the current spec whenever its write is accepted.    *)
(***************************************************************************)
EXTENDS Calculate, TLAPS

Copies == [rv : Nat, spec : Specs, result : Ints]

Shape ==
    /\ obj \in Copies /\ cached \in Copies /\ my \in Copies
    /\ pc \in {"idle", "compute", "write"}
    /\ webhooks \in BOOLEAN
    /\ rv \in Nat /\ writes \in 0 .. MaxWrites /\ faults \in 0 .. MaxFaults
    /\ obj.rv <= rv /\ cached.rv <= rv /\ my.rv <= rv

\* Copies of one version are of one spec; what is about to be written was
\* computed from the spec beside it.
Versioned ==
    /\ obj.rv = 0 => obj.spec = NoObject.spec
    /\ cached.rv = 0 => cached.spec = NoObject.spec
    /\ my.rv = 0 => my.spec = NoObject.spec
    /\ obj.rv = cached.rv => obj.spec = cached.spec
    /\ obj.rv = my.rv => obj.spec = my.spec
    /\ cached.rv = my.rv => cached.spec = my.spec
    /\ pc = "write" => my.rv # 0 /\ Known(my.spec) /\ my.result = Result(my.spec)
    /\ pc = "compute" => my.rv # 0

IInv == Shape /\ Versioned

-----------------------------------------------------------------------------
\* Sums, differences, products and quotients wrap into the range of int.
LEMMA WrapRange == ASSUME NEW n \in Int PROVE Wrap(n) \in Ints
  <1>1. (n + Half) % (2 * Half) \in 0 .. (2 * Half - 1)
    BY CalculateAssumption
  <1>. QED BY <1>1, CalculateAssumption DEF Wrap, Ints

LEMMA QuotientInt ==
    ASSUME NEW a \in Int, NEW b \in Int \ {0} PROVE Quotient(a, b) \in Int
  <1>1. Abs(a) \in Nat /\ Abs(b) \in Nat \ {0}
    BY DEF Abs
  <1>2. Abs(a) \div Abs(b) \in Int
    BY <1>1
  <1>. QED BY <1>2 DEF Quotient

LEMMA ResultRange ==
    ASSUME NEW s \in Specs, Known(s), ~ZeroDivisor(s) PROVE Result(s) \in Ints
  <1>1. s.first \in Int /\ s.second \in Int
    BY CalculateAssumption DEF Specs, Ints
  <1>2. CASE s.action = "add"
    BY <1>1, <1>2, WrapRange DEF Result
  <1>3. CASE s.action = "sub"
    BY <1>1, <1>3, WrapRange DEF Result
  <1>4. CASE s.action = "mul"
    BY <1>1, <1>4, WrapRange DEF Result
  <1>5. CASE s.action = "div"
    BY <1>1, <1>5, WrapRange, QuotientInt DEF Result, ZeroDivisor
  <1>. QED BY <1>2, <1>3, <1>4, <1>5 DEF Specs, Actions, Known

\* The object that does not exist is a well-formed copy.
LEMMA NoObjectShape ==
    NoObject \in Copies /\ NoObject.rv = 0
  <1>1. 0 \in Ints
    BY CalculateAssumption DEF Ints
  <1>. QED BY <1>1 DEF NoObject, Copies, Specs, Actions

-----------------------------------------------------------------------------
LEMMA InitIInv == Init => IInv
  <1>. SUFFICES ASSUME Init PROVE IInv
    OBVIOUS
  <1>. QED BY NoObjectShape, CalculateAssumption
       DEF Init, IInv, Shape, Versioned

\* Every step keeps the invariant, action by action.
LEMMA NextIInv == IInv /\ [Next]_vars => IInv'
  <1>. SUFFICES ASSUME IInv, [Next]_vars PROVE IInv'
    OBVIOUS
  <1>. USE CalculateAssumption DEF IInv, Shape, Versioned
  <1>0. /\ obj.rv \in Nat /\ cached.rv \in Nat /\ my.rv \in Nat
        /\ obj.rv <= rv + 1 /\ cached.rv <= rv + 1 /\ my.rv <= rv + 1
    BY DEF Copies
  <1>1. ASSUME NEW s \in Inputs, UserApply(s) PROVE IInv'
    <2>1. s \in Specs
      BY DEF Inputs, Specs
    <2>2. obj' = [obj EXCEPT !.rv = rv + 1, !.spec = s] /\ rv' = rv + 1
      BY <1>1 DEF UserApply, UserWrite
    <2>3. obj' \in Copies /\ obj'.rv = rv + 1 /\ obj'.spec = s
      <3>1. obj \in Copies /\ rv + 1 \in Nat
        OBVIOUS
      <3>. QED BY ONLY <2>1, <2>2, <3>1 DEF Copies
    <2>4. UNCHANGED <<cached, pc, my, faults, webhooks>> /\ writes' \in 0 .. MaxWrites
      BY <1>1 DEF UserApply, UserWrite
    <2>5. Shape'
      BY <1>0, <2>2, <2>3, <2>4
    <2>6. Versioned'
      BY <2>2, <2>3, <2>4
    <2>. QED BY <2>5, <2>6
  <1>2. ASSUME UserDelete PROVE IInv'
    <2>1. /\ UNCHANGED <<cached, pc, my, faults, webhooks>> /\ writes' \in 0 .. MaxWrites
          /\ obj' = NoObject /\ rv' = rv + 1
      BY <1>2 DEF UserDelete, UserWrite
    <2>2. Shape'
      BY <1>0, <2>1, NoObjectShape
    <2>3. Versioned'
      BY <2>1, NoObjectShape
    <2>. QED BY <2>2, <2>3
  <1>3. ASSUME Sync PROVE IInv'
    BY <1>3 DEF Sync
  <1>4. ASSUME Reconcile PROVE IInv'
    BY <1>4 DEF Reconcile
  <1>5. ASSUME Compute PROVE IInv'
    <2>1. CASE Known(my.spec) /\ ~ZeroDivisor(my.spec)
      <3>1. my' = [my EXCEPT !.result = Result(my.spec)] /\ pc' = "write" /\ pc = "compute"
            /\ UNCHANGED <<obj, cached, rv, writes, faults, webhooks>>
        BY <1>5, <2>1 DEF Compute
      <3>2. Result(my.spec) \in Ints
        BY <2>1, ResultRange DEF Copies
      <3>3. my' \in Copies /\ my'.rv = my.rv /\ my'.spec = my.spec
            /\ my'.result = Result(my.spec)
        BY <3>1, <3>2 DEF Copies
      <3>. QED BY <2>1, <3>1, <3>3 DEF Known
    <2>2. CASE ~(Known(my.spec) /\ ~ZeroDivisor(my.spec))
      <3>1. /\ my' = NoObject /\ pc' = "idle"
            /\ UNCHANGED <<obj, cached, rv, writes, faults, webhooks>>
        BY <1>5, <2>2 DEF Compute, Return
      <3>2. Shape'
        BY <3>1, NoObjectShape
      <3>3. Versioned'
        BY <3>1, NoObjectShape
      <3>. QED BY <3>2, <3>3
    <2>. QED BY <2>1, <2>2
  <1>6. ASSUME UpdateStatus PROVE IInv'
    <2>1. my' = NoObject /\ pc' = "idle"
          /\ UNCHANGED <<cached, writes, faults, webhooks>>
      BY <1>6 DEF UpdateStatus, Return
    <2>2. CASE UNCHANGED <<obj, rv>>
      BY <2>1, <2>2, NoObjectShape
    <2>3. CASE /\ rv' = rv + 1
               /\ obj' = [obj EXCEPT !.rv = rv + 1, !.result = my.result]
      <3>1. obj' \in Copies /\ obj'.rv = rv + 1 /\ obj'.spec = obj.spec
        <4>1. my.result \in Ints /\ rv + 1 \in Nat
          BY DEF Copies
        <4>2. obj \in Copies
          OBVIOUS
        <4>. QED BY ONLY <2>3, <4>1, <4>2 DEF Copies
      <3>2. Shape'
        BY <1>0, <2>1, <2>3, <3>1, NoObjectShape
      <3>3. obj.rv # 0
        BY <1>6, <2>3 DEF UpdateStatus
      <3>4. Versioned'
        BY <2>1, <2>3, <3>1, <3>3, NoObjectShape
      <3>. QED BY <3>2, <3>4
    <2>. QED BY <1>6, <2>2, <2>3 DEF UpdateStatus
  <1>7. ASSUME Fault PROVE IInv'
    BY <1>7, NoObjectShape DEF Fault, Return
  <1>8. ASSUME UNCHANGED vars PROVE IInv'
    BY <1>8 DEF vars
  <1>. QED
    BY <1>1, <1>2, <1>3, <1>4, <1>5, <1>6, <1>7, <1>8 DEF Next, Step

THEOREM Invariance == Spec => []IInv
  BY InitIInv, NextIInv, PTL DEF Spec

\* Results stay in the range of int, and no reconcile divides by zero.
THEOREM TypeCorrect == Spec => []TypeOK
  <1>1. IInv => TypeOK
    BY DEF IInv, Shape, Copies, TypeOK, Objects, Versions
  <1>. QED BY <1>1, Invariance, PTL

\* A result is only ever put beside the spec it was computed from.
THEOREM ResultsMatch == Spec => ResultOfItsSpec
  <1>1. ASSUME IInv, [Next]_vars
        PROVE  [obj.rv # 0 /\ obj'.result # obj.result /\ obj'.rv # 0
                  => obj'.spec = obj.spec /\ obj'.result = Result(obj.spec)]_vars
    <2>. SUFFICES ASSUME obj.rv # 0, obj'.result # obj.result, obj'.rv # 0
                  PROVE  obj'.spec = obj.spec /\ obj'.result = Result(obj.spec)
      OBVIOUS
    <2>. USE <1>1 DEF IInv, Shape
    <2>1. ASSUME NEW s \in Inputs, UserApply(s) PROVE FALSE
      <3>1. obj' = [obj EXCEPT !.rv = rv + 1, !.spec = s]
        BY <2>1 DEF UserApply, UserWrite
      <3>. QED BY <3>1 DEF Copies
    <2>2. ASSUME UserDelete PROVE FALSE
      BY <2>2, NoObjectShape DEF UserDelete, UserWrite
    <2>3. ASSUME UpdateStatus PROVE obj'.spec = obj.spec /\ obj'.result = Result(obj.spec)
      <3>1. /\ obj.rv = my.rv /\ pc = "write"
            /\ obj' = [obj EXCEPT !.rv = rv + 1, !.result = my.result]
        BY <2>3 DEF UpdateStatus
      <3>2. obj'.spec = obj.spec /\ obj'.result = my.result
        BY <3>1 DEF Copies
      <3>. QED BY <3>1, <3>2 DEF Versioned
    <2>4. CASE Sync \/ Reconcile \/ Compute \/ Fault \/ UNCHANGED vars
      BY <2>4 DEF Sync, Reconcile, Compute, Fault, vars
    <2>. QED BY <1>1, <2>1, <2>2, <2>3, <2>4 DEF Next, Step
  <1>. QED BY <1>1, Invariance, PTL DEF Spec, ResultOfItsSpec
=============================================================================
