------------------------- MODULE ClientScriptsProofs -------------------------
(***************************************************************************)
(* Proofs about ClientScripts, for any number of programs, attempts,       *)
(* foreign writes and faults: type correctness, OthersPreserved,           *)
(* OwnObjectOnly and RetriesSuffice.                                       *)
(***************************************************************************)
EXTENDS ClientScripts, TLAPS

\* The programs are of one family, and only one of them patches.
Family ==
    /\ \A p, q \in Procs : prog[p] = "demo" => prog[q] = "demo"
    /\ \A p \in Procs : at[p] = "patch" => prog[p] = "patch"

\* A copy with the current resourceVersion is the object.
Current == \A p \in Procs : fresh[p] => copy[p] = obj /\ obj.uid # 0

\* No two programs created the same object.
Distinct == \A p, q \in Procs : mine[p] = mine[q] /\ mine[p] # 0 => p = q

\* p is a demo program that got past Create.
Working(p) == prog[p] = "demo" /\ at[p] \in Calls \ {"create"}

\* ... and either works on its object, or lost it after an outside deletion;
\* OwnObjectOnly without the case of none.
Own ==
    \A p \in Procs : Working(p) =>
        /\ mine[p] # 0
        /\ \/ obj.uid = mine[p] /\ ~obj.del
           \/ mine[p] \in lost /\ removed

\* Every conflict had a foreign write of its own: one more has happened when
\* the copy is out of date.  (Without deletions from outside.)
Tries ==
    ~removed => \A p \in Procs : prog[p] = "demo" =>
        /\ at[p] = "create" => tries[p] = 0
        /\ at[p] = "get" => tries[p] <= writes
        /\ at[p] = "update" => tries[p] <= writes /\ (~fresh[p] => tries[p] < writes)

IInv == TypeOK /\ Family /\ Current /\ Distinct /\ Own /\ Tries /\ RetriesSuffice

-----------------------------------------------------------------------------
(* Where a program goes after a call.                                      *)

\* A call that returned no error.
LEMMA Succeeding ==
    ASSUME TypeOK, NEW p \in Procs, at[p] \in Calls, Succeed(p)
    PROVE  \E x \in Calls \cup Ends :
              /\ at' = [at EXCEPT ![p] = x] /\ tries' = tries
              /\ x \notin {"create", "conflict"}
              /\ x = "patch" => prog[p] = "patch"
              /\ prog[p] = "demo" =>
                    /\ at[p] = "create" => x = "get"
                    /\ at[p] = "get" => x = "update"
                    /\ x = "get" => at[p] = "create"
                    /\ x = "update" => at[p] = "get"
                    /\ x \in Calls => at[p] \notin {"delete", "patch"}
  <1> DEFINE x == Then(prog[p], at[p])
  <1>1. x \in Calls \cup Ends /\ x \notin {"create", "conflict"}
    BY DEF Then, Calls, Ends, TypeOK
  <1>2. x = "patch" => prog[p] = "patch"
    BY DEF Then, Calls, Ends, TypeOK
  <1>3. prog[p] = "demo" =>
           /\ at[p] = "create" => x = "get"
           /\ at[p] = "get" => x = "update"
           /\ x = "get" => at[p] = "create"
           /\ x = "update" => at[p] = "get"
           /\ x \in Calls => at[p] \notin {"delete", "patch"}
    BY DEF Then, Calls, Ends
  <1>4. at' = [at EXCEPT ![p] = x] /\ tries' = tries
    BY DEF Succeed, Goto
  <1>. HIDE DEF x
  <1>. QED BY <1>1, <1>2, <1>3, <1>4

\* A call that returned an error; only Update meets conflicts.
LEMMA Going ==
    ASSUME TypeOK, NEW p \in Procs, at[p] \in Calls, NEW err,
           err = "conflict" => at[p] = "update", Fail(p, err)
    PROVE  \E x \in Calls \cup Ends :
              /\ at' = [at EXCEPT ![p] = x]
              /\ tries' = [tries EXCEPT ![p] =
                             IF err = "conflict" /\ x = "get" THEN @ + 1 ELSE @]
              /\ x \notin {"create", "patch"}
              /\ x = "conflict" =>
                    prog[p] = "demo" /\ err = "conflict" /\ tries[p] + 1 >= Steps
              /\ x = "get" /\ err = "conflict" =>
                    prog[p] = "demo" /\ tries[p] + 1 < Steps
              /\ prog[p] = "demo" /\ err # "conflict" => x = "panic"
              /\ prog[p] = "demo" /\ err = "conflict" => x \in {"get", "conflict"}
  <1> DEFINE x == OnError(p, err)
  <1>1. tries[p] \in Nat /\ Steps \in Nat
    BY ScriptsAssumption DEF TypeOK
  <1>2. CASE prog[p] = "demo" /\ err = "conflict"
    <2>1. x = IF Retry(p) THEN "get" ELSE "conflict"
      BY <1>2 DEF OnError, CarriesOn
    <2>2. at' = [at EXCEPT ![p] = x]
          /\ tries' = [tries EXCEPT ![p] = IF err = "conflict" /\ x = "get" THEN @ + 1 ELSE @]
      BY DEF Fail, Goto
    <2>. HIDE DEF x
    <2>3. /\ x \in {"get", "conflict"}
          /\ x = "get" => tries[p] + 1 < Steps
          /\ x = "conflict" => tries[p] + 1 >= Steps
      BY <1>1, <2>1 DEF Retry
    <2>. QED BY <1>2, <2>2, <2>3 DEF Calls, Ends
  <1>3. CASE ~(prog[p] = "demo" /\ err = "conflict")
    <2>1. x \in {"get", "done", "delete", "panic"}
      BY <1>3 DEF OnError
    <2>2. x = "get" => at[p] = "create"
      BY <1>3 DEF OnError
    <2>3. prog[p] = "demo" => x = "panic"
      BY <1>3 DEF OnError, CarriesOn
    <2>4. at' = [at EXCEPT ![p] = x]
          /\ tries' = [tries EXCEPT ![p] = IF err = "conflict" /\ x = "get" THEN @ + 1 ELSE @]
      BY DEF Fail, Goto
    <2>. HIDE DEF x
    <2>. QED BY <1>3, <2>1, <2>2, <2>3, <2>4 DEF Calls, Ends
  <1>. QED BY <1>2, <1>3

\* The two together, for a call that was executed.
LEMMA Answering ==
    ASSUME TypeOK, NEW p \in Procs, at[p] \in Calls, Answered(p)
    PROVE  /\ faults' \in 0 .. MaxFaults
           /\ \E x \in Calls \cup Ends :
              /\ at' = [at EXCEPT ![p] = x] /\ tries' = tries
              /\ x \notin {"create", "conflict"}
              /\ x = "patch" => prog[p] = "patch"
              /\ prog[p] = "demo" =>
                    /\ x = "get" => at[p] = "create"
                    /\ x = "update" => at[p] = "get"
                    /\ x \in Calls => at[p] \notin {"delete", "patch"}
  <1>1. CASE Succeed(p) /\ UNCHANGED faults
    BY <1>1, Succeeding DEF TypeOK
  <1>2. CASE Fail(p, "other") /\ faults < MaxFaults /\ faults' = faults + 1
    <2>1. PICK x \in Calls \cup Ends :
              /\ at' = [at EXCEPT ![p] = x]
              /\ tries' = [tries EXCEPT ![p] =
                             IF "other" = "conflict" /\ x = "get" THEN @ + 1 ELSE @]
              /\ x \notin {"create", "patch"}
              /\ x = "conflict" => "other" = "conflict"
              /\ prog[p] = "demo" /\ "other" # "conflict" => x = "panic"
      BY <1>2, Going
    <2>2. tries' = tries
      BY <2>1 DEF TypeOK
    <2>3. faults' \in 0 .. MaxFaults
      BY <1>2, ScriptsAssumption DEF TypeOK
    <2>. QED BY <2>1, <2>2, <2>3 DEF Calls, Ends
  <1>. QED BY <1>1, <1>2 DEF Answered

-----------------------------------------------------------------------------
(* The object.                                                             *)

\* A write of the object leaves only copies that are the object.
LEMMA Storing ==
    ASSUME TypeOK, Current, NEW new, Store(new), copy' = copy
    PROVE  /\ obj' = new
           /\ fresh' \in [Procs -> BOOLEAN]
           /\ \A q \in Procs : fresh'[q] => fresh[q]
           /\ Current'
  <1>1. obj' = new /\ fresh' = [q \in Procs |-> fresh[q] /\ new = obj]
    BY DEF Store
  <1>2. fresh' \in [Procs -> BOOLEAN]
    BY <1>1, Zenon
  <1>3. \A q \in Procs : fresh'[q] => fresh[q] /\ new = obj
    BY <1>1
  <1>. QED BY <1>1, <1>2, <1>3 DEF Current

\* What programs and others write is an object.
LEMMA Values ==
    /\ NoObject \in Objects
    /\ \A g, uid : uid \in Nat => Created(g, uid) \in Objects
    /\ \A g : \A o \in Objects :
          /\ Modified(g, o) \in Objects
          /\ Modified(g, o).uid = o.uid /\ Modified(g, o).note = o.note
          /\ Modified(g, o).del = o.del
          /\ g \notin {"demo", "scale"} => Modified(g, o).replicas = o.replicas
          /\ g = "scale" => Modified(g, o).image = o.image
  <1>1. NoObject \in Objects
    BY DEF NoObject, Object, Objects
  <1>2. ASSUME NEW g, NEW uid \in Nat PROVE Created(g, uid) \in Objects
    BY DEF Created, Object, Objects
  <1>3. ASSUME NEW g, NEW o \in Objects
        PROVE  /\ Modified(g, o) \in Objects
               /\ Modified(g, o).uid = o.uid /\ Modified(g, o).note = o.note
               /\ Modified(g, o).del = o.del
               /\ g \notin {"demo", "scale"} => Modified(g, o).replicas = o.replicas
               /\ g = "scale" => Modified(g, o).image = o.image
    <2>1. CASE g = "demo"
      <3> DEFINE o1 == [o EXCEPT !.replicas = 1]
      <3>1. Modified(g, o) = [o1 EXCEPT !.image = "v2"]
        BY <2>1 DEF Modified
      <3>2. o1 \in Objects /\ o1.uid = o.uid /\ o1.note = o.note /\ o1.del = o.del
        BY DEF Objects
      <3>. HIDE DEF o1
      <3>. QED BY <2>1, <3>1, <3>2 DEF Objects
    <2>2. CASE g = "scale"
      <3>1. Modified(g, o) = [o EXCEPT !.replicas = 2]
        BY <2>2 DEF Modified
      <3>. QED BY <2>2, <3>1 DEF Objects
    <2>3. CASE g \notin {"demo", "scale"}
      <3>1. Modified(g, o) = [o EXCEPT !.image = "v2"]
        BY <2>3 DEF Modified
      <3>. QED BY <2>3, <3>1 DEF Objects
    <2>. QED BY <2>1, <2>2, <2>3
  <1>. QED BY <1>1, <1>2, <1>3

-----------------------------------------------------------------------------
(* The invariant.                                                          *)

LEMMA InitIInv == Init => IInv
  <1>. SUFFICES ASSUME Init PROVE IInv
    OBVIOUS
  <1>1. PICK F \in Families : prog \in [Procs -> F]
    BY DEF Init
  <1>2. /\ prog \in [Procs -> Programs]
        /\ \A p, q \in Procs : prog[p] = "demo" => prog[q] = "demo"
    BY <1>1 DEF Families, Programs
  <1>3. obj \in Objects /\ obj.uid \in Nat
    <2>1. CASE obj = NoObject
      BY <2>1, Values DEF Objects
    <2>2. CASE obj = Object(1, 1, "v1", FALSE, FALSE)
      BY <2>2 DEF Object, Objects
    <2>. QED BY <2>1, <2>2 DEF Init
  <1>4. \A p \in Procs : First(prog[p]) \in {"create", "delete", "get"}
    BY DEF First
  <1>5. at \in [Procs -> Calls \cup Ends]
        /\ \A p \in Procs : at[p] \in {"create", "delete", "get"}
    BY <1>4 DEF Init, Calls, Ends
  <1>6. \A p \in Procs : prog[p] = "demo" => at[p] = "create"
    BY DEF Init, First
  <1>7. fresh \in [Procs -> BOOLEAN] /\ \A p \in Procs : ~fresh[p]
    <2>1. fresh = [p \in Procs |-> FALSE]
      BY DEF Init
    <2>. QED BY <2>1, Zenon
  <1>8. copy \in [Procs -> Objects]
    BY Values DEF Init
  <1>9. TypeOK
    <2>1. /\ lastUid = obj.uid
          /\ tries = [p \in Procs |-> 0] /\ mine = [p \in Procs |-> 0]
          /\ writes = 0 /\ faults = 0
          /\ lost = {} /\ removed = FALSE
      BY DEF Init
    <2>2. lost \subseteq 1 .. lastUid /\ removed \in BOOLEAN
      BY <2>1
    <2>3. tries \in [Procs -> 0 .. (Steps - 1)] /\ mine \in [Procs -> 0 .. lastUid]
      BY <1>3, <2>1, ScriptsAssumption
    <2>4. writes \in 0 .. MaxWrites /\ faults \in 0 .. MaxFaults
      BY <2>1, ScriptsAssumption
    <2>5. obj.uid <= lastUid /\ lastUid \in Nat
      BY <1>3, <2>1
    <2>. QED BY <1>2, <1>3, <1>5, <1>7, <1>8, <2>2, <2>3, <2>4, <2>5 DEF TypeOK
  <1>10. Family
    BY <1>2, <1>5 DEF Family
  <1>11. Current /\ Distinct
    BY <1>7 DEF Current, Distinct, Init
  <1>12. Own /\ Tries
    BY <1>6, <1>7 DEF Own, Working, Tries, Init
  <1>13. RetriesSuffice
    BY <1>5 DEF RetriesSuffice
  <1>. QED BY <1>9, <1>10, <1>11, <1>12, <1>13 DEF IInv

\* A call that was not executed.
LEMMA Failing ==
    ASSUME IInv, NEW p \in Procs, at[p] \in Calls, NEW err, Fail(p, err),
           err = "conflict" => at[p] = "update" /\ ~fresh[p],
           faults' \in 0 .. MaxFaults,
           UNCHANGED <<obj, lastUid, prog, copy, fresh, mine, history, writes>>
    PROVE  IInv'
  <1>1. PICK x \in Calls \cup Ends :
           /\ at' = [at EXCEPT ![p] = x]
           /\ tries' = [tries EXCEPT ![p] =
                          IF err = "conflict" /\ x = "get" THEN @ + 1 ELSE @]
           /\ x \notin {"create", "patch"}
           /\ x = "conflict" =>
                 prog[p] = "demo" /\ err = "conflict" /\ tries[p] + 1 >= Steps
           /\ x = "get" /\ err = "conflict" =>
                 prog[p] = "demo" /\ tries[p] + 1 < Steps
           /\ prog[p] = "demo" /\ err # "conflict" => x = "panic"
           /\ prog[p] = "demo" /\ err = "conflict" => x \in {"get", "conflict"}
    BY Going DEF IInv
  <1>2. /\ TypeOK /\ Steps \in Nat /\ tries[p] \in Nat /\ writes \in Nat
        /\ \A q \in Procs : at'[q] = IF q = p THEN x ELSE at[q]
        /\ \A q \in Procs : tries'[q] =
              IF q = p /\ err = "conflict" /\ x = "get" THEN tries[q] + 1 ELSE tries[q]
        /\ lost' = lost /\ removed' = removed
    BY <1>1, ScriptsAssumption DEF IInv, TypeOK, history
  <1>3. TypeOK'
    <2>1. at' \in [Procs -> Calls \cup Ends]
      BY <1>1, <1>2 DEF TypeOK
    <2>2. tries' \in [Procs -> 0 .. (Steps - 1)]
      BY <1>1, <1>2 DEF TypeOK
    <2>. QED BY <1>2, <2>1, <2>2 DEF TypeOK
  <1>4. Family'
    BY <1>1, <1>2 DEF IInv, Family
  <1>5. Current' /\ Distinct'
    BY DEF IInv, Current, Distinct
  <1>6. Own'
    <2>. SUFFICES ASSUME NEW q \in Procs, Working(q)'
                  PROVE  /\ mine[q] # 0
                         /\ (obj.uid = mine[q] /\ ~obj.del) \/ (mine[q] \in lost /\ removed)
      BY <1>2 DEF Own
    <2>1. Working(q)
      BY <1>1, <1>2 DEF Working, Calls, Ends
    <2>. QED BY <2>1 DEF IInv, Own
  <1>7. ~removed /\ prog[p] = "demo" /\ err = "conflict" => tries[p] < writes
    BY DEF IInv, Tries
  <1>8. Tries'
    <2>. SUFFICES ASSUME ~removed, NEW q \in Procs, prog[q] = "demo"
                  PROVE /\ at'[q] = "create" => tries'[q] = 0
                        /\ at'[q] = "get" => tries'[q] <= writes
                        /\ at'[q] = "update" =>
                              tries'[q] <= writes /\ (~fresh[q] => tries'[q] < writes)
      BY <1>2 DEF Tries
    <2>1. CASE q = p
      BY <1>1, <1>2, <1>7, <2>1
    <2>2. CASE q # p
      BY <1>2, <2>2 DEF IInv, Tries
    <2>. QED BY <2>1, <2>2
  <1>9. RetriesSuffice'
    <2>. SUFFICES ASSUME ~removed, NEW q \in Procs, at'[q] = "conflict"
                  PROVE  writes >= Steps
      BY <1>2 DEF RetriesSuffice
    <2>1. CASE q = p
      BY <1>1, <1>2, <1>7, <2>1
    <2>2. CASE q # p
      BY <1>2, <2>2 DEF IInv, RetriesSuffice
    <2>. QED BY <2>1, <2>2
  <1>. QED BY <1>3, <1>4, <1>5, <1>6, <1>8, <1>9 DEF IInv

\* Without deletions from outside a demo program past Create is alone.
LEMMA Alone ==
    ASSUME IInv, ~removed, NEW p \in Procs, NEW q \in Procs, Working(p), Working(q)
    PROVE  p = q
  BY DEF IInv, Own, Distinct

\* A call that was executed and changed the object.
LEMMA Writing ==
    ASSUME IInv, NEW p \in Procs, at[p] \in {"update", "patch", "delete"},
           NEW new \in Objects, new.uid <= lastUid, Store(new), Answered(p),
           obj.uid # 0,
           at[p] = "update" => new.uid = obj.uid /\ new.del = obj.del,
           lost' = IF at[p] = "delete" /\ obj.uid # mine[p]
                   THEN lost \cup {obj.uid} ELSE lost,
           UNCHANGED <<lastUid, prog, copy, mine, writes, removed>>
    PROVE  IInv'
  <1>0. at[p] \in Calls /\ TypeOK /\ Current
    BY DEF Calls, IInv
  <1>1. /\ faults' \in 0 .. MaxFaults
        /\ \E x \in Calls \cup Ends :
              /\ at' = [at EXCEPT ![p] = x] /\ tries' = tries
              /\ x \notin {"create", "conflict"}
              /\ x = "patch" => prog[p] = "patch"
              /\ prog[p] = "demo" =>
                    /\ x = "get" => at[p] = "create"
                    /\ x = "update" => at[p] = "get"
                    /\ x \in Calls => at[p] \notin {"delete", "patch"}
    BY <1>0, Answering
  <1>2. PICK x \in Calls \cup Ends :
              /\ at' = [at EXCEPT ![p] = x] /\ tries' = tries
              /\ x \notin {"create", "conflict"}
              /\ x = "patch" => prog[p] = "patch"
              /\ prog[p] = "demo" =>
                    /\ x = "get" => at[p] = "create"
                    /\ x = "update" => at[p] = "get"
                    /\ x \in Calls => at[p] \notin {"delete", "patch"}
    BY <1>1
  <1>3. \A q \in Procs : at'[q] = IF q = p THEN x ELSE at[q]
    BY <1>0, <1>2 DEF TypeOK
  <1>4. obj' = new /\ fresh' \in [Procs -> BOOLEAN] /\ Current'
    BY <1>0, Storing
  <1>5. TypeOK'
    <2>1. at' \in [Procs -> Calls \cup Ends]
      BY <1>0, <1>2 DEF TypeOK
    <2>2. lost' \subseteq 1 .. lastUid
      <3>1. obj.uid \in 1 .. lastUid /\ lost \subseteq 1 .. lastUid
        BY <1>0 DEF TypeOK, Objects
      <3>. QED BY <3>1
    <2>. QED BY <1>0, <1>1, <1>2, <1>4, <2>1, <2>2 DEF TypeOK
  <1>6. Family' /\ Distinct'
    BY <1>2, <1>3 DEF IInv, Family, Distinct
  <1>7. \A q \in Procs : prog[q] = "demo" => Working(p) /\ prog[p] = "demo"
    BY <1>0 DEF IInv, Family, Working
  <1>8. ~removed => \A q \in Procs :
           prog[q] = "demo" /\ q # p => at[q] \notin Calls \ {"create"}
    BY <1>7, Alone DEF Working
  <1>9. Own'
    <2>. SUFFICES ASSUME NEW q \in Procs, Working(q)'
                  PROVE  /\ mine[q] # 0
                         /\ \/ new.uid = mine[q] /\ ~new.del
                            \/ mine[q] \in lost' /\ removed
      BY <1>4 DEF Own
    <2>1. Working(q) /\ Working(p) /\ (q = p => at[p] = "update")
      BY <1>2, <1>3, <1>7 DEF Working
    <2>2. mine[q] # 0
      BY <2>1 DEF IInv, Own
    <2>3. CASE mine[q] \in lost /\ removed
      BY <2>2, <2>3
    <2>4. CASE obj.uid = mine[q] /\ ~obj.del
      <3>1. CASE at[p] = "update"
        BY <2>2, <2>4, <3>1
      <3>2. CASE at[p] # "update"
        <4>1. at[p] = "delete"
          BY <2>1, <3>2 DEF IInv, Family, Working
        <4>2. mine[p] # mine[q]
          BY <2>1, <2>2, <3>2 DEF IInv, Distinct
        <4>3. removed
          BY <2>1, <2>4, <4>2 DEF IInv, Own
        <4>. QED BY <2>2, <2>4, <4>1, <4>2, <4>3
      <3>. QED BY <3>1, <3>2
    <2>. QED BY <2>1, <2>3, <2>4 DEF IInv, Own
  <1>10. Tries'
    <2>. SUFFICES ASSUME ~removed, NEW q \in Procs, prog[q] = "demo"
                  PROVE  /\ at'[q] = "create" => tries[q] = 0
                         /\ at'[q] \notin {"get", "update"}
      BY <1>2 DEF Tries
    <2>1. CASE q = p
      BY <1>2, <1>3, <2>1
    <2>2. CASE q # p
      BY <1>3, <1>8, <2>2 DEF IInv, Tries, Calls
    <2>. QED BY <2>1, <2>2
  <1>11. RetriesSuffice'
    BY <1>2, <1>3 DEF IInv, RetriesSuffice
  <1>. QED BY <1>4, <1>5, <1>6, <1>9, <1>10, <1>11 DEF IInv

\* A Create that was executed.
LEMMA Creating ==
    ASSUME IInv, NEW p \in Procs, at[p] = "create", obj.uid = 0,
           lastUid' = lastUid + 1, Store(Created(prog[p], lastUid + 1)),
           mine' = [mine EXCEPT ![p] = lastUid + 1], Answered(p),
           UNCHANGED <<copy, prog, writes, lost, removed>>
    PROVE  IInv'
  <1>0. at[p] \in Calls /\ TypeOK /\ Current /\ lastUid \in Nat
    BY DEF Calls, IInv, TypeOK
  <1>1. /\ faults' \in 0 .. MaxFaults
        /\ \E x \in Calls \cup Ends :
              /\ at' = [at EXCEPT ![p] = x] /\ tries' = tries
              /\ x \notin {"create", "conflict"}
              /\ x = "patch" => prog[p] = "patch"
              /\ prog[p] = "demo" => (x = "update" => at[p] = "get")
    BY <1>0, Answering
  <1>2. PICK x \in Calls \cup Ends :
              /\ at' = [at EXCEPT ![p] = x] /\ tries' = tries
              /\ x \notin {"create", "conflict"}
              /\ x = "patch" => prog[p] = "patch"
              /\ prog[p] = "demo" => (x = "update" => at[p] = "get")
    BY <1>1
  <1>3. /\ \A q \in Procs : at'[q] = IF q = p THEN x ELSE at[q]
        /\ \A q \in Procs : mine'[q] = IF q = p THEN lastUid + 1 ELSE mine[q]
        /\ \A q \in Procs : mine[q] \in 0 .. lastUid
    BY <1>0, <1>2 DEF TypeOK
  <1>4. obj' = Created(prog[p], lastUid + 1) /\ fresh' \in [Procs -> BOOLEAN] /\ Current'
    BY <1>0, Storing
  <1>5. obj' \in Objects /\ obj'.uid = lastUid + 1 /\ ~obj'.del
    <2>1. obj' \in Objects
      BY <1>0, <1>4, Values
    <2>. QED BY <1>4, <2>1 DEF Created, Object
  <1>6. TypeOK'
    <2>1. at' \in [Procs -> Calls \cup Ends]
      BY <1>0, <1>2 DEF TypeOK
    <2>2. mine' \in [Procs -> 0 .. lastUid']
      BY <1>0, <1>3 DEF TypeOK
    <2>3. lost \subseteq 1 .. lastUid'
      BY <1>0 DEF TypeOK
    <2>. QED BY <1>0, <1>1, <1>2, <1>4, <1>5, <2>1, <2>2, <2>3 DEF TypeOK
  <1>7. Family'
    BY <1>2, <1>3 DEF IInv, Family
  <1>8. Distinct'
    BY <1>0, <1>3 DEF IInv, Distinct
  <1>9. \A q \in Procs : Working(q) => mine[q] # 0 /\ mine[q] \in lost /\ removed
    BY DEF IInv, Own
  <1>10. Own'
    <2>. SUFFICES ASSUME NEW q \in Procs, Working(q)'
                  PROVE  /\ mine'[q] # 0
                         /\ \/ obj'.uid = mine'[q] /\ ~obj'.del
                            \/ mine'[q] \in lost /\ removed
      BY DEF Own
    <2>1. CASE q = p
      BY <1>0, <1>3, <1>5, <2>1
    <2>2. CASE q # p
      BY <1>3, <1>9, <2>2 DEF Working
    <2>. QED BY <2>1, <2>2
  <1>11. Tries'
    <2>. SUFFICES ASSUME ~removed, NEW q \in Procs, prog[q] = "demo"
                  PROVE  /\ at'[q] = "create" => tries[q] = 0
                         /\ at'[q] = "get" => tries[q] <= writes
                         /\ at'[q] # "update"
      BY <1>2 DEF Tries
    <2>1. CASE q = p
      <3>1. tries[p] = 0 /\ writes \in Nat
        BY <2>1, <1>0, ScriptsAssumption DEF IInv, Tries, TypeOK
      <3>. QED BY <1>2, <1>3, <2>1, <3>1
    <2>2. CASE q # p
      <3>1. at[q] \notin {"get", "update"}
        BY <1>9 DEF Working, Calls
      <3>. QED BY <1>3, <2>2, <3>1 DEF IInv, Tries
    <2>. QED BY <2>1, <2>2
  <1>12. RetriesSuffice'
    BY <1>2, <1>3 DEF IInv, RetriesSuffice
  <1>. QED BY <1>4, <1>6, <1>7, <1>8, <1>10, <1>11, <1>12 DEF IInv

\* A Get, or a List, that was executed: the object stays as it is.
LEMMA Reading ==
    ASSUME IInv, NEW p \in Procs, at[p] \in {"get", "list"}, Succeed(p),
           UNCHANGED <<obj, lastUid, prog, mine, lost, removed, writes, faults>>,
           \/ UNCHANGED <<copy, fresh>> /\ at[p] = "list"
           \/ /\ copy' = [copy EXCEPT ![p] = obj] /\ obj.uid # 0
              /\ fresh' = [fresh EXCEPT ![p] = TRUE]
    PROVE  IInv'
  <1>0. at[p] \in Calls /\ TypeOK /\ Current
    BY DEF Calls, IInv
  <1>1. PICK x \in Calls \cup Ends :
              /\ at' = [at EXCEPT ![p] = x] /\ tries' = tries
              /\ x \notin {"create", "conflict"}
              /\ x = "patch" => prog[p] = "patch"
              /\ prog[p] = "demo" =>
                    /\ x = "get" => at[p] = "create"
                    /\ x = "update" => at[p] = "get"
    BY <1>0, Succeeding
  <1>2. \A q \in Procs : at'[q] = IF q = p THEN x ELSE at[q]
    BY <1>0, <1>1 DEF TypeOK
  <1>3. /\ copy' \in [Procs -> Objects] /\ fresh' \in [Procs -> BOOLEAN]
        /\ \A q \in Procs \ {p} : copy'[q] = copy[q] /\ fresh'[q] = fresh[q]
        /\ at[p] = "get" => fresh'[p] = TRUE
    <2>1. CASE UNCHANGED <<copy, fresh>> /\ at[p] = "list"
      BY <1>0, <2>1 DEF TypeOK
    <2>2. CASE /\ copy' = [copy EXCEPT ![p] = obj] /\ obj.uid # 0
               /\ fresh' = [fresh EXCEPT ![p] = TRUE]
      <3>1. fresh \in [Procs -> BOOLEAN]
        BY <1>0 DEF TypeOK
      <3>2. fresh' \in [Procs -> BOOLEAN]
        BY <2>2, <3>1, Zenon
      <3>. QED BY <1>0, <2>2, <3>2 DEF TypeOK
    <2>. QED BY <2>1, <2>2
  <1>4. TypeOK'
    <2>1. at' \in [Procs -> Calls \cup Ends]
      BY <1>0, <1>1 DEF TypeOK
    <2>. QED BY <1>0, <1>1, <1>3, <2>1 DEF TypeOK
  <1>5. Family' /\ Distinct'
    BY <1>1, <1>2 DEF IInv, Family, Distinct
  <1>6. Current'
    <2>1. CASE UNCHANGED <<copy, fresh>>
      BY <1>0, <2>1 DEF Current
    <2>2. CASE copy' = [copy EXCEPT ![p] = obj] /\ obj.uid # 0
      <3>1. copy'[p] = obj
        BY <1>0, <2>2 DEF TypeOK
      <3>. QED BY <1>0, <1>3, <2>2, <3>1 DEF Current
    <2>. QED BY <2>1, <2>2
  <1>7. Own'
    <2>. SUFFICES ASSUME NEW q \in Procs, Working(q)'
                  PROVE  /\ mine[q] # 0
                         /\ (obj.uid = mine[q] /\ ~obj.del) \/ (mine[q] \in lost /\ removed)
      BY DEF Own
    <2>1. Working(q)
      BY <1>0, <1>2 DEF Working
    <2>. QED BY <2>1 DEF IInv, Own
  <1>8. Tries'
    <2>. SUFFICES ASSUME ~removed, NEW q \in Procs, prog[q] = "demo"
                  PROVE /\ at'[q] = "create" => tries[q] = 0
                        /\ at'[q] = "get" => tries[q] <= writes
                        /\ at'[q] = "update" =>
                              tries[q] <= writes /\ (~fresh'[q] => tries[q] < writes)
      BY <1>1 DEF Tries
    <2>1. CASE q = p
      BY <1>1, <1>2, <1>3, <2>1 DEF IInv, Tries
    <2>2. CASE q # p
      BY <1>2, <1>3, <2>2 DEF IInv, Tries
    <2>. QED BY <2>1, <2>2
  <1>9. RetriesSuffice'
    BY <1>1, <1>2 DEF IInv, RetriesSuffice
  <1>. QED BY <1>4, <1>5, <1>6, <1>7, <1>8, <1>9 DEF IInv

\* One more foreign write.
LEMMA OtherWriteIInv == IInv /\ OtherWrite => IInv'
  <1>. SUFFICES ASSUME IInv, OtherWrite PROVE IInv'
    OBVIOUS
  <1> DEFINE new == [obj EXCEPT !.note = ~@]
  <1>1. /\ Store(new) /\ writes' = writes + 1 /\ writes' \in 0 .. MaxWrites
        /\ UNCHANGED <<lastUid, prog, at, copy, tries, mine, lost, removed, faults>>
    BY ScriptsAssumption DEF OtherWrite, IInv, TypeOK, history
  <1>2. new \in Objects /\ new.uid = obj.uid /\ new.del = obj.del
    BY DEF IInv, TypeOK, Objects
  <1>. HIDE DEF new
  <1>3. obj' = new /\ fresh' \in [Procs -> BOOLEAN] /\ Current'
    BY <1>1, Storing DEF IInv
  <1>4. TypeOK'
    BY <1>1, <1>2, <1>3 DEF IInv, TypeOK
  <1>5. Family' /\ Distinct'
    BY <1>1 DEF IInv, Family, Distinct
  <1>6. Own'
    BY <1>1, <1>2, <1>3 DEF IInv, Own, Working
  <1>7. /\ writes \in Nat /\ \A q \in Procs : tries[q] \in Nat
        /\ Steps \in Nat
    BY ScriptsAssumption DEF IInv, TypeOK
  <1>8. Tries'
    BY <1>1, <1>7 DEF IInv, Tries
  <1>9. RetriesSuffice'
    BY <1>1, <1>7 DEF IInv, RetriesSuffice
  <1>. QED BY <1>3, <1>4, <1>5, <1>6, <1>8, <1>9 DEF IInv

\* Somebody else deletes the object: whoever was at work on it has lost it.
LEMMA OtherDeleteIInv == IInv /\ OtherDelete => IInv'
  <1>. SUFFICES ASSUME IInv, OtherDelete PROVE IInv'
    OBVIOUS
  <1>1. /\ Store(NoObject) /\ writes' = writes + 1 /\ writes' \in 0 .. MaxWrites
        /\ obj.uid # 0 /\ lost' = lost \cup {obj.uid} /\ removed' = TRUE
        /\ UNCHANGED <<lastUid, prog, at, copy, tries, mine, faults>>
    BY ScriptsAssumption DEF OtherDelete, IInv, TypeOK
  <1>2. NoObject \in Objects /\ NoObject.uid = 0
    BY Values DEF NoObject, Object
  <1>3. obj' = NoObject /\ fresh' \in [Procs -> BOOLEAN] /\ Current'
    BY <1>1, <1>2, Storing DEF IInv
  <1>4. TypeOK'
    <2>1. lost' \subseteq 1 .. lastUid
      <3>1. obj.uid \in 1 .. lastUid /\ lost \subseteq 1 .. lastUid
        BY <1>1 DEF IInv, TypeOK, Objects
      <3>. QED BY <1>1, <3>1
    <2>. QED BY <1>1, <1>2, <1>3, <2>1 DEF IInv, TypeOK
  <1>5. Family' /\ Distinct'
    BY <1>1 DEF IInv, Family, Distinct
  <1>6. Own'
    BY <1>1 DEF IInv, Own, Working
  <1>7. Tries' /\ RetriesSuffice'
    BY <1>1 DEF Tries, RetriesSuffice
  <1>. QED BY <1>3, <1>4, <1>5, <1>6, <1>7 DEF IInv

\* The object is removed; who is at work while it is being deleted lost its own.
LEMMA CollectIInv == IInv /\ Collect => IInv'
  <1>. SUFFICES ASSUME IInv, Collect PROVE IInv'
    OBVIOUS
  <1>1. /\ Store(NoObject) /\ obj.del
        /\ UNCHANGED <<lastUid, prog, at, copy, tries, mine, lost, removed, writes, faults>>
    BY DEF Collect, history
  <1>2. NoObject \in Objects /\ NoObject.uid = 0
    BY Values DEF NoObject, Object
  <1>3. obj' = NoObject /\ fresh' \in [Procs -> BOOLEAN] /\ Current'
    BY <1>1, Storing DEF IInv
  <1>4. TypeOK'
    BY <1>1, <1>2, <1>3 DEF IInv, TypeOK
  <1>5. Family' /\ Distinct' /\ RetriesSuffice'
    BY <1>1 DEF IInv, Family, Distinct, RetriesSuffice
  <1>6. \A q \in Procs : Working(q) => mine[q] # 0 /\ mine[q] \in lost /\ removed
    BY <1>1 DEF IInv, Own
  <1>7. Own'
    BY <1>1, <1>6 DEF Own, Working
  <1>8. Tries'
    BY <1>1, <1>6 DEF IInv, Tries, Working, Calls
  <1>. QED BY <1>3, <1>4, <1>5, <1>7, <1>8 DEF IInv

LEMMA NextIInv == IInv /\ [Next]_vars => IInv'
  <1>. SUFFICES ASSUME IInv, [Next]_vars PROVE IInv'
    OBVIOUS
  <1>0. TypeOK /\ faults \in 0 .. MaxFaults
    BY DEF IInv, TypeOK
  <1>1. ASSUME NEW p \in Procs, NEW err, at[p] \in Calls, Refused(p, err),
               UNCHANGED <<prog, writes, history>>,
               err = "conflict" => at[p] = "update" /\ ~fresh[p]
        PROVE  IInv'
    BY <1>0, <1>1, Failing DEF Refused
  <1>2. ASSUME NEW p \in Procs, Create(p) PROVE IInv'
    <2>1. CASE obj.uid = 0
      BY <1>2, <2>1, Creating DEF Create, history
    <2>2. CASE obj.uid # 0
      BY <1>1, <1>2, <2>2 DEF Create, Calls
    <2>. QED BY <2>1, <2>2
  <1>3. ASSUME NEW p \in Procs, Get(p) PROVE IInv'
    <2>1. CASE obj.uid = 0
      BY <1>1, <1>3, <2>1 DEF Get, Calls
    <2>2. CASE obj.uid # 0
      BY <1>3, <2>2, Reading DEF Get, history
    <2>. QED BY <2>1, <2>2
  <1>4. ASSUME NEW p \in Procs, Update(p) PROVE IInv'
    <2>1. CASE obj.uid = 0
      BY <1>1, <1>4, <2>1 DEF Update, Calls
    <2>2. CASE obj.uid # 0 /\ Conflicts(p)
      <3>1. at[p] = "update" /\ Refused(p, "conflict") /\ UNCHANGED <<prog, writes, history>>
        BY <1>4, <2>2 DEF Update
      <3>2. ~fresh[p]
        BY <2>2 DEF Conflicts
      <3>. QED BY <1>1, <3>1, <3>2 DEF Calls
    <2>3. CASE obj.uid # 0 /\ ~Conflicts(p)
      <3> DEFINE new == Modified(prog[p], copy[p])
      <3>1. copy[p] = obj
        BY <2>3 DEF Conflicts, IInv, Current
      <3>2. obj \in Objects /\ obj.uid <= lastUid
        BY <1>0 DEF TypeOK
      <3>3. new \in Objects /\ new.uid = obj.uid /\ new.del = obj.del
        BY <3>1, <3>2, Values
      <3>4. /\ at[p] = "update" /\ Store(new) /\ Answered(p)
            /\ UNCHANGED <<lastUid, prog, copy, mine, writes, lost, removed>>
        BY <1>4, <2>3 DEF Update, history
      <3>. HIDE DEF new
      <3>. QED BY <2>3, <3>2, <3>3, <3>4, Writing
    <2>. QED BY <2>1, <2>2, <2>3
  <1>5. ASSUME NEW p \in Procs, Patch(p) PROVE IInv'
    <2>1. CASE obj.uid = 0
      BY <1>1, <1>5, <2>1 DEF Patch, Calls
    <2>2. CASE obj.uid # 0
      <3> DEFINE new == [obj EXCEPT !.image = "v2"]
      <3>1. new \in Objects /\ new.uid <= lastUid
        BY <1>0 DEF TypeOK, Objects
      <3>2. /\ at[p] = "patch" /\ Store(new) /\ Answered(p)
            /\ UNCHANGED <<lastUid, prog, copy, mine, writes, lost, removed>>
        BY <1>5, <2>2 DEF Patch, history
      <3>. HIDE DEF new
      <3>. QED BY <2>2, <3>1, <3>2, Writing
    <2>. QED BY <2>1, <2>2
  <1>6. ASSUME NEW p \in Procs, List(p) PROVE IInv'
    BY <1>6, Reading DEF List, history
  <1>7. ASSUME NEW p \in Procs, Delete(p) PROVE IInv'
    <2>1. CASE obj.uid = 0
      BY <1>1, <1>7, <2>1 DEF Delete, Calls, history
    <2>2. CASE obj.uid # 0
      <3> DEFINE new == Deleted(prog[p])
      <3>1. new \in Objects /\ new.uid <= lastUid
        <4>1. NoObject \in Objects /\ NoObject.uid = 0
          BY Values DEF NoObject, Object
        <4>2. [obj EXCEPT !.del = TRUE] \in Objects
              /\ [obj EXCEPT !.del = TRUE].uid = obj.uid
          BY <1>0 DEF TypeOK, Objects
        <4>. QED BY <1>0, <4>1, <4>2 DEF Deleted, TypeOK
      <3>2. /\ at[p] = "delete" /\ Store(new) /\ Answered(p)
            /\ lost' = IF obj.uid # mine[p] THEN lost \cup {obj.uid} ELSE lost
            /\ UNCHANGED <<lastUid, prog, copy, mine, writes, removed>>
        BY <1>7, <2>2 DEF Delete
      <3>. HIDE DEF new
      <3>. QED BY <2>2, <3>1, <3>2, Writing
    <2>. QED BY <2>1, <2>2
  <1>8. ASSUME NEW p \in Procs, Unreachable(p) PROVE IInv'
    <2>1. faults' \in 0 .. MaxFaults
      BY <1>0, <1>8, ScriptsAssumption DEF Unreachable
    <2>. QED BY <1>8, <2>1, Failing DEF Unreachable
  <1>9. CASE UNCHANGED vars
    BY <1>9 DEF vars, history, IInv, TypeOK, Family, Current, Distinct, Own, Working, Tries,
       RetriesSuffice
  <1>. QED BY <1>2, <1>3, <1>4, <1>5, <1>6, <1>7, <1>8, <1>9,
              OtherWriteIInv, OtherDeleteIInv, CollectIInv DEF Next, Step

LEMMA Invariant == Spec => []IInv
  BY InitIInv, NextIInv, PTL DEF Spec

-----------------------------------------------------------------------------
(* Theorems.                                                               *)

\* Type correctness: a retry loop ends after Steps attempts.
THEOREM TypeCorrect == Spec => []TypeOK
  BY Invariant, PTL DEF IInv

\* A demo program past Create works on the object it created, unless another
\* client deleted an object and its own was then taken away, for any number of
\* programs, retries, failed calls and outside deletions: Update and Delete by
\* name reach an object of another run only in the wake of such a deletion.
THEOREM OwnObject == Spec => []OwnObjectOnly
  <1>1. IInv => OwnObjectOnly
    BY DEF IInv, Own, Working, OwnObjectOnly
  <1>. QED BY <1>1, Invariant, PTL

\* RetryOnConflict gives up only when each of its attempts met a foreign write
\* (or the object was deleted from outside).
THEOREM RetriesFair == Spec => []RetriesSuffice
  BY Invariant, PTL DEF IInv

\* No program undoes what others wrote, however old the copy it works on.
THEOREM ChangesOfOthersKept == Spec => OthersPreserved
  <1> DEFINE Kept(p) ==
        Step(p) /\ obj.uid # 0 /\ obj'.uid # 0 =>
          /\ obj'.uid = obj.uid
          /\ obj'.note = obj.note
          /\ obj.del => obj'.del
          /\ prog[p] \notin {"demo", "scale"} => obj'.replicas = obj.replicas
          /\ prog[p] = "scale" => obj'.image = obj.image
  <1>1. ASSUME IInv, NEW p \in Procs PROVE Kept(p)
    <2>. SUFFICES ASSUME Step(p), obj.uid # 0, obj'.uid # 0
                  PROVE  /\ obj'.uid = obj.uid
                         /\ obj'.note = obj.note
                         /\ obj.del => obj'.del
                         /\ prog[p] \notin {"demo", "scale"} => obj'.replicas = obj.replicas
                         /\ prog[p] = "scale" => obj'.image = obj.image
      OBVIOUS
    <2>0. obj \in Objects
      BY <1>1 DEF IInv, TypeOK
    <2>1. CASE obj' = obj
      BY <2>1
    <2>2. CASE Create(p) \/ Get(p) \/ List(p)
      BY <2>1, <2>2 DEF Create, Get, List, Refused
    <2>3. CASE Update(p)
      <3>1. CASE Conflicts(p)
        BY <2>1, <2>3, <3>1 DEF Update, Refused
      <3>2. CASE ~Conflicts(p)
        <4>1. obj' = Modified(prog[p], obj)
          BY <1>1, <2>3, <3>2 DEF Update, Store, Conflicts, IInv, Current
        <4>. QED BY <2>0, <4>1, Values
      <3>. QED BY <3>1, <3>2
    <2>4. CASE Patch(p)
      <3>1. prog[p] = "patch" /\ obj' = [obj EXCEPT !.image = "v2"]
        BY <1>1, <2>4 DEF Patch, Store, IInv, Family
      <3>. QED BY <2>0, <3>1 DEF Objects
    <2>5. CASE Delete(p)
      <3>1. obj' = Deleted(prog[p])
        BY <2>5 DEF Delete, Store
      <3>2. prog[p] = "demo" /\ obj' = [obj EXCEPT !.del = TRUE]
        BY <3>1 DEF Deleted, NoObject, Object
      <3>. QED BY <2>0, <3>2 DEF Objects
    <2>. QED BY <2>2, <2>3, <2>4, <2>5 DEF Step
  <1>2. IInv => [\A p \in Procs : Kept(p)]_vars
    BY <1>1
  <1>. QED BY <1>2, Invariant, PTL DEF OthersPreserved
=============================================================================
