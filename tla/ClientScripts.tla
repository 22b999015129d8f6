--------------------------- MODULE ClientScripts ---------------------------
(***************************************************************************)
(* The client-go example programs that create, change and delete one API   *)
(* object: with the typed clientset, the dynamic client, the REST client   *)
(* and the scale client.  Several of them run at the same time on the      *)
(* object they name, together with other clients, which change a field     *)
(* that no program here knows (a label, an annotation), or delete it.      *)
(*                                                                         *)
(* A program is the sequence of calls that its main makes, and what it     *)
(* does when one of them fails; between two calls anything can happen      *)
(* (some of them even wait for the Return key).  Of the object the fields  *)
(* that are written are kept: the replicas and the image of a Deployment;  *)
(* image also stands for data["app.version"] of the ConfigMap and for      *)
(* status.cost of the Pizza.                                               *)
(***************************************************************************)
EXTENDS Naturals

CONSTANTS Procs,      \* the running programs
          Steps,      \* attempts of retry.DefaultRetry
          MaxWrites,  \* writes of other clients
          MaxFaults   \* calls that fail, executed or not

ASSUME ScriptsAssumption ==
    /\ Steps \in Nat \ {0} /\ MaxWrites \in Nat /\ MaxFaults \in Nat

VARIABLES obj,     \* the object in the API server
          lastUid, \* the UID given out last
          prog,    \* prog[p]: the program that p runs
          at,      \* at[p]: p's next call, or how p ended
          copy,    \* copy[p]: what p's last Get returned
          fresh,   \* fresh[p]: copy[p] has the current resourceVersion
          tries,   \* tries[p]: conflicts RetryOnConflict has swallowed
          mine,    \* mine[p]: UID of the object p created, 0 if none
          lost,    \* UIDs of objects deleted by somebody who did not create them
          removed, \* another client deleted an object
          writes, faults

history == <<lost, removed>>
vars == <<obj, lastUid, prog, at, copy, fresh, tries, mine, history, writes, faults>>

\* Programs that name the same object.
Families == {{"demo"}, {"create", "patch", "scale", "delete"}, {"config"}, {"pizza"}}

Programs == UNION Families

\* The calls in the order of each main; listing Pods leaves no trace.
First(g) == IF g \in {"demo", "config", "create"} THEN "create"
            ELSE IF g = "delete" THEN "delete" ELSE "get"

Then(g, call) ==
    CASE call = "create" -> IF g = "create" THEN "done" ELSE "get"
      [] call = "get"    -> IF g = "patch" THEN "patch" ELSE "update"
      [] call = "update" -> CASE g = "demo"   -> "list"
                              [] g = "config" -> "delete"
                              [] OTHER        -> "done"
      [] call = "list"   -> "delete"
      [] OTHER           -> "done"

Calls == {"create", "get", "update", "patch", "list", "delete"}
Ends  == {"done", "panic", "conflict"}

Object(uid, r, img, note, del) ==
    [uid |-> uid, replicas |-> r, image |-> img, note |-> note, del |-> del]

NoObject == Object(0, 0, "v1", FALSE, FALSE)

\* What the programs ask for in Create.
Created(g, uid) == Object(uid, IF g = "demo" THEN 2 ELSE 1, "v1", FALSE, FALSE)

\* What they change in the object they got, before they Update it.
Modified(g, o) ==
    CASE g = "demo"  -> [o EXCEPT !.replicas = 1, !.image = "v2"]
      [] g = "scale" -> [o EXCEPT !.replicas = 2]
      [] OTHER       -> [o EXCEPT !.image = "v2"]

Objects == [uid : Nat, replicas : 0 .. 2, image : {"v1", "v2"},
            note : BOOLEAN, del : BOOLEAN]

TypeOK ==
    /\ obj \in Objects /\ obj.uid <= lastUid
    /\ lastUid \in Nat
    /\ prog \in [Procs -> Programs]
    /\ at \in [Procs -> Calls \cup Ends]
    /\ copy \in [Procs -> Objects]
    /\ fresh \in [Procs -> BOOLEAN]
    /\ tries \in [Procs -> 0 .. (Steps - 1)]
    /\ mine \in [Procs -> 0 .. lastUid]
    /\ lost \subseteq 1 .. lastUid /\ removed \in BOOLEAN
    /\ writes \in 0 .. MaxWrites
    /\ faults \in 0 .. MaxFaults

\* The object may be there from an earlier run.
Init ==
    /\ \E F \in Families : prog \in [Procs -> F]
    /\ obj \in {NoObject, Object(1, 1, "v1", FALSE, FALSE)}
    /\ lastUid = obj.uid
    /\ at = [p \in Procs |-> First(prog[p])]
    /\ copy = [p \in Procs |-> NoObject]
    /\ fresh = [p \in Procs |-> FALSE]
    /\ tries = [p \in Procs |-> 0]
    /\ mine = [p \in Procs |-> 0]
    /\ lost = {} /\ removed = FALSE
    /\ writes = 0 /\ faults = 0

-----------------------------------------------------------------------------
(* Calls and their answers.                                                *)

Goto(p, where) == at' = [at EXCEPT ![p] = where]

\* The call returned no error.
Succeed(p) == Goto(p, Then(prog[p], at[p])) /\ UNCHANGED tries

\* RetryOnConflict has attempts left.
Retry(p) == tries[p] + 1 < Steps

\* Mutant: the demo programs print their errors as well.
CarriesOnDemo(p) == prog[p] \in {"config", "demo"}

\* listPods, createConfigMap and the others print the error and return.
CarriesOn(p) == prog[p] = "config"

\* Where p goes on when a call returned err: it panics unless it has a use
\* for the error (the scale client's program does not look at the error of
\* Update, and panics on the nil that comes with it).  A failed Get in
\* updateConfigMap leaves the Update out.
OnError(p, err) ==
    CASE prog[p] = "demo" /\ err = "conflict" ->
           IF Retry(p) THEN "get" ELSE "conflict"
      [] CarriesOn(p) ->
           CASE at[p] = "create" -> "get"
             [] at[p] = "delete" -> "done"
             [] OTHER            -> "delete"
      [] err = "notFound" /\ <<prog[p], at[p]>> \in {<<"delete", "delete">>, <<"pizza", "get">>} ->
           "done"
      [] OTHER -> "panic"

Fail(p, err) ==
    /\ Goto(p, OnError(p, err))
    /\ tries' = [tries EXCEPT ![p] =
                   IF err = "conflict" /\ OnError(p, err) = "get" THEN @ + 1 ELSE @]

Refused(p, err) ==
    /\ Fail(p, err)
    /\ UNCHANGED <<obj, lastUid, copy, fresh, mine, faults>>

\* The answer to an executed call arrives or is lost.
Answered(p) ==
    \/ Succeed(p) /\ UNCHANGED faults
    \/ Fail(p, "other") /\ faults < MaxFaults /\ faults' = faults + 1

\* The API server stores new; other copies of a changed object are stale.
Store(new) ==
    /\ obj' = new
    /\ fresh' = [q \in Procs |-> fresh[q] /\ new = obj]

-----------------------------------------------------------------------------
Create(p) ==
    /\ at[p] = "create"
    /\ IF obj.uid # 0
       THEN Refused(p, "exists")
       ELSE /\ lastUid' = lastUid + 1
            /\ Store(Created(prog[p], lastUid + 1))
            /\ mine' = [mine EXCEPT ![p] = lastUid + 1]
            /\ Answered(p)
            /\ UNCHANGED copy
    /\ UNCHANGED <<prog, writes, history>>

\* Mutant: inside the retry loop the object is not read again.
GetOnce(p) ==
    /\ at[p] = "get"
    /\ IF obj.uid = 0
       THEN Refused(p, "notFound")
       ELSE /\ IF tries[p] > 0
               THEN UNCHANGED <<copy, fresh>>
               ELSE /\ copy' = [copy EXCEPT ![p] = obj]
                    /\ fresh' = [fresh EXCEPT ![p] = TRUE]
            /\ Succeed(p)
            /\ UNCHANGED <<obj, lastUid, mine, faults>>
    /\ UNCHANGED <<prog, writes, history>>

Get(p) ==
    /\ at[p] = "get"
    /\ IF obj.uid = 0
       THEN Refused(p, "notFound")
       ELSE /\ copy' = [copy EXCEPT ![p] = obj]
            /\ fresh' = [fresh EXCEPT ![p] = TRUE]
            /\ Succeed(p)
            /\ UNCHANGED <<obj, lastUid, mine, faults>>
    /\ UNCHANGED <<prog, writes, history>>

\* Mutant: option 1 of the comment, Update(deployment): no resourceVersion.
ConflictsNever(p) == FALSE

\* The copy's resourceVersion is not the current one.
Conflicts(p) == ~fresh[p]

Update(p) ==
    /\ at[p] = "update"
    /\ CASE obj.uid = 0                    -> Refused(p, "notFound")
         [] obj.uid # 0 /\ Conflicts(p)  -> Refused(p, "conflict")
         [] obj.uid # 0 /\ ~Conflicts(p) ->
              /\ Store(Modified(prog[p], copy[p]))
              /\ Answered(p)
              /\ UNCHANGED <<lastUid, copy, mine>>
    /\ UNCHANGED <<prog, writes, history>>

\* A strategic merge patch of the image: no resourceVersion, the server
\* applies it to whatever is there.
Patch(p) ==
    /\ at[p] = "patch"
    /\ IF obj.uid = 0
       THEN Refused(p, "notFound")
       ELSE /\ Store([obj EXCEPT !.image = "v2"])
            /\ Answered(p)
            /\ UNCHANGED <<lastUid, copy, mine>>
    /\ UNCHANGED <<prog, writes, history>>

List(p) ==
    /\ at[p] = "list"
    /\ Succeed(p)
    /\ UNCHANGED <<obj, lastUid, prog, copy, fresh, mine, history, writes, faults>>

\* Mutant: DeleteOptions with DryRun.
DeletedDryRun(g) == obj

\* The demo programs delete in the foreground: the object is only marked.
Deleted(g) == IF g = "demo" THEN [obj EXCEPT !.del = TRUE] ELSE NoObject

Delete(p) ==
    /\ at[p] = "delete"
    /\ IF obj.uid = 0
       THEN Refused(p, "notFound") /\ UNCHANGED lost
       ELSE /\ Store(Deleted(prog[p]))
            /\ lost' = IF obj.uid = mine[p] THEN lost ELSE lost \cup {obj.uid}
            /\ Answered(p)
            /\ UNCHANGED <<lastUid, copy, mine>>
    /\ UNCHANGED <<prog, writes, removed>>

-----------------------------------------------------------------------------
(* The rest of the world.                                                  *)

\* A call does not get through.
Unreachable(p) ==
    /\ at[p] \in Calls
    /\ faults < MaxFaults /\ faults' = faults + 1
    /\ Fail(p, "other")
    /\ UNCHANGED <<obj, lastUid, prog, copy, fresh, mine, history, writes>>

\* Another client writes the field that is none of the programs' business.
OtherWrite ==
    /\ obj.uid # 0
    /\ writes < MaxWrites /\ writes' = writes + 1
    /\ Store([obj EXCEPT !.note = ~@])
    /\ UNCHANGED <<lastUid, prog, at, copy, tries, mine, history, faults>>

\* Another client deletes the object, in the background; a program that comes
\* to its Create later makes a new one of the same name.
OtherDelete ==
    /\ obj.uid # 0 /\ ~obj.del
    /\ writes < MaxWrites /\ writes' = writes + 1
    /\ Store(NoObject)
    /\ lost' = lost \cup {obj.uid} /\ removed' = TRUE
    /\ UNCHANGED <<lastUid, prog, at, copy, tries, mine, faults>>

\* The dependents are gone: the garbage collector removes the object.
Collect ==
    /\ obj.del
    /\ Store(NoObject)
    /\ UNCHANGED <<lastUid, prog, at, copy, tries, mine, history, writes, faults>>

-----------------------------------------------------------------------------
Step(p) ==
    \/ Create(p) \/ Get(p) \/ Update(p) \/ Patch(p) \/ List(p) \/ Delete(p)

Next ==
    \/ \E p \in Procs : Step(p) \/ Unreachable(p)
    \/ OtherWrite \/ OtherDelete
    \/ Collect

Spec == Init /\ [][Next]_vars

\* Programs run on and the garbage collector does its work.
Fairness == WF_vars(Collect) /\ \A p \in Procs : WF_vars(Step(p))

FairSpec == Spec /\ Fairness

-----------------------------------------------------------------------------
(* Properties.                                                             *)

\* "This way, you can preserve changes made by other clients": whatever a
\* program writes back, and however old its copy, it changes only the
\* fields it set; the Deployment programs leave each other's fields alone.
OthersPreserved ==
    [][\A p \in Procs : Step(p) /\ obj.uid # 0 /\ obj'.uid # 0 =>
          /\ obj'.uid = obj.uid
          /\ obj'.note = obj.note
          /\ obj.del => obj'.del
          /\ prog[p] \notin {"demo", "scale"} => obj'.replicas = obj.replicas
          /\ prog[p] = "scale" => obj'.image = obj.image]_vars

\* A demo program that got past Create finds its object by name only.  It is
\* the one it created as long as nobody deletes that under it; when somebody
\* does, while the program waits for the Return key say, its Update and its
\* Delete may hit the object of the next run, whose owner then is in the same
\* position.  But it takes a client that is none of these programs to begin
\* with: on their own they never get at each other's objects.
OwnObjectOnly ==
    \A p \in Procs :
        prog[p] = "demo" /\ at[p] \in Calls \ {"create"} =>
            \/ obj.uid = mine[p] /\ ~obj.del
            \/ mine[p] \in lost /\ removed

\* RetryOnConflict gives up only after that many other writes got in its
\* way, never because it keeps using a copy that is out of date.  (Once
\* objects were deleted from outside, the writes of other runs count too.)
RetriesSuffice ==
    \A p \in Procs : at[p] = "conflict" => writes >= Steps \/ removed

\* "Successfully running this program will clean the created artifacts."
CleansUp ==
    \A p \in Procs :
        (prog[p] = "demo" /\ at[p] = "done") ~> (obj.uid # mine[p])
=============================================================================
