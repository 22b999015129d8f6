-------------------------- MODULE InformerExamples --------------------------
(***************************************************************************)
(* The programs that keep a local cache of API objects: the informer       *)
(* examples (typed, dynamic, generic), the controller example and the      *)
(* reflector example.                                                      *)
(*                                                                         *)
(* Between API server and cache is client-go, which the programs rely on   *)
(* and which is modelled as they use it: a Reflector lists once, follows a *)
(* watch, and lists again when the watch cannot be continued; a DeltaFIFO  *)
(* collects deltas per object; Pop applies them to the store and notifies  *)
(* the handlers.  The reflector example has no DeltaFIFO and no handlers.  *)
(***************************************************************************)
EXTENDS Naturals, Sequences, FiniteSets

CONSTANTS Foreign,    \* Foreign[p]: objects of others when program p runs
          Early,      \* those of them that are there at the start
          MaxWrites,  \* MaxWrites[p]: their writes when program p runs
          MaxRelists, \* watches that cannot be continued
          MaxResyncs  \* resync periods that end

Programs == {"simple", "watch", "controller", "reflector", "advanced"}

\* Those whose Reflector fills a plain store.
Plain == {"reflector", "advanced"}

ASSUME InformerAssumption ==
    /\ DOMAIN Foreign = Programs
    /\ \A p \in Programs : /\ IsFiniteSet(Foreign[p])
                           /\ {"none", "first", "second"} \cap Foreign[p] = {}
    /\ MaxWrites \in [Programs -> Nat] /\ MaxRelists \in Nat /\ MaxResyncs \in Nat

VARIABLES prog,     \* which example runs
          pc,       \* where its main (or the goroutine that polls) is
          key,      \* the key the controller example looks up
          objs,     \* objs[n]: resourceVersion of n in the API server, 0: none
          rv,       \* the resourceVersion given out last
          events,   \* what the watch has still to deliver
          gone,     \* some object was deleted
          stopped,  \* stopCh is closed
          listed,   \* the Reflector has listed
          order,    \* keys queued in the DeltaFIFO
          deltas,   \* deltas[n]: queued deltas of n
          toSync,   \* keys of the first list not yet popped
          work,     \* deltas that Pop has taken and not yet processed
          store,    \* store[n]: resourceVersion of n in the cache, 0: none
          notes,    \* notifications on their way to the handlers
          seen,     \* objects that exist as far as the handlers were told
          writes, relists, resyncs

serverVars == <<objs, rv, gone>>
fifoVars   == <<order, deltas, toSync>>
cacheVars  == <<work, store, notes, seen>>
budgetVars == <<writes, relists, resyncs>>
vars == <<prog, pc, key, stopped, serverVars, events, listed, fifoVars, cacheVars, budgetVars>>

Names    == (UNION {Foreign[p] : p \in Programs}) \cup {"first", "second"}
NoKey    == "none"
NoWork   == [name |-> NoKey, ds |-> <<>>]
Versions == 0 .. (MaxWrites[prog] + 5)

Delta == [type : {"put", "deleted", "tombstone"}, ver : Versions]
Note  == [type : {"add", "update", "delete", "tombstone"}, name : Names]

Places == {"createFirst", "sync", "list", "createSecond", "deleteFirst",
           "deleteSecond", "block", "poll", "getKey", "get", "exit", "error", "panic"}

TypeOK ==
    /\ prog \in Programs
    /\ pc \in Places
    /\ key \in Names \cup {NoKey}
    /\ objs \in [Names -> Versions] /\ rv \in Versions
    /\ events \in Seq([name : Names, ver : Versions])
    /\ gone \in BOOLEAN /\ stopped \in BOOLEAN /\ listed \in BOOLEAN
    /\ order \in Seq(Names)
    /\ deltas \in [Names -> Seq(Delta)]
    /\ \A n \in Names : deltas[n] # <<>> <=> \E i \in DOMAIN order : order[i] = n
    /\ toSync \in 0 .. Len(order)
    /\ work = NoWork \/ work \in [name : Names, ds : Seq(Delta)]
    /\ store \in [Names -> Versions]
    /\ notes \in Seq(Note)
    /\ seen \subseteq Names
    /\ writes \in 0 .. MaxWrites[prog] /\ relists \in 0 .. MaxRelists
    /\ resyncs \in 0 .. MaxResyncs

\* The early objects are there, the others are not.
Init ==
    /\ prog \in Programs
    /\ pc = CASE prog = "simple"    -> "createFirst"
              [] prog = "reflector" -> "poll"
              [] OTHER              -> "sync"
    /\ key = NoKey
    /\ rv = 1
    /\ objs = [n \in Names |-> IF n \in Early \cap Foreign[prog] THEN 1 ELSE 0]
    /\ events = <<>> /\ listed = FALSE /\ gone = FALSE /\ stopped = FALSE
    /\ order = <<>> /\ deltas = [n \in Names |-> <<>>] /\ toSync = 0
    /\ work = NoWork
    /\ store = [n \in Names |-> 0]
    /\ notes = <<>> /\ seen = {}
    /\ writes = 0 /\ relists = 0 /\ resyncs = 0

Running  == pc \notin {"exit", "error", "panic"}
Started  == Running /\ pc # "createFirst" /\ ~stopped
Present(f) == {n \in Names : f[n] # 0}

-----------------------------------------------------------------------------
(* The API server.                                                         *)

\* n gets a new version, or goes; a watch that is open hears of it.
Write(n, present) ==
    LET ver == IF present THEN rv + 1 ELSE 0
    IN  /\ rv' = rv + 1
        /\ objs' = [objs EXCEPT ![n] = ver]
        /\ gone' = (gone \/ ~present)
        /\ events' = IF listed THEN Append(events, [name |-> n, ver |-> ver]) ELSE events

\* Others create, update and delete objects.
OtherWrite(n) ==
    /\ Running
    /\ writes < MaxWrites[prog] /\ writes' = writes + 1
    /\ \/ Write(n, TRUE)
       \/ objs[n] # 0 /\ Write(n, FALSE)
    /\ UNCHANGED <<prog, pc, key, stopped, listed, fifoVars, cacheVars, relists, resyncs>>

-----------------------------------------------------------------------------
(* DeltaFIFO.  Its operations are critical sections, and Pop keeps the     *)
(* lock while it processes what it has popped.                             *)

\* Mutant: a deletion is queued after another one.
QueuedAll(ds, d) == Append(ds, d)

\* Two deletions in a row are one, preferably not a tombstone.
Queued(ds, d) ==
    IF d.type # "put" /\ ds # <<>> /\ ds[Len(ds)].type # "put"
    THEN IF d.type = "tombstone" THEN ds ELSE [ds EXCEPT ![Len(ds)] = d]
    ELSE Append(ds, d)

\* New deltas ds of the objects in its domain are queued.  Go ranges over
\* maps in any order; new keys are queued in some order.
Enqueue(new) ==
    /\ deltas' = [n \in Names |-> IF n \in DOMAIN new THEN Queued(deltas[n], new[n])
                                                      ELSE deltas[n]]
    /\ \E s \in [1 .. Cardinality({n \in DOMAIN new : deltas[n] = <<>>}) -> DOMAIN new] :
          /\ {s[i] : i \in DOMAIN s} = {n \in DOMAIN new : deltas[n] = <<>>}
          /\ order' = order \o s

\* Mutant: what was not listed is forgotten.
ReplacementListed ==
    [n \in Present(objs) |-> [type |-> "put", ver |-> objs[n]]]

\* Replace: a delta for all that was listed, a tombstone for all that the
\* queue or the store know of and that was not.
Replacement ==
    [n \in Present(objs) \cup Present(store) \cup {k \in Names : deltas[k] # <<>>} |->
        IF objs[n] # 0 THEN [type |-> "put", ver |-> objs[n]]
                       ELSE [type |-> "tombstone", ver |-> 0]]

\* initialPopulationCount, set by the first Replace.
Population == Cardinality(DOMAIN Replacement)

\* Mutant: HasSynced as soon as the list is in the queue.
HasSyncedEarly == listed

\* HasSynced: the first list has been popped and processed.
HasSynced == listed /\ toSync = 0 /\ work = NoWork

-----------------------------------------------------------------------------
(* Reflector.ListAndWatch                                                  *)

\* Store.Replace with the list at the start, and again when the watch cannot
\* be continued.
List ==
    /\ Started /\ work = NoWork
    /\ IF listed THEN relists < MaxRelists /\ relists' = relists + 1
                 ELSE UNCHANGED relists
    /\ listed' = TRUE
    /\ events' = <<>>
    /\ IF prog \in Plain
       THEN /\ store' = objs
            /\ UNCHANGED fifoVars
       ELSE /\ Enqueue(Replacement)
            /\ toSync' = IF listed THEN toSync ELSE Population
            /\ UNCHANGED store
    /\ UNCHANGED <<prog, pc, key, stopped, serverVars, work, notes, seen, writes, resyncs>>

\* The watch delivers an event: Add, Update or Delete.  A deletion that a
\* relist has dealt with already is dropped.
Watch ==
    /\ Started /\ work = NoWork /\ events # <<>>
    /\ LET e == Head(events)
       IN  IF prog \in Plain
           THEN /\ store' = [store EXCEPT ![e.name] = e.ver]
                /\ UNCHANGED <<order, deltas>>
           ELSE /\ IF e.ver = 0 /\ store[e.name] = 0 /\ deltas[e.name] = <<>>
                   THEN UNCHANGED <<order, deltas>>
                   ELSE Enqueue([n \in {e.name} |->
                          [type |-> IF e.ver = 0 THEN "deleted" ELSE "put", ver |-> e.ver]])
                /\ UNCHANGED store
    /\ events' = Tail(events)
    /\ UNCHANGED <<prog, pc, key, stopped, serverVars, listed, toSync, work, notes, seen, budgetVars>>

\* Mutant: objects with queued deltas are resynced too.
ResyncedAll == Present(store)

\* DeltaFIFO.Resync: the stored objects that have no deltas queued.
Resynced == {n \in Present(store) : deltas[n] = <<>>}

\* The resync period of the factory is over.
Resync ==
    /\ Started /\ work = NoWork /\ listed
    /\ prog \in {"simple", "watch"} /\ Resynced # {}
    /\ resyncs < MaxResyncs /\ resyncs' = resyncs + 1
    /\ Enqueue([n \in Resynced |-> [type |-> "put", ver |-> store[n]]])
    /\ UNCHANGED <<prog, pc, key, stopped, serverVars, events, listed, toSync, cacheVars, writes, relists>>

-----------------------------------------------------------------------------
(* processDeltas                                                           *)

\* OnAdd, OnUpdate or OnDelete.
Announced(n, d) ==
    CASE d.type = "put"     -> IF store[n] = 0 THEN "add" ELSE "update"
      [] d.type = "deleted" -> "delete"
      [] OTHER              -> "tombstone"

\* A delta goes to the store and to the handlers.  An informer factory queues
\* the notifications; the controller example's informer calls the handlers
\* itself before it goes on.
Apply(n, ds) ==
    /\ prog = "controller" => notes = <<>>
    /\ store' = [store EXCEPT ![n] = Head(ds).ver]
    /\ notes' = Append(notes, [type |-> Announced(n, Head(ds)), name |-> n])
    /\ work' = IF Len(ds) = 1 THEN NoWork ELSE [name |-> n, ds |-> Tail(ds)]
    /\ UNCHANGED <<prog, pc, key, stopped, serverVars, events, listed, seen, budgetVars>>

\* Pop takes all deltas of the first key and starts with the first of them.
Pop ==
    /\ Started /\ work = NoWork /\ order # <<>>
    /\ Apply(Head(order), deltas[Head(order)])
    /\ order' = Tail(order)
    /\ deltas' = [deltas EXCEPT ![Head(order)] = <<>>]
    /\ toSync' = IF toSync = 0 THEN 0 ELSE toSync - 1

\* The further deltas of the key.
Process ==
    /\ Started /\ work # NoWork
    /\ Apply(work.name, work.ds)
    /\ UNCHANGED fifoVars

\* What the handlers know after AddFunc, UpdateFunc or DeleteFunc.
Told(e) == IF e.type \in {"add", "update"} THEN seen \cup {e.name} ELSE seen \ {e.name}

\* The handlers.  All they do is print; DeleteFunc asserts that it got the
\* object, which a tombstone is not, and the panic ends the program.
Handle ==
    /\ Started /\ notes # <<>>
    /\ LET e == Head(notes)
       IN  /\ seen' = Told(e)
           /\ pc' = IF e.type = "tombstone" THEN "panic" ELSE pc
    /\ notes' = Tail(notes)
    /\ UNCHANGED <<prog, key, stopped, serverVars, events, listed, fifoVars, work, store, budgetVars>>

-----------------------------------------------------------------------------
(* The programs themselves.                                                *)

Goto(from, to) ==
    /\ pc = from /\ pc' = to
    /\ UNCHANGED <<prog, stopped, listed, fifoVars, cacheVars, budgetVars>>

CreateFirst ==
    /\ Goto("createFirst", "sync")
    /\ Write("first", TRUE) /\ UNCHANGED key

\* WaitForCacheSync, and what comes after it.
WaitForCacheSync ==
    /\ HasSynced /\ prog \notin Plain
    /\ Goto("sync", CASE prog = "simple"     -> "list"
                      [] prog = "controller" -> "poll"
                      [] OTHER               -> "block")
    /\ UNCHANGED <<serverVars, events, key>>

\* Lister().List(selector): exactly one object carries the label.
ListByLabel ==
    /\ Goto("list", IF Cardinality(Present(store) \cap {"first", "second"}) = 1
                    THEN "createSecond" ELSE "panic")
    /\ UNCHANGED <<serverVars, events, key>>

CreateSecond ==
    /\ Goto("createSecond", "deleteFirst")
    /\ Write("second", TRUE) /\ UNCHANGED key

DeleteFirst ==
    /\ Goto("deleteFirst", "deleteSecond")
    /\ Write("first", FALSE) /\ UNCHANGED key

DeleteSecond ==
    /\ Goto("deleteSecond", "block")
    /\ Write("second", FALSE) /\ UNCHANGED key

\* A call of the API server that fails ends the program: its error goes to
\* panic(err.Error()).  The place is "error" here, which keeps it apart from
\* the panics the program does not mean.
CallFails ==
    /\ prog = "simple"
    /\ \E p \in {"createFirst", "createSecond", "deleteFirst", "deleteSecond"} :
          Goto(p, "error")
    /\ UNCHANGED <<serverVars, events, key>>

\* The simple programs sleep for ten seconds and return.
Exit ==
    /\ prog = "simple"
    /\ Goto("block", "exit")
    /\ UNCHANGED <<serverVars, events, key>>

\* Mutant: the keys are not counted first.
PollUnchecked ==
    /\ Goto("poll", "getKey")
    /\ UNCHANGED <<serverVars, events, key>>

\* len(ListKeys()) > 0: go on to ListKeys()[0].
Poll ==
    /\ Present(store) # {}
    /\ Goto("poll", "getKey")
    /\ UNCHANGED <<serverVars, events, key>>

\* The second ListKeys() may be empty by now.  The reflector example prints
\* the key and ends, the controller example looks it up.
GetKey ==
    /\ IF Present(store) = {}
       THEN Goto("getKey", "panic") /\ UNCHANGED key
       ELSE /\ Goto("getKey", IF prog = "reflector" THEN "exit" ELSE "get")
            /\ IF prog = "reflector" THEN UNCHANGED key ELSE key' \in Present(store)
    /\ UNCHANGED <<serverVars, events>>

\* GetByKey: no object, no accessor, and GetName panics.
GetByKey ==
    /\ Goto("get", IF store[key] = 0 THEN "panic" ELSE "block")
    /\ UNCHANGED <<serverVars, events, key>>

-----------------------------------------------------------------------------
Main ==
    \/ CreateFirst \/ WaitForCacheSync \/ ListByLabel \/ CreateSecond
    \/ DeleteFirst \/ DeleteSecond \/ Poll \/ GetKey \/ GetByKey

Next ==
    \/ List \/ Watch \/ Resync \/ Pop \/ Process \/ Handle
    \/ Main \/ CallFails \/ Exit
    \/ \E n \in Foreign[prog] : OtherWrite(n)

Spec == Init /\ [][Next]_vars

\* The goroutines of client-go and of the program run.  That the program
\* returns, that its calls fail, that the watch breaks, that resync periods
\* end and that others write is not required.
Fairness ==
    /\ WF_vars(~listed /\ List) /\ WF_vars(Watch)
    /\ WF_vars(Pop) /\ WF_vars(Process) /\ WF_vars(Handle)
    /\ WF_vars(Main)

FairSpec == Spec /\ Fairness

-----------------------------------------------------------------------------
(* Properties.                                                             *)

\* After WaitForCacheSync the lister has the object created before the
\* informer was started, and only that: panic("expected ConfigMap not found")
\* is never reached.
ExpectedFound ==
    pc = "list" => Present(store) \cap {"first", "second"} = {"first"}

\* A program panics only after an object was deleted: the polling programs,
\* when the store they found filled is empty at the next call, the others,
\* when a relist turned the deletion into a tombstone; the one that takes its
\* Pod from a single List never does.  In particular the lookup of the
\* expected object never fails.  (The panics on the error of a failed Create
\* or Delete, pc = "error", are not meant.)
PanicsExplained ==
    pc = "panic" => /\ gone
                    /\ prog \in {"simple", "watch"} => relists > 0
                    /\ prog # "advanced"

\* Handlers are told of an object's addition before anything else, and of
\* nothing after its deletion until it is added again, relists that find
\* deletions queued already, resyncs and compressed deltas included.  The
\* notes in using-informers/README.md and using-controller/README.md promise
\* no order of events at all; between objects there is none indeed, here the
\* events of one object are compared.
EventOrder ==
    [][notes # <<>> /\ notes' = Tail(notes) =>
          (Head(notes).type = "add" <=> Head(notes).name \notin seen)]_vars

\* The cache never goes back to an older version of an object.
NeverBack ==
    [][\A n \in Names : store[n] # 0 /\ store'[n] # 0 => store'[n] >= store[n]]_vars

\* "All ConfigMaps added, updated, or deleted after the informer has been
\* synced will trigger the corresponding callback call": cache and handlers
\* end up with what is in the API server, unless the program ended first or
\* stopped its Reflector.
Converges ==
    <>[](\/ ~Running
         \/ stopped
         \/ /\ store = objs
            /\ prog \notin Plain => seen = Present(objs))
=============================================================================
