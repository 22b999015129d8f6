--------------------------- MODULE InformerProofs ---------------------------
(***************************************************************************)
(* Proofs about InformerExamples and AdvancedReflector, for any objects of *)
(* others and any number of their writes, relists and resyncs.             *)
(*                                                                         *)
(* The invariant follows the versions of an object on their way from the   *)
(* API server (objs) through the watch (events), the DeltaFIFO and the     *)
(* deltas being processed (Pending) to the store, and from there as        *)
(* notifications (notes) to the handlers (seen).                           *)
(***************************************************************************)
EXTENDS AdvancedReflector, SequenceTheorems, FiniteSetTheorems, TLAPS

\* The deltas of n that the store has still to see, in their order.
Pending(n) == IF work.name = n THEN work.ds ELSE deltas[n]

\* Where the main of each program can be.
PlacesOf(p) ==
    CASE p = "simple"     -> {"createFirst", "sync", "list", "createSecond", "deleteFirst",
                              "deleteSecond", "block", "exit", "error", "panic"}
      [] p = "watch"      -> {"sync", "block", "panic"}
      [] p = "controller" -> {"sync", "poll", "getKey", "get", "block", "panic"}
      [] p = "reflector"  -> {"poll", "getKey", "exit", "panic"}
      [] p = "advanced"   -> {"sync", "block", "exit"}

ProgramInv ==
    /\ pc \in PlacesOf(prog)
    /\ pc = "get" => key \in Names
    /\ pc = "createFirst" => ~listed

\* How many of its own writes the program has done.
Done(place) ==
    CASE place = "createFirst" -> 0
      [] place \in {"sync", "list", "createSecond"} -> 1
      [] place = "deleteFirst" -> 2
      [] place = "deleteSecond" -> 3
      [] OTHER -> 4

CountInv == rv \in 1 .. (1 + writes + Done(pc))

\* The DeltaFIFO queues a key once, and Pop takes all its deltas; a plain
\* store has no DeltaFIFO, and before the first list everything is empty.
FifoInv ==
    /\ \A i, j \in DOMAIN order : order[i] = order[j] => i = j
    /\ work # NoWork => work.ds # <<>> /\ deltas[work.name] = <<>>
    /\ prog \in Plain => work = NoWork /\ order = <<>> /\ notes = <<>>
    /\ ~listed => /\ events = <<>> /\ order = <<>> /\ work = NoWork
                  /\ \A n \in Names : store[n] = 0

\* No older than, as far as both are versions.
Upto(a, b) == b = 0 \/ a <= b

\* Versions only grow along the way of an object n, whose version in the
\* store is s and in the API server o: those of the store, ...
RisingStore(s, o, r) == o <= r /\ s <= r /\ Upto(s, o)

\* ... of the pending deltas q, ...
RisingPending(q, s, o, r) ==
    \A i \in DOMAIN q :
        /\ q[i].ver <= r
        /\ Upto(s, q[i].ver) /\ Upto(q[i].ver, o)
        /\ \A j \in DOMAIN q : i < j => Upto(q[i].ver, q[j].ver)

\* ... and of the events behind them.
RisingEvents(n, ev, q, s, o, r) ==
    \A k \in DOMAIN ev : ev[k].name = n =>
        /\ ev[k].ver <= r
        /\ Upto(s, ev[k].ver) /\ Upto(ev[k].ver, o)
        /\ \A i \in DOMAIN q : Upto(q[i].ver, ev[k].ver)
        /\ \A l \in DOMAIN ev : k < l /\ ev[l].name = n => Upto(ev[k].ver, ev[l].ver)

Rising(n, ev, q, s, o, r) ==
    /\ RisingStore(s, o, r)
    /\ RisingPending(q, s, o, r)
    /\ RisingEvents(n, ev, q, s, o, r)

RisingInv == \A n \in Names : Rising(n, events, Pending(n), store[n], objs[n], rv)

\* A deletion is pending only of an object that the store will have by then.
Deletion(q, s) ==
    \A i \in DOMAIN q :
        /\ q[i].type = "put" <=> q[i].ver # 0
        /\ i = 1 /\ q[i].type # "put" => s # 0
        /\ i > 1 /\ q[i].type # "put" => q[i - 1].type = "put"

DeletionInv == \A n \in Names : Deletion(Pending(n), store[n])

\* What the notifications s that are on their way will make of what the
\* handlers know: the first of an object fits what they know now, ...
Deletes == {"delete", "tombstone"}

Between(s, i, j, n) == \E k \in DOMAIN s : i < k /\ k < j /\ s[k].name = n

FirstFits(s, known) ==
    \A i \in DOMAIN s : ~Between(s, 0, i, s[i].name) =>
        (s[i].type = "add" <=> s[i].name \notin known)

\* ... a later one the one before it, ...
NextFits(s) ==
    \A i, j \in DOMAIN s :
        i < j /\ s[i].name = s[j].name /\ ~Between(s, i, j, s[i].name) =>
            (s[j].type = "add" <=> s[i].type \in Deletes)

\* ... and the last one the store c, ...
LastFits(s, c) ==
    \A i \in DOMAIN s : ~Between(s, i, Len(s) + 1, s[i].name) =>
        (s[i].type \in Deletes <=> c[s[i].name] = 0)

\* ... as does what they know of an object of which nothing is on its way.
KnownFits(s, known, c) ==
    \A n \in Names : ~Between(s, 0, Len(s) + 1, n) => (n \in known <=> c[n] # 0)

NotesInv ==
    /\ FirstFits(notes, seen) /\ NextFits(notes) /\ LastFits(notes, store)
    /\ prog \notin Plain => KnownFits(notes, seen, store)

\* Tombstones come from relists that missed a deletion.
TombstoneInv ==
    /\ \A n \in Names : \A i \in DOMAIN Pending(n) :
          Pending(n)[i].type = "tombstone" => gone /\ relists > 0
    /\ \A i \in DOMAIN notes : notes[i].type = "tombstone" => gone /\ relists > 0

\* As long as nothing was deleted, all that is known anywhere exists.
NothingGone ==
    ~gone =>
        /\ \A n \in Names :
              /\ store[n] # 0 \/ DOMAIN Pending(n) # {} => objs[n] # 0
              /\ \A i \in DOMAIN Pending(n) : Pending(n)[i].ver # 0
        /\ \A k \in DOMAIN events : events[k].ver # 0 /\ objs[events[k].name] # 0
        /\ pc = "getKey" => Present(store) # {}
        /\ pc = "get" => store[key] # 0

\* The object of the simple programs that is not created yet ...
SecondUnknown ==
    prog = "simple" /\ pc \in {"createFirst", "sync", "list", "createSecond"} =>
        /\ objs["second"] = 0 /\ store["second"] = 0 /\ DOMAIN Pending("second") = {}
        /\ \A k \in DOMAIN events : events[k].name # "second"

\* ... and the one that is there all the time: it is in the first list, and
\* what counts the keys of that list goes down to zero only when it is in the
\* store.
FirstQueued ==
    \/ store["first"] # 0 \/ work.name = "first"
    \/ \E i \in 1 .. toSync : order[i] = "first"

FirstThere ==
    prog = "simple" /\ pc \in {"sync", "list", "createSecond", "deleteFirst"} =>
        /\ objs["first"] # 0
        /\ \A i \in DOMAIN Pending("first") : Pending("first")[i].ver # 0
        /\ \A k \in DOMAIN events : events[k].name = "first" => events[k].ver # 0
        /\ listed => FirstQueued
        /\ pc # "sync" => store["first"] # 0

IInv ==
    /\ TypeOK /\ ProgramInv /\ CountInv /\ FifoInv
    /\ RisingInv /\ DeletionInv /\ NotesInv
    /\ TombstoneInv /\ NothingGone /\ PanicsExplained
    /\ SecondUnknown /\ FirstThere

GoInv ==
    /\ GoTypeOK
    /\ polling = "update" => pods0 \in Names /\ podCount < MaxPolls
-----------------------------------------------------------------------------
(* Facts about the operators.                                              *)

\* Who names objects.
LEMMA NamesMember ==
    \A x : x \in Names <=> (\E p \in Programs : x \in Foreign[p]) \/ x \in {"first", "second"}
<1>1. \A x : x \in UNION {Foreign[p] : p \in Programs} <=> \E p \in Programs : x \in Foreign[p]
  BY Zenon
<1>2. \A x : x \in Names <=> x \in UNION {Foreign[p] : p \in Programs} \/ x \in {"first", "second"}
  BY Zenon DEF Names
<1> QED
  BY <1>1, <1>2, Zenon

\* There are finitely many objects, so sets of them can be counted.
LEMMA NamesFinite ==
    ASSUME NEW S, S \subseteq Names
    PROVE  IsFiniteSet(S) /\ Cardinality(S) \in Nat
<1>1. \A p \in Programs : IsFiniteSet(Foreign[p])
  BY InformerAssumption
<1>2. IsFiniteSet({"first"} \cup {"second"})
  BY FS_Singleton, FS_AddElement
<1>3. IsFiniteSet(Foreign["simple"] \cup Foreign["watch"])
  BY <1>1, FS_Union DEF Programs
<1>4. IsFiniteSet(Foreign["controller"] \cup Foreign["reflector"])
  BY <1>1, FS_Union DEF Programs
<1>5. IsFiniteSet(Foreign["advanced"] \cup ({"first"} \cup {"second"}))
  BY <1>1, <1>2, FS_Union DEF Programs
<1> DEFINE A == Foreign["simple"] \cup Foreign["watch"]
           B == Foreign["controller"] \cup Foreign["reflector"]
           C == Foreign["advanced"] \cup ({"first"} \cup {"second"})
<1>6. Names = (A \cup B) \cup C
  <2>2. \A x : x \in Names <=> x \in (A \cup B) \cup C
    BY NamesMember DEF Programs
  <2> QED
    BY <2>2
<1>7. IsFiniteSet(A \cup B)
  BY <1>3, <1>4, FS_Union
<1>8. IsFiniteSet(Names)
  BY <1>5, <1>6, <1>7, FS_Union
<1>9. IsFiniteSet(S)
  BY <1>8, FS_Subset
<1> QED
  BY <1>9, FS_CardinalityType

\* The names of the simple programs' own objects are nobody else's.
LEMMA OwnNames ==
    /\ {"first", "second"} \subseteq Names /\ NoKey \notin Names
    /\ \A p \in Programs : Foreign[p] \subseteq Names \ {"first", "second"}
<1>2. \A p \in Programs : \A x \in Foreign[p] : x \notin {"none", "first", "second"}
  BY InformerAssumption
<1>3. "first" # NoKey /\ "second" # NoKey
  BY DEF NoKey
<1> QED
  BY <1>2, <1>3, NamesMember DEF NoKey

\* What queueing a delta does to the deltas that are queued: nothing, or the
\* last is replaced, or one is added; a deletion never follows another.
QueuedAs(q, d, r) ==
    \/ /\ r = q /\ q # <<>>
       /\ q[Len(q)].type # "put" /\ d.type = "tombstone"
    \/ /\ Len(r) = Len(q) /\ q # <<>>
       /\ q[Len(q)].type # "put" /\ d.type # "put"
       /\ \A i \in 1 .. (Len(q) - 1) : r[i] = q[i]
       /\ r[Len(q)] = d
    \/ /\ Len(r) = Len(q) + 1
       /\ \A i \in 1 .. Len(q) : r[i] = q[i]
       /\ r[Len(q) + 1] = d
       /\ d.type = "put" \/ q = <<>> \/ q[Len(q)].type = "put"

\* Queued does that.
LEMMA QueuedFacts ==
    ASSUME NEW S, NEW q \in Seq(S), NEW d \in S
    PROVE  /\ Queued(q, d) \in Seq(S) /\ Queued(q, d) # <<>>
           /\ QueuedAs(q, d, Queued(q, d))
<1>1. CASE d.type # "put" /\ q # <<>> /\ q[Len(q)].type # "put"
  <2>1. Len(q) \in Nat \ {0}
    BY <1>1, EmptySeq
  <2>2. CASE d.type = "tombstone"
    BY <1>1, <2>2 DEF Queued, QueuedAs
  <2>3. CASE d.type # "tombstone"
    <3>1. Queued(q, d) = [q EXCEPT ![Len(q)] = d]
      BY <1>1, <2>3 DEF Queued
    <3>2. Len(q) \in 1 .. Len(q)
      BY <2>1
    <3>3. /\ Queued(q, d) \in Seq(S) /\ Len(Queued(q, d)) = Len(q)
          /\ \A j \in 1 .. Len(q) : Queued(q, d)[j] = IF j = Len(q) THEN d ELSE q[j]
      BY <3>1, <3>2, ExceptSeq
    <3>4. Queued(q, d) # <<>>
      BY <2>1, <3>3, EmptySeq
    <3> QED
      BY <1>1, <2>1, <3>3, <3>4 DEF QueuedAs
  <2> QED
    BY <2>2, <2>3
<1>2. CASE ~(d.type # "put" /\ q # <<>> /\ q[Len(q)].type # "put")
  <2>1. Queued(q, d) = Append(q, d)
    BY <1>2 DEF Queued
  <2> QED
    BY <1>2, <2>1, AppendProperties DEF QueuedAs
<1> QED
  BY <1>1, <1>2

\* The same, element by element: all but the last are as they were.
LEMMA QueuedElements ==
    ASSUME NEW S, NEW q \in Seq(S), NEW d \in S, NEW i \in DOMAIN Queued(q, d)
    PROVE  /\ i \in Nat /\ i <= Len(Queued(q, d))
           /\ \/ i \in DOMAIN q /\ Queued(q, d)[i] = q[i]
              \/ i = Len(Queued(q, d)) /\ Queued(q, d)[i] = d
<1> DEFINE r == Queued(q, d)
<1>1. r \in Seq(S) /\ Len(r) \in Nat /\ Len(q) \in Nat
  BY QueuedFacts, LenProperties
<1>2. DOMAIN r = 1 .. Len(r) /\ DOMAIN q = 1 .. Len(q)
  BY <1>1, LenProperties
<1>3. \/ r = q
      \/ Len(r) = Len(q) /\ (\A k \in 1 .. (Len(q) - 1) : r[k] = q[k]) /\ r[Len(q)] = d
      \/ Len(r) = Len(q) + 1 /\ (\A k \in 1 .. Len(q) : r[k] = q[k]) /\ r[Len(q) + 1] = d
  <2>1. QueuedAs(q, d, r)
    BY QueuedFacts
  <2> HIDE DEF r
  <2> QED
    BY <2>1 DEF QueuedAs
<1> HIDE DEF r
<1>4. i \in 1 .. Len(r)
  BY <1>2 DEF r
<1>5. \/ i \in DOMAIN q /\ r[i] = q[i]
      \/ i = Len(r) /\ r[i] = d
  <2>1. CASE r = q
    BY <1>2, <1>4, <2>1
  <2>2. CASE Len(r) = Len(q) /\ (\A k \in 1 .. (Len(q) - 1) : r[k] = q[k]) /\ r[Len(q)] = d
    <3>1. i = Len(q) \/ i \in 1 .. (Len(q) - 1)
      BY <1>1, <1>4, <2>2
    <3> QED
      BY <1>2, <1>4, <2>2, <3>1
  <2>3. CASE Len(r) = Len(q) + 1 /\ (\A k \in 1 .. Len(q) : r[k] = q[k]) /\ r[Len(q) + 1] = d
    <3>1. i = Len(q) + 1 \/ i \in 1 .. Len(q)
      BY <1>1, <1>4, <2>3
    <3> QED
      BY <1>2, <2>3, <3>1
  <2> QED
    BY <1>3, <2>1, <2>2, <2>3
<1> QED
  BY <1>1, <1>4, <1>5 DEF r

\* Enqueue adds the keys that had no deltas at the end of the queue, each
\* once, and leaves the others where they are.
LEMMA EnqueueFacts ==
    ASSUME TypeOK, FifoInv, NEW D, D \subseteq Names, NEW new \in [D -> Delta], Enqueue(new)
    PROVE  /\ \A n \in Names :
                 deltas'[n] = IF n \in D THEN Queued(deltas[n], new[n]) ELSE deltas[n]
           /\ deltas' \in [Names -> Seq(Delta)]
           /\ order' \in Seq(Names)
           /\ \A n \in Names : deltas'[n] # <<>> <=> \E i \in DOMAIN order' : order'[i] = n
           /\ \A i, j \in DOMAIN order' : order'[i] = order'[j] => i = j
           /\ Len(order) <= Len(order')
           /\ \A i \in 1 .. Len(order) : order'[i] = order[i]
           /\ order = <<>> => Len(order') = Cardinality(D)
<1> DEFINE fresh == {n \in D : deltas[n] = <<>>}
           c == Cardinality(fresh)
<1>1. DOMAIN new = D
  OBVIOUS
<1>2. /\ deltas' = [n \in Names |-> IF n \in D THEN Queued(deltas[n], new[n]) ELSE deltas[n]]
      /\ \E s \in [1 .. c -> D] : {s[i] : i \in DOMAIN s} = fresh /\ order' = order \o s
  BY <1>1 DEF Enqueue
<1>3. PICK s \in [1 .. c -> D] : {s[i] : i \in DOMAIN s} = fresh /\ order' = order \o s
  BY <1>2
<1>4. \A n \in Names :
         deltas'[n] = IF n \in D THEN Queued(deltas[n], new[n]) ELSE deltas[n]
  BY <1>2
<1>5. deltas \in [Names -> Seq(Delta)] /\ order \in Seq(Names)
  BY DEF TypeOK
<1>6. \A n \in D : Queued(deltas[n], new[n]) \in Seq(Delta) /\ Queued(deltas[n], new[n]) # <<>>
  <2> TAKE n \in D
  <2>1. deltas[n] \in Seq(Delta) /\ new[n] \in Delta
    BY <1>5
  <2> QED
    BY <2>1, QueuedFacts
<1>7. deltas' \in [Names -> Seq(Delta)]
  BY <1>2, <1>5, <1>6
<1>8. fresh \subseteq Names /\ IsFiniteSet(fresh) /\ c \in Nat
  BY NamesFinite
<1>9. s \in [1 .. c -> fresh] /\ \A n \in fresh : \E i \in 1 .. c : s[i] = n
  BY <1>3
<1>10. \A i, j \in 1 .. c : s[i] = s[j] => i = j
  <2>1. s \in Surjection(1 .. c, fresh)
    BY <1>9 DEF Surjection
  <2>2. IsFiniteSet(1 .. c) /\ Cardinality(1 .. c) = c
    BY <1>8, FS_Interval
  <2>3. s \in Injection(1 .. c, fresh)
    BY <2>1, <2>2, FS_SurjSameCardinalityImpliesInj
  <2> QED
    BY <2>3 DEF Injection, IsInjective
<1> HIDE DEF c, fresh
<1>11. s \in Seq(Names) /\ Len(s) = c
  <2>1. s \in [1 .. c -> Names]
    BY <1>8, <1>9
  <2> QED
    BY <1>8, <2>1
<1>12. /\ order' \in Seq(Names) /\ Len(order') = Len(order) + c
       /\ Len(order) \in Nat /\ Len(order') \in Nat
       /\ DOMAIN order = 1 .. Len(order) /\ DOMAIN order' = 1 .. Len(order')
  BY <1>3, <1>5, <1>11, ConcatProperties, LenProperties
<1>13. \A i \in 1 .. (Len(order) + c) :
          order'[i] = IF i <= Len(order) THEN order[i] ELSE s[i - Len(order)]
  BY <1>3, <1>5, <1>11, ConcatProperties
<1>14. \A i \in 1 .. Len(order) : order'[i] = order[i] /\ order'[i] \in Names
                                  /\ deltas[order[i]] # <<>>
  <2>1. \A i \in 1 .. Len(order) : order'[i] = order[i]
    BY <1>8, <1>12, <1>13
  <2>2. \A i \in 1 .. Len(order) : order[i] \in Names /\ deltas[order[i]] # <<>>
    <3>1. \A n \in Names : (\E i \in DOMAIN order : order[i] = n) => deltas[n] # <<>>
      BY DEF TypeOK
    <3>2. \A i \in 1 .. Len(order) : order[i] \in Names
      BY <1>5, ElementOfSeq
    <3> QED
      BY <1>12, <3>1, <3>2
  <2> QED
    BY <2>1, <2>2
<1>15. \A k \in 1 .. c : Len(order) + k \in 1 .. Len(order') /\ order'[Len(order) + k] = s[k]
                         /\ s[k] \in fresh
  <2> TAKE k \in 1 .. c
  <2> DEFINE i == Len(order) + k
  <2>1. i \in 1 .. (Len(order) + c) /\ ~(i <= Len(order)) /\ i - Len(order) = k
    BY <1>8, <1>12
  <2>2. order'[i] = s[i - Len(order)]
    <3> HIDE DEF i
    <3> QED
      BY <1>13, <2>1
  <2>3. s[k] \in fresh
    BY <1>9
  <2> QED
    BY <1>12, <2>1, <2>2, <2>3
<1>16. \A i \in 1 .. Len(order') : i \in 1 .. Len(order) \/ \E k \in 1 .. c : i = Len(order) + k
  <2>1. \A i \in 1 .. Len(order') : i \in 1 .. Len(order) \/ i - Len(order) \in 1 .. c
    BY <1>8, <1>12
  <2> QED
    BY <1>8, <1>12, <2>1
<1>17. \A i, j \in DOMAIN order' : order'[i] = order'[j] => i = j
  <2> SUFFICES ASSUME NEW i \in 1 .. Len(order'), NEW j \in 1 .. Len(order'),
                      order'[i] = order'[j]
               PROVE  i = j
    BY <1>12
  <2>1. CASE i \in 1 .. Len(order) /\ j \in 1 .. Len(order)
    BY <1>12, <1>14, <2>1 DEF FifoInv
  <2>2. CASE i \notin 1 .. Len(order) /\ j \notin 1 .. Len(order)
    <3>1. PICK k \in 1 .. c : i = Len(order) + k
      BY <1>16, <2>2
    <3>2. PICK l \in 1 .. c : j = Len(order) + l
      BY <1>16, <2>2
    <3>3. s[k] = s[l]
      BY <1>15, <3>1, <3>2
    <3> QED
      BY <1>10, <3>1, <3>2, <3>3
  <2>3. \A k \in 1 .. Len(order) : \A l \in 1 .. Len(order') :
           l \notin 1 .. Len(order) => order'[k] # order'[l]
    <3> SUFFICES ASSUME NEW k \in 1 .. Len(order), NEW l \in 1 .. Len(order'),
                        l \notin 1 .. Len(order)
                 PROVE  order'[k] # order'[l]
      OBVIOUS
    <3>1. PICK m \in 1 .. c : l = Len(order) + m
      BY <1>16
    <3>2. deltas[order'[l]] = <<>>
      BY <1>15, <3>1 DEF fresh
    <3>3. deltas[order'[k]] # <<>>
      BY <1>14
    <3> QED
      BY <3>2, <3>3
  <2> QED
    BY <2>1, <2>2, <2>3
<1>18. \A n \in Names : deltas'[n] # <<>> <=> \E i \in DOMAIN order' : order'[i] = n
  <2> SUFFICES ASSUME NEW n \in Names
               PROVE  deltas'[n] # <<>> <=> \E i \in 1 .. Len(order') : order'[i] = n
    BY <1>12
  <2>1. deltas[n] # <<>> <=> \E i \in 1 .. Len(order) : order[i] = n
    BY <1>12 DEF TypeOK
  <2>2. (\E i \in 1 .. Len(order') : order'[i] = n) <=> deltas[n] # <<>> \/ n \in fresh
    <3>1. (\E i \in 1 .. Len(order) : order'[i] = n) <=> deltas[n] # <<>>
      BY <1>14, <2>1
    <3>2. (\E k \in 1 .. c : order'[Len(order) + k] = n) <=> n \in fresh
      BY <1>9, <1>15
    <3>3. \A i \in 1 .. Len(order) : i \in 1 .. Len(order')
      BY <1>8, <1>12
    <3> QED
      BY <1>15, <1>16, <3>1, <3>2, <3>3
  <2>3. deltas'[n] # <<>> <=> deltas[n] # <<>> \/ n \in fresh
    BY <1>4, <1>6 DEF fresh
  <2> QED
    BY <2>2, <2>3
<1>19. order = <<>> => Len(order') = Cardinality(D)
  <2> SUFFICES ASSUME order = <<>> PROVE Len(order') = Cardinality(D)
    OBVIOUS
  <2>1. Len(order) = 0
    BY EmptySeq
  <2>2. fresh = D
    BY <1>12, <2>1 DEF fresh, TypeOK
  <2> QED
    BY <1>8, <1>12, <2>1, <2>2 DEF c
<1>20. Len(order) <= Len(order')
  BY <1>8, <1>12
<1> QED
  BY <1>4, <1>7, <1>12, <1>14, <1>17, <1>18, <1>19, <1>20
-----------------------------------------------------------------------------
(* What the actions do to the deltas that are pending.                     *)

\* An operator that depends on which program runs stays what it is.
LEMMA SameTypes ==
    ASSUME prog' = prog
    PROVE  Versions' = Versions /\ Delta' = Delta /\ Note' = Note
BY DEF Versions, Delta, Note

\* Pending deltas are deltas; without work in progress they are the queued ones.
LEMMA PendingFacts ==
    ASSUME TypeOK, NEW n \in Names
    PROVE  /\ Pending(n) \in Seq(Delta)
           /\ work = NoWork => Pending(n) = deltas[n]
<1>1. deltas[n] \in Seq(Delta)
  BY DEF TypeOK
<1>2. n # NoKey
  BY OwnNames
<1>3. work = NoWork => work.name # n
  BY <1>2 DEF NoWork
<1>4. work # NoWork => work.ds \in Seq(Delta)
  BY DEF TypeOK
<1> QED
  BY <1>1, <1>3, <1>4 DEF Pending

\* Nothing about deltas changes.
LEMMA PendingFrame ==
    ASSUME work' = work, deltas' = deltas
    PROVE  \A n \in Names : Pending(n)' = Pending(n)
BY DEF Pending

\* Enqueue adds to what is pending.
LEMMA EnqueuePending ==
    ASSUME TypeOK, FifoInv, NEW D, D \subseteq Names, NEW new \in [D -> Delta], Enqueue(new),
           work = NoWork, work' = work
    PROVE  \A n \in Names :
              Pending(n)' = IF n \in D THEN Queued(Pending(n), new[n]) ELSE Pending(n)
<1> TAKE n \in Names
<1>1. Pending(n) = deltas[n]
  BY PendingFacts
<1>2. work.name # n
  BY OwnNames DEF NoWork
<1>3. Pending(n)' = deltas'[n]
  BY <1>2 DEF Pending
<1>4. deltas'[n] = IF n \in D THEN Queued(deltas[n], new[n]) ELSE deltas[n]
  BY EnqueueFacts
<1> QED
  BY <1>1, <1>3, <1>4

\* Pop and Process take the first delta of one object to the store.
Applied(n) ==
    /\ prog \notin Plain
    /\ Pending(n) # <<>> /\ Pending(n)' = Tail(Pending(n))
    /\ \A m \in Names \ {n} : Pending(m)' = Pending(m)
    /\ store' = [store EXCEPT ![n] = Head(Pending(n)).ver]
    /\ notes' = Append(notes, [type |-> Announced(n, Head(Pending(n))), name |-> n])
    /\ work' = NoWork \/ work' = [name |-> n, ds |-> Tail(Pending(n))]
    /\ work' # NoWork => Tail(Pending(n)) # <<>> /\ deltas'[n] = <<>>
    /\ UNCHANGED <<prog, pc, key, stopped, serverVars, events, listed, seen, budgetVars>>

\* Taking the first of a sequence shifts the others.
LEMMA Rest ==
    ASSUME NEW S, NEW q \in Seq(S), q # <<>>
    PROVE  /\ Len(q) \in Nat \ {0} /\ Tail(q) \in Seq(S) /\ Head(q) = q[1] /\ Head(q) \in S
           /\ Len(Tail(q)) = Len(q) - 1 /\ (Len(q) = 1 <=> Tail(q) = <<>>)
           /\ \A i \in DOMAIN Tail(q) : i \in Nat /\ i + 1 \in DOMAIN q /\ Tail(q)[i] = q[i + 1]
           /\ 1 \in DOMAIN q
<1>1. Len(q) \in Nat \ {0} /\ DOMAIN q = 1 .. Len(q)
  BY EmptySeq, LenProperties
<1>2. /\ Tail(q) \in Seq(S) /\ Len(Tail(q)) = Len(q) - 1 /\ Head(q) = q[1] /\ Head(q) \in S
      /\ \A i \in 1 .. (Len(q) - 1) : Tail(q)[i] = q[i + 1]
  BY <1>1, HeadTailProperties, ElementOfSeq
<1>3. DOMAIN Tail(q) = 1 .. (Len(q) - 1)
  BY <1>2, LenProperties
<1>4. Len(q) = 1 <=> Tail(q) = <<>>
  <2>1. Tail(q) = <<>> <=> Len(Tail(q)) = 0
    BY <1>2, EmptySeq
  <2> QED
    BY <1>1, <1>2, <2>1
<1> QED
  BY <1>1, <1>2, <1>3, <1>4

\* Pop does.
LEMMA PopApplies ==
    ASSUME TypeOK, FifoInv, Pop
    PROVE  \E n \in Names : n = Head(order) /\ Applied(n)
<1>1. PICK n \in Names : n = Head(order) /\ n = order[1] /\ 1 \in DOMAIN order
  BY HeadTailProperties, EmptySeq, LenProperties, ElementOfSeq DEF Pop, TypeOK
<1> DEFINE q == deltas[n]
<1>2. q \in Seq(Delta) /\ q # <<>>
  BY <1>1 DEF TypeOK
<1>3. Pending(n) = q
  BY PendingFacts DEF Pop
<1>4. deltas' = [deltas EXCEPT ![n] = <<>>] /\ deltas \in [Names -> Seq(Delta)]
  BY <1>1 DEF Pop, TypeOK
<1>5. work' = IF Len(q) = 1 THEN NoWork ELSE [name |-> n, ds |-> Tail(q)]
  BY <1>1 DEF Pop, Apply
<1> HIDE DEF q
<1>6. n # NoKey
  BY <1>1, OwnNames
<1>7. Pending(n)' = Tail(q)
  <2>1. CASE Len(q) = 1
    <3>1. work'.name # n /\ Tail(q) = <<>>
      BY <1>2, <1>5, <1>6, <2>1, Rest DEF NoWork
    <3> QED
      BY <1>1, <1>4, <3>1 DEF Pending
  <2>2. CASE Len(q) # 1
    BY <1>5, <2>2 DEF Pending
  <2> QED
    BY <2>1, <2>2
<1>8. \A m \in Names \ {n} : Pending(m)' = Pending(m)
  <2> TAKE m \in Names \ {n}
  <2>1. m # NoKey
    BY OwnNames
  <2>2. Pending(m) = deltas[m]
    BY PendingFacts DEF Pop
  <2>3. work'.name # m
    BY <1>5, <2>1 DEF NoWork
  <2> QED
    BY <1>1, <1>4, <2>2, <2>3 DEF Pending
<1>9. work' # NoWork => Tail(q) # <<>> /\ deltas'[n] = <<>>
  BY <1>1, <1>2, <1>4, <1>5, Rest
<1>10. prog \notin Plain
  BY DEF Pop, FifoInv
<1>11. /\ store' = [store EXCEPT ![n] = Head(q).ver]
       /\ notes' = Append(notes, [type |-> Announced(n, Head(q)), name |-> n])
       /\ UNCHANGED <<prog, pc, key, stopped, serverVars, events, listed, seen, budgetVars>>
  BY <1>1 DEF Pop, Apply, q
<1>12. Applied(n)
  BY <1>2, <1>3, <1>5, <1>7, <1>8, <1>9, <1>10, <1>11 DEF Applied
<1> QED
  BY <1>1, <1>12

\* So does Process.
LEMMA ProcessApplies ==
    ASSUME TypeOK, FifoInv, Process
    PROVE  \E n \in Names : n = work.name /\ Applied(n)
<1> DEFINE q == work.ds
<1>1. PICK n \in Names : n = work.name /\ q \in Seq(Delta) /\ q # <<>> /\ deltas[n] = <<>>
  BY DEF Process, TypeOK, FifoInv
<1>2. Pending(n) = q
  BY <1>1 DEF Pending
<1>3. deltas' = deltas
  BY DEF Process, fifoVars
<1>4. work' = IF Len(q) = 1 THEN NoWork ELSE [name |-> n, ds |-> Tail(q)]
  BY <1>1 DEF Process, Apply
<1>5. \A m \in Names \ {n} : Pending(m) = deltas[m]
  BY <1>1 DEF Pending
<1>6. /\ store' = [store EXCEPT ![n] = Head(q).ver]
      /\ notes' = Append(notes, [type |-> Announced(n, Head(q)), name |-> n])
      /\ UNCHANGED <<prog, pc, key, stopped, serverVars, events, listed, seen, budgetVars>>
  BY <1>1 DEF Process, Apply
<1>7. prog \notin Plain
  BY DEF Process, FifoInv
<1> HIDE DEF q
<1>8. n # NoKey
  BY <1>1, OwnNames
<1>9. Pending(n)' = Tail(q)
  <2>1. CASE Len(q) = 1
    <3>1. work'.name # n /\ Tail(q) = <<>>
      BY <1>1, <1>4, <1>8, <2>1, Rest DEF NoWork
    <3> QED
      BY <1>1, <1>3, <3>1 DEF Pending
  <2>2. CASE Len(q) # 1
    BY <1>4, <2>2 DEF Pending
  <2> QED
    BY <2>1, <2>2
<1>10. \A m \in Names \ {n} : Pending(m)' = Pending(m)
  <2> TAKE m \in Names \ {n}
  <2>1. m # NoKey
    BY OwnNames
  <2>2. work'.name # m
    BY <1>4, <2>1 DEF NoWork
  <2> QED
    BY <1>3, <1>5, <2>2 DEF Pending
<1>11. work' # NoWork => Tail(q) # <<>> /\ deltas'[n] = <<>>
  BY <1>1, <1>3, <1>4, Rest
<1>12. Applied(n)
  BY <1>1, <1>2, <1>4, <1>6, <1>7, <1>9, <1>10, <1>11 DEF Applied
<1> QED
  BY <1>1, <1>12
-----------------------------------------------------------------------------
(* The kinds of steps: the Reflector's and the informer's, a write, and    *)
(* those that change no more than where the program is.                    *)

AdvancedMoves ==
    /\ Advanced /\ key' = key
    /\ \/ pc = "sync" /\ pc' = "block"
       \/ pc = "block" /\ pc' = "exit"

Quiet ==
    /\ UNCHANGED <<prog, serverVars, events, listed, fifoVars, cacheVars, budgetVars>>
    /\ stopped' \in BOOLEAN
    /\ \/ pc' = pc /\ key' = key
       \/ WaitForCacheSync \/ ListByLabel \/ CallFails \/ Exit
       \/ Poll \/ GetKey \/ GetByKey
       \/ AdvancedMoves

\* Who writes what.
Writer(n, present) ==
    \/ /\ n \in Foreign[prog] /\ pc' = pc
       /\ writes < MaxWrites[prog] /\ writes' = writes + 1
    \/ /\ pc = "createFirst" /\ pc' = "sync" /\ writes' = writes
       /\ n = "first" /\ present
    \/ /\ pc = "createSecond" /\ pc' = "deleteFirst" /\ writes' = writes
       /\ n = "second" /\ present
    \/ /\ pc = "deleteFirst" /\ pc' = "deleteSecond" /\ writes' = writes
       /\ n = "first" /\ ~present
    \/ /\ pc = "deleteSecond" /\ pc' = "block" /\ writes' = writes
       /\ n = "second" /\ ~present

Written(n, present) ==
    /\ Write(n, present) /\ Writer(n, present)
    /\ UNCHANGED <<prog, key, stopped, listed, fifoVars, cacheVars, relists, resyncs>>

\* Every step is of one of these kinds.
LEMMA StepKinds ==
    ASSUME TypeOK, [AllNext]_allVars
    PROVE  \/ Quiet \/ List \/ Watch \/ Resync \/ Pop \/ Process \/ Handle
           \/ \E n \in Names : Written(n, TRUE) \/ Written(n, FALSE)
<1> USE DEF TypeOK
<1>1. CASE UNCHANGED vars
  BY <1>1 DEF Quiet, vars
<1>2. CASE WaitForCacheSync \/ ListByLabel \/ CallFails \/ Exit \/ Poll \/ GetKey \/ GetByKey
  <2>1. UNCHANGED <<prog, stopped, serverVars, events, listed, fifoVars, cacheVars, budgetVars>>
    BY <1>2 DEF WaitForCacheSync, ListByLabel, CallFails, Exit, Poll, GetKey, GetByKey, Goto
  <2> QED
    BY <1>2, <2>1 DEF Quiet
<1>3. CASE \E n \in Foreign[prog] : OtherWrite(n)
  <2>1. PICK n \in Foreign[prog] : OtherWrite(n)
    BY <1>3
  <2>2. n \in Names
    BY OwnNames
  <2>3. Written(n, TRUE) \/ Written(n, FALSE)
    BY <2>1 DEF OtherWrite, Written, Writer
  <2> QED
    BY <2>2, <2>3
<1>4. CASE CreateFirst \/ CreateSecond \/ DeleteFirst \/ DeleteSecond
  <2>1. Written("first", TRUE) \/ Written("second", TRUE)
        \/ Written("first", FALSE) \/ Written("second", FALSE)
    BY <1>4 DEF CreateFirst, CreateSecond, DeleteFirst, DeleteSecond, Goto, Written, Writer,
                budgetVars
  <2> QED
    BY <2>1, OwnNames
<1>5. CASE Signal \/ PrinterEnds \/ PollOnce \/ UpdateLastSeen
  BY <1>1, <1>5 DEF Signal, PrinterEnds, PollOnce, UpdateLastSeen
<1>6. CASE StopOnSignal \/ MainReceives \/ StartStats
  BY <1>6 DEF StopOnSignal, MainReceives, StartStats, Quiet, AdvancedMoves, reflectorVars
<1> QED
  BY <1>1, <1>2, <1>3, <1>4, <1>5, <1>6 DEF AllNext, allVars, Next, Main, Goroutines

\* The main of each program goes its way, and no step takes back a write.
LEMMA MovesOn ==
    ASSUME TypeOK, ProgramInv, Quiet
    PROVE  /\ pc' \in Places /\ key' \in Names \cup {NoKey}
           /\ ProgramInv' /\ Done(pc) <= Done(pc')
<1> USE DEF TypeOK, ProgramInv, PlacesOf, Programs, Places, Done, Goto
<1>1. prog' = prog /\ listed' = listed /\ store' = store
  BY DEF Quiet, cacheVars
<1>2. CASE pc' = pc /\ key' = key
  BY <1>1, <1>2
<1>3. CASE WaitForCacheSync
  BY <1>1, <1>3 DEF WaitForCacheSync, Plain
<1>4. CASE ListByLabel
  BY <1>1, <1>4 DEF ListByLabel
<1>5. CASE CallFails \/ Exit
  BY <1>1, <1>5 DEF CallFails, Exit
<1>6. CASE Poll
  BY <1>1, <1>6 DEF Poll
<1>7. CASE GetKey
  <2>1. Present(store) \subseteq Names
    BY DEF Present
  <2> QED
    BY <1>1, <1>7, <2>1 DEF GetKey
<1>8. CASE GetByKey
  BY <1>1, <1>8 DEF GetByKey
<1>9. CASE AdvancedMoves
  BY <1>1, <1>9 DEF AdvancedMoves, Advanced
<1> QED
  BY <1>2, <1>3, <1>4, <1>5, <1>6, <1>7, <1>8, <1>9 DEF Quiet
-----------------------------------------------------------------------------
(* Types, places and the DeltaFIFO.                                        *)

Basic == TypeOK /\ ProgramInv /\ CountInv /\ FifoInv

\* They hold at the start.
LEMMA InitBasic == Init => Basic
<1> SUFFICES ASSUME Init PROVE Basic
  OBVIOUS
<1> USE DEF Init
<1>1. MaxWrites[prog] \in Nat /\ MaxRelists \in Nat /\ MaxResyncs \in Nat
  BY InformerAssumption
<1>2. 0 \in Versions /\ 1 \in Versions
  BY <1>1 DEF Versions
<1>3. DOMAIN order = {} /\ DOMAIN notes = {}
  OBVIOUS
<1>4. TypeOK
  <2>1. pc \in Places
    BY DEF Places
  <2>2. toSync \in 0 .. Len(order)
    BY EmptySeq
  <2>3. objs \in [Names -> Versions] /\ store \in [Names -> Versions]
    BY <1>2
  <2>4. \A n \in Names : deltas[n] # <<>> <=> \E i \in DOMAIN order : order[i] = n
    BY <1>3
  <2>5. deltas \in [Names -> Seq(Delta)]
    OBVIOUS
  <2>6. writes \in 0 .. MaxWrites[prog] /\ relists \in 0 .. MaxRelists /\ resyncs \in 0 .. MaxResyncs
    BY <1>1
  <2>7. rv \in Versions
    BY <1>2
  <2>8. /\ events \in Seq([name : Names, ver : Versions])
        /\ order \in Seq(Names) /\ notes \in Seq(Note)
    OBVIOUS
  <2>9. prog \in Programs /\ key = NoKey /\ work = NoWork /\ seen = {}
        /\ listed = FALSE /\ gone = FALSE /\ stopped = FALSE
    OBVIOUS
  <2> HIDE DEF Init
  <2> QED
    BY <2>1, <2>2, <2>3, <2>4, <2>5, <2>6, <2>7, <2>8, <2>9 DEF TypeOK
<1>5. ProgramInv
  BY DEF ProgramInv, PlacesOf, Programs
<1>6. CountInv
  BY DEF CountInv, Done
<1>7. FifoInv
  BY <1>3 DEF FifoInv
<1> QED
  BY <1>4, <1>5, <1>6, <1>7 DEF Basic

\* A step that changes no more than where the program is.
LEMMA QuietBasic ==
    ASSUME Basic, Quiet
    PROVE  Basic'
<1>1. /\ UNCHANGED <<prog, objs, rv, gone, events, listed, order, deltas, toSync>>
      /\ UNCHANGED <<work, store, notes, seen, writes, relists, resyncs>>
      /\ stopped' \in BOOLEAN
  BY DEF Quiet, serverVars, fifoVars, cacheVars, budgetVars
<1>2. pc' \in Places /\ key' \in Names \cup {NoKey} /\ ProgramInv' /\ Done(pc) <= Done(pc')
  BY MovesOn DEF Basic
<1>3. Versions' = Versions /\ Delta' = Delta /\ Note' = Note
  BY <1>1, SameTypes
<1>4. TypeOK'
  BY <1>1, <1>2, <1>3 DEF Basic, TypeOK
<1>5. CountInv'
  <2>1. Done(pc) \in Nat /\ Done(pc') \in Nat
    BY DEF Done
  <2>2. writes \in Nat
    BY DEF Basic, TypeOK
  <2> QED
    BY <1>1, <1>2, <2>1, <2>2 DEF Basic, CountInv
<1>6. FifoInv'
  BY <1>1 DEF Basic, FifoInv
<1> QED
  BY <1>2, <1>4, <1>5, <1>6 DEF Basic

\* Somebody writes, which is within the bounds.
LEMMA WrittenBasic ==
    ASSUME Basic, NEW n \in Names, NEW present \in BOOLEAN, Written(n, present)
    PROVE  Basic'
<1>1. /\ UNCHANGED <<prog, key, stopped, listed, order, deltas, toSync>>
      /\ UNCHANGED <<work, store, notes, seen, relists, resyncs>>
  BY DEF Written, fifoVars, cacheVars
<1>2. Versions' = Versions /\ Delta' = Delta /\ Note' = Note
  BY <1>1, SameTypes
<1>3. MaxWrites[prog] \in Nat /\ writes \in Nat /\ writes <= MaxWrites[prog] /\ rv \in Nat
  BY InformerAssumption DEF Basic, TypeOK, Versions
<1>4. /\ pc' \in Places /\ ProgramInv' /\ Done(pc) \in Nat /\ Done(pc') \in Nat
      /\ writes' \in Nat /\ writes' <= MaxWrites[prog]
      /\ 1 + writes + Done(pc) < 1 + writes' + Done(pc')
  <2>1. CASE writes' = writes + 1 /\ writes < MaxWrites[prog] /\ pc' = pc
    BY <1>1, <1>3, <2>1 DEF Basic, TypeOK, ProgramInv, Done
  <2>2. CASE writes' = writes /\ pc = "createFirst" /\ pc' = "sync"
    BY <1>1, <1>3, <2>2 DEF Basic, TypeOK, ProgramInv, PlacesOf, Programs, Places, Done
  <2>3. CASE writes' = writes /\ pc = "createSecond" /\ pc' = "deleteFirst"
    BY <1>1, <1>3, <2>3 DEF Basic, TypeOK, ProgramInv, PlacesOf, Programs, Places, Done
  <2>4. CASE writes' = writes /\ pc = "deleteFirst" /\ pc' = "deleteSecond"
    BY <1>1, <1>3, <2>4 DEF Basic, TypeOK, ProgramInv, PlacesOf, Programs, Places, Done
  <2>5. CASE writes' = writes /\ pc = "deleteSecond" /\ pc' = "block"
    BY <1>1, <1>3, <2>5 DEF Basic, TypeOK, ProgramInv, PlacesOf, Programs, Places, Done
  <2> QED
    BY <2>1, <2>2, <2>3, <2>4, <2>5 DEF Written, Writer
<1>5. rv' = rv + 1 /\ CountInv'
  BY <1>3, <1>4 DEF Written, Write, Basic, CountInv
<1>6. Done(pc') <= 4
  BY DEF Done
<1>7. 0 \in Versions /\ rv' \in Versions
  BY <1>1, <1>3, <1>4, <1>5, <1>6 DEF CountInv, Versions
<1> DEFINE ver == IF present THEN rv + 1 ELSE 0
           e == [name |-> n, ver |-> ver]
<1>8. /\ ver \in Versions
      /\ objs' = [objs EXCEPT ![n] = ver] /\ gone' = (gone \/ ~present)
      /\ events' = IF listed THEN Append(events, e) ELSE events
  BY <1>5, <1>7 DEF Written, Write
<1> HIDE DEF ver
<1>9. objs' \in [Names -> Versions] /\ gone' \in BOOLEAN
  BY <1>8 DEF Basic, TypeOK
<1>10. events' \in Seq([name : Names, ver : Versions])
  <2>1. e \in [name : Names, ver : Versions]
    BY <1>8
  <2> QED
    BY <1>8, <2>1, AppendProperties DEF Basic, TypeOK
<1>11. TypeOK'
  <2>1. writes' \in 0 .. MaxWrites[prog]
    BY <1>3, <1>4
  <2> QED
    BY <1>1, <1>2, <1>4, <1>7, <1>9, <1>10, <2>1 DEF Basic, TypeOK
<1>12. FifoInv'
  BY <1>1, <1>8 DEF Basic, FifoInv
<1> QED
  BY <1>4, <1>5, <1>11, <1>12 DEF Basic

\* The first list makes every key count, a later one none.
Known == Present(objs) \cup Present(store) \cup {k \in Names : deltas[k] # <<>>}

Put(v) == [type |-> "put", ver |-> v]
Tombstone == [type |-> "tombstone", ver |-> 0]
Deleted == [type |-> "deleted", ver |-> 0]

\* What a list and an event bring are deltas.
LEMMA DeltaTypes ==
    ASSUME TypeOK
    PROVE  0 \in Versions /\ Tombstone \in Delta /\ Deleted \in Delta
           /\ \A v \in Versions : Put(v) \in Delta
<1>1. MaxWrites[prog] \in Nat
  BY InformerAssumption DEF TypeOK
<1>2. 0 \in Versions
  BY <1>1 DEF Versions
<1> QED
  BY <1>2 DEF Delta, Tombstone, Deleted, Put

\* Replace ranges over all that is known.
LEMMA ReplacementFacts ==
    ASSUME TypeOK
    PROVE  /\ Known \subseteq Names /\ Replacement \in [Known -> Delta]
           /\ \A n \in Known : Replacement[n] = IF objs[n] # 0 THEN Put(objs[n]) ELSE Tombstone
<1>1. Known \subseteq Names
  BY DEF Known, Present
<1>2. Replacement = [n \in Known |-> IF objs[n] # 0 THEN Put(objs[n]) ELSE Tombstone]
  BY DEF Replacement, Known, Put, Tombstone
<1>3. \A n \in Known : (IF objs[n] # 0 THEN Put(objs[n]) ELSE Tombstone) \in Delta
  BY <1>1, DeltaTypes DEF TypeOK
<1> QED
  BY <1>1, <1>2, <1>3

\* The Reflector lists.
LEMMA ListBasic ==
    ASSUME Basic, List
    PROVE  Basic'
<1>1. /\ UNCHANGED <<prog, pc, key, stopped, objs, rv, gone>>
      /\ UNCHANGED <<work, notes, seen, writes, resyncs>>
      /\ listed' = TRUE /\ events' = <<>> /\ work = NoWork /\ Started
  BY DEF List, serverVars
<1>2. Versions' = Versions /\ Delta' = Delta /\ Note' = Note
  BY <1>1, SameTypes
<1>3. relists' \in 0 .. MaxRelists
  BY InformerAssumption DEF List, Basic, TypeOK
<1>4. ProgramInv' /\ CountInv'
  BY <1>1 DEF Basic, ProgramInv, CountInv, Started
<1>5. events' \in Seq([name : Names, ver : Versions])
  BY <1>1
<1>6. CASE prog \in Plain
  <2>1. store' = objs /\ UNCHANGED <<order, deltas, toSync>>
    BY <1>6 DEF List, fifoVars
  <2>2. TypeOK'
    BY <1>1, <1>2, <1>3, <1>5, <2>1 DEF Basic, TypeOK
  <2>3. FifoInv'
    BY <1>1, <2>1 DEF Basic, FifoInv
  <2> QED
    BY <1>4, <2>2, <2>3 DEF Basic
<1>7. CASE prog \notin Plain
  <2>1. store' = store /\ Enqueue(Replacement)
        /\ toSync' = IF listed THEN toSync ELSE Cardinality(DOMAIN Replacement)
    BY <1>7 DEF List, Population
  <2>2. Known \subseteq Names /\ Replacement \in [Known -> Delta] /\ DOMAIN Replacement = Known
    BY ReplacementFacts DEF Basic
  <2>3. /\ deltas' \in [Names -> Seq(Delta)] /\ order' \in Seq(Names)
        /\ \A n \in Names : deltas'[n] # <<>> <=> \E i \in DOMAIN order' : order'[i] = n
        /\ \A i, j \in DOMAIN order' : order'[i] = order'[j] => i = j
        /\ Len(order) <= Len(order')
        /\ order = <<>> => Len(order') = Cardinality(Known)
    BY <2>1, <2>2, EnqueueFacts DEF Basic
  <2>4. toSync' \in 0 .. Len(order')
    <3>1. Len(order) \in Nat /\ Len(order') \in Nat /\ toSync \in 0 .. Len(order)
      BY <2>3 DEF Basic, TypeOK
    <3>2. CASE listed
      BY <2>1, <2>3, <3>1, <3>2
    <3>3. CASE ~listed
      BY <2>1, <2>2, <2>3, <3>1, <3>3 DEF Basic, FifoInv
    <3> QED
      BY <3>2, <3>3
  <2>5. TypeOK'
    BY <1>1, <1>2, <1>3, <1>5, <2>1, <2>3, <2>4 DEF Basic, TypeOK
  <2>6. FifoInv'
    BY <1>1, <1>7, <2>3 DEF Basic, FifoInv
  <2> QED
    BY <1>4, <2>5, <2>6 DEF Basic
<1> QED
  BY <1>6, <1>7

\* The event that the watch delivers.
Event == [name : Names, ver : Versions]

EventDelta(e) == IF e.ver = 0 THEN Deleted ELSE Put(e.ver)

\* Of it the DeltaFIFO makes a delta, unless it has nothing to delete.
LEMMA WatchFacts ==
    ASSUME Basic, Watch
    PROVE  /\ events # <<>> /\ Head(events) \in Event /\ work = NoWork
           /\ UNCHANGED <<prog, pc, key, stopped, objs, rv, gone, listed, toSync>>
           /\ UNCHANGED <<work, notes, seen, writes, relists, resyncs>>
           /\ events' = Tail(events)
           /\ prog \in Plain => /\ store' = [store EXCEPT ![Head(events).name] = Head(events).ver]
                                /\ UNCHANGED <<order, deltas>>
           /\ prog \notin Plain =>
                /\ store' = store
                /\ \/ /\ UNCHANGED <<order, deltas>>
                      /\ Head(events).ver = 0 /\ store[Head(events).name] = 0
                      /\ deltas[Head(events).name] = <<>>
                   \/ /\ Enqueue([n \in {Head(events).name} |-> EventDelta(Head(events))])
                      /\ [n \in {Head(events).name} |-> EventDelta(Head(events))]
                            \in [{Head(events).name} -> Delta]
                      /\ Head(events).ver = 0 => \/ store[Head(events).name] # 0
                                                 \/ deltas[Head(events).name] # <<>>
<1>1. events # <<>> /\ work = NoWork /\ events' = Tail(events)
      /\ UNCHANGED <<prog, pc, key, stopped, objs, rv, gone, listed, toSync>>
      /\ UNCHANGED <<work, notes, seen, writes, relists, resyncs>>
  BY DEF Watch, serverVars, budgetVars
<1>2. Head(events) \in Event
  BY <1>1, HeadTailProperties DEF Basic, TypeOK, Event
<1> DEFINE e == Head(events)
           d == [type |-> IF e.ver = 0 THEN "deleted" ELSE "put", ver |-> e.ver]
<1>3. d = EventDelta(e) /\ EventDelta(e) \in Delta
  <2>1. CASE e.ver = 0
    BY <2>1, DeltaTypes DEF EventDelta, Deleted, Basic
  <2>2. CASE e.ver # 0
    BY <1>2, <2>2, DeltaTypes DEF EventDelta, Put, Basic, Event
  <2> QED
    BY <2>1, <2>2
<1>4. [n \in {e.name} |-> EventDelta(e)] \in [{e.name} -> Delta]
  BY <1>3
<1>5. prog \in Plain => store' = [store EXCEPT ![e.name] = e.ver] /\ UNCHANGED <<order, deltas>>
  BY DEF Watch
<1>6. prog \notin Plain =>
         /\ store' = store
         /\ IF e.ver = 0 /\ store[e.name] = 0 /\ deltas[e.name] = <<>>
            THEN UNCHANGED <<order, deltas>>
            ELSE Enqueue([n \in {e.name} |-> d])
  BY DEF Watch
<1> HIDE DEF d
<1>7. prog \notin Plain =>
         /\ store' = store
         /\ IF e.ver = 0 /\ store[e.name] = 0 /\ deltas[e.name] = <<>>
            THEN UNCHANGED <<order, deltas>>
            ELSE Enqueue([n \in {e.name} |-> EventDelta(e)])
  BY <1>3, <1>6
<1> QED
  BY <1>1, <1>2, <1>4, <1>5, <1>7

\* The watch delivers.
LEMMA WatchBasic ==
    ASSUME Basic, Watch
    PROVE  Basic'
<1> DEFINE e == Head(events)
<1>1. /\ events # <<>> /\ e \in Event /\ work = NoWork
      /\ UNCHANGED <<prog, pc, key, stopped, objs, rv, gone, listed, toSync>>
      /\ UNCHANGED <<work, notes, seen, writes, relists, resyncs>>
      /\ events' = Tail(events)
  BY WatchFacts
<1>2. Versions' = Versions /\ Delta' = Delta /\ Note' = Note
  BY <1>1, SameTypes
<1>3. events' \in Seq([name : Names, ver : Versions])
  BY <1>1, HeadTailProperties DEF Basic, TypeOK
<1>4. ProgramInv' /\ CountInv'
  BY <1>1 DEF Basic, ProgramInv, CountInv
<1>5. listed
  BY <1>1 DEF Basic, FifoInv
<1>6. store' \in [Names -> Versions]
  BY <1>1, WatchFacts DEF Basic, TypeOK, Event
<1>7. CASE UNCHANGED <<order, deltas>>
  <2>1. TypeOK'
    BY <1>1, <1>2, <1>3, <1>6, <1>7 DEF Basic, TypeOK
  <2>2. FifoInv'
    BY <1>1, <1>5, <1>7 DEF Basic, FifoInv
  <2> QED
    BY <1>4, <2>1, <2>2 DEF Basic
<1>8. ASSUME NEW D, D \subseteq Names, NEW new \in [D -> Delta], Enqueue(new), prog \notin Plain
      PROVE  Basic'
  <2>1. /\ deltas' \in [Names -> Seq(Delta)] /\ order' \in Seq(Names)
        /\ \A n \in Names : deltas'[n] # <<>> <=> \E i \in DOMAIN order' : order'[i] = n
        /\ \A i, j \in DOMAIN order' : order'[i] = order'[j] => i = j
        /\ Len(order) <= Len(order')
    BY <1>8, EnqueueFacts DEF Basic
  <2>2. toSync' \in 0 .. Len(order')
    BY <1>1, <2>1, LenProperties DEF Basic, TypeOK
  <2>3. TypeOK'
    BY <1>1, <1>2, <1>3, <1>6, <2>1, <2>2 DEF Basic, TypeOK
  <2>4. FifoInv'
    BY <1>1, <1>5, <1>8, <2>1 DEF Basic, FifoInv
  <2> QED
    BY <1>4, <2>3, <2>4 DEF Basic
<1>9. {e.name} \subseteq Names
  BY <1>1 DEF Event
<1>10. \/ UNCHANGED <<order, deltas>>
       \/ /\ prog \notin Plain /\ Enqueue([n \in {e.name} |-> EventDelta(e)])
          /\ [n \in {e.name} |-> EventDelta(e)] \in [{e.name} -> Delta]
  BY WatchFacts
<1> QED
  BY <1>7, <1>8, <1>9, <1>10

\* What a resync brings are deltas.
LEMMA ResyncFacts ==
    ASSUME Basic, Resync
    PROVE  /\ Resynced \subseteq Names /\ work = NoWork /\ listed /\ prog \notin Plain
           /\ [n \in Resynced |-> Put(store[n])] \in [Resynced -> Delta]
           /\ Enqueue([n \in Resynced |-> Put(store[n])])
           /\ UNCHANGED <<prog, pc, key, stopped, objs, rv, gone, events, listed, toSync>>
           /\ UNCHANGED <<work, store, notes, seen, writes, relists>>
           /\ resyncs' \in 0 .. MaxResyncs
<1>1. Resynced \subseteq Names
  BY DEF Resynced, Present
<1>2. \A n \in Resynced : Put(store[n]) \in Delta
  BY <1>1, DeltaTypes DEF Basic, TypeOK
<1>3. Enqueue([n \in Resynced |-> Put(store[n])])
  BY DEF Resync, Put
<1>4. resyncs' \in 0 .. MaxResyncs
  BY InformerAssumption DEF Resync, Basic, TypeOK
<1>5. prog \notin Plain
  BY DEF Resync, Plain
<1> QED
  BY <1>1, <1>2, <1>3, <1>4, <1>5 DEF Resync, serverVars, cacheVars

\* A resync.
LEMMA ResyncBasic ==
    ASSUME Basic, Resync
    PROVE  Basic'
<1> DEFINE new == [n \in Resynced |-> Put(store[n])]
<1>1. /\ Resynced \subseteq Names /\ work = NoWork /\ listed /\ prog \notin Plain
      /\ new \in [Resynced -> Delta] /\ Enqueue(new)
      /\ UNCHANGED <<prog, pc, key, stopped, objs, rv, gone, events, listed, toSync>>
      /\ UNCHANGED <<work, store, notes, seen, writes, relists>>
      /\ resyncs' \in 0 .. MaxResyncs
  BY ResyncFacts
<1> HIDE DEF new
<1>2. Versions' = Versions /\ Delta' = Delta /\ Note' = Note
  BY <1>1, SameTypes
<1>3. /\ deltas' \in [Names -> Seq(Delta)] /\ order' \in Seq(Names)
      /\ \A n \in Names : deltas'[n] # <<>> <=> \E i \in DOMAIN order' : order'[i] = n
      /\ \A i, j \in DOMAIN order' : order'[i] = order'[j] => i = j
      /\ Len(order) <= Len(order')
  BY <1>1, EnqueueFacts DEF Basic
<1>4. toSync' \in 0 .. Len(order')
  BY <1>1, <1>3, LenProperties DEF Basic, TypeOK
<1>5. TypeOK'
  BY <1>1, <1>2, <1>3, <1>4 DEF Basic, TypeOK
<1>6. FifoInv'
  BY <1>1, <1>3 DEF Basic, FifoInv
<1>7. ProgramInv' /\ CountInv'
  BY <1>1 DEF Basic, ProgramInv, CountInv
<1> QED
  BY <1>5, <1>6, <1>7 DEF Basic

\* What Applied does to the types.
LEMMA AppliedTypes ==
    ASSUME Basic, NEW n \in Names, Applied(n)
    PROVE  /\ UNCHANGED <<prog, pc, key, stopped, objs, rv, gone, events, listed, seen>>
           /\ UNCHANGED <<writes, relists, resyncs>>
           /\ Head(Pending(n)) \in Delta
           /\ store' \in [Names -> Versions] /\ notes' \in Seq(Note)
           /\ work' = NoWork \/ work' \in [name : Names, ds : Seq(Delta)]
           /\ work' # NoWork => work'.ds # <<>> /\ deltas'[work'.name] = <<>>
<1>1. /\ UNCHANGED <<prog, pc, key, stopped, objs, rv, gone, events, listed, seen>>
      /\ UNCHANGED <<writes, relists, resyncs>>
  BY DEF Applied, serverVars, budgetVars
<1> DEFINE q == Pending(n)
<1>2. q \in Seq(Delta) /\ q # <<>>
  BY PendingFacts DEF Basic, Applied
<1>3. Head(q) \in Delta /\ Tail(q) \in Seq(Delta)
  BY <1>2, Rest
<1>4. store' \in [Names -> Versions]
  BY <1>3 DEF Applied, Basic, TypeOK, Delta
<1>5. Announced(n, Head(q)) \in {"add", "update", "delete", "tombstone"}
  BY DEF Announced
<1>6. notes' \in Seq(Note)
  <2>1. [type |-> Announced(n, Head(q)), name |-> n] \in Note
    BY <1>5 DEF Note
  <2>2. notes \in Seq(Note)
    BY DEF Basic, TypeOK
  <2> QED
    BY <2>1, <2>2, AppendProperties DEF Applied
<1>7. \/ work' = NoWork
      \/ work' = [name |-> n, ds |-> Tail(q)] /\ Tail(q) # <<>> /\ deltas'[n] = <<>>
  BY DEF Applied
<1> HIDE DEF q
<1>8. work' = NoWork \/ work' \in [name : Names, ds : Seq(Delta)]
  BY <1>3, <1>7
<1>9. work' # NoWork => work'.ds # <<>> /\ deltas'[work'.name] = <<>>
  BY <1>7
<1> QED
  BY <1>1, <1>3, <1>4, <1>6, <1>8, <1>9 DEF q

\* Pop.
LEMMA PopBasic ==
    ASSUME Basic, Pop
    PROVE  Basic'
<1>1. PICK n \in Names : n = Head(order) /\ Applied(n)
  BY PopApplies DEF Basic
<1>2. /\ UNCHANGED <<prog, pc, key, stopped, objs, rv, gone, events, listed, seen>>
      /\ UNCHANGED <<writes, relists, resyncs>>
      /\ store' \in [Names -> Versions] /\ notes' \in Seq(Note)
      /\ work' = NoWork \/ work' \in [name : Names, ds : Seq(Delta)]
      /\ work' # NoWork => work'.ds # <<>> /\ deltas'[work'.name] = <<>>
  BY <1>1, AppliedTypes
<1>3. Versions' = Versions /\ Delta' = Delta /\ Note' = Note
  BY <1>2, SameTypes
<1>4. /\ order \in Seq(Names) /\ order # <<>> /\ order' = Tail(order)
      /\ deltas \in [Names -> Seq(Delta)] /\ deltas' = [deltas EXCEPT ![n] = <<>>]
      /\ toSync' = IF toSync = 0 THEN 0 ELSE toSync - 1
  BY <1>1 DEF Pop, Basic, TypeOK
<1>5. /\ Len(order) \in Nat \ {0} /\ order' \in Seq(Names) /\ n = order[1]
      /\ Len(order') = Len(order) - 1
      /\ DOMAIN order = 1 .. Len(order) /\ DOMAIN order' = 1 .. (Len(order) - 1)
      /\ \A i \in DOMAIN order' : i \in Nat /\ i + 1 \in DOMAIN order /\ order'[i] = order[i + 1]
  BY <1>1, <1>4, Rest, LenProperties
<1>6. toSync' \in 0 .. Len(order')
  BY <1>4, <1>5 DEF Basic, TypeOK
<1>7. \A i, j \in DOMAIN order : order[i] = order[j] => i = j
  BY DEF Basic, FifoInv
<1>8. \A i, j \in DOMAIN order' : order'[i] = order'[j] => i = j
  BY <1>5, <1>7
<1>9. deltas' \in [Names -> Seq(Delta)]
  BY <1>4
<1>10. \A m \in Names : deltas'[m] # <<>> <=> \E i \in DOMAIN order' : order'[i] = m
  <2> TAKE m \in Names
  <2>1. deltas[m] # <<>> <=> \E i \in DOMAIN order : order[i] = m
    BY DEF Basic, TypeOK
  <2>2. CASE m = n
    <3>1. deltas'[m] = <<>>
      BY <1>4, <2>2
    <3>2. \A i \in DOMAIN order' : order'[i] # n
      BY <1>5, <1>7
    <3> QED
      BY <2>2, <3>1, <3>2
  <2>3. CASE m # n
    <3>1. deltas'[m] = deltas[m]
      BY <1>4, <2>3
    <3>2. \A i \in DOMAIN order : order[i] = m => i - 1 \in DOMAIN order' /\ order'[i - 1] = m
      <4> SUFFICES ASSUME NEW i \in DOMAIN order, order[i] = m
                   PROVE  i - 1 \in DOMAIN order' /\ order'[i - 1] = m
        OBVIOUS
      <4>1. i # 1
        BY <1>5, <2>3
      <4>2. i - 1 \in DOMAIN order' /\ (i - 1) + 1 = i
        BY <1>5, <4>1
      <4> QED
        BY <1>5, <4>2
    <3>3. \A i \in DOMAIN order' : order'[i] = m => i + 1 \in DOMAIN order /\ order[i + 1] = m
      BY <1>5
    <3> QED
      BY <2>1, <3>1, <3>2, <3>3
  <2> QED
    BY <2>2, <2>3
<1>11. TypeOK'
  BY <1>2, <1>3, <1>5, <1>6, <1>9, <1>10 DEF Basic, TypeOK
<1>12. listed /\ prog \notin Plain
  BY <1>1, <1>4 DEF Basic, FifoInv, Applied
<1>13. FifoInv'
  BY <1>2, <1>8, <1>12 DEF FifoInv
<1>14. ProgramInv' /\ CountInv'
  BY <1>2 DEF Basic, ProgramInv, CountInv
<1> QED
  BY <1>11, <1>13, <1>14 DEF Basic

\* Process.
LEMMA ProcessBasic ==
    ASSUME Basic, Process
    PROVE  Basic'
<1>1. PICK n \in Names : n = work.name /\ Applied(n)
  BY ProcessApplies DEF Basic
<1>2. /\ UNCHANGED <<prog, pc, key, stopped, objs, rv, gone, events, listed, seen>>
      /\ UNCHANGED <<writes, relists, resyncs>>
      /\ store' \in [Names -> Versions] /\ notes' \in Seq(Note)
      /\ work' = NoWork \/ work' \in [name : Names, ds : Seq(Delta)]
      /\ work' # NoWork => work'.ds # <<>> /\ deltas'[work'.name] = <<>>
  BY <1>1, AppliedTypes
<1>3. Versions' = Versions /\ Delta' = Delta /\ Note' = Note
  BY <1>2, SameTypes
<1>4. UNCHANGED <<order, deltas, toSync>> /\ work # NoWork
  BY DEF Process, fifoVars
<1>5. TypeOK'
  BY <1>2, <1>3, <1>4 DEF Basic, TypeOK
<1>6. listed /\ prog \notin Plain
  BY <1>1, <1>4 DEF Basic, FifoInv, Applied
<1>7. FifoInv'
  BY <1>2, <1>4, <1>6 DEF Basic, FifoInv
<1>8. ProgramInv' /\ CountInv'
  BY <1>2 DEF Basic, ProgramInv, CountInv
<1> QED
  BY <1>5, <1>7, <1>8 DEF Basic

\* The handlers are called.
LEMMA HandleBasic ==
    ASSUME Basic, Handle
    PROVE  Basic'
<1>1. /\ UNCHANGED <<prog, key, stopped, objs, rv, gone, events, listed, order, deltas, toSync>>
      /\ UNCHANGED <<work, store, writes, relists, resyncs>>
      /\ notes # <<>> /\ notes' = Tail(notes) /\ Started
      /\ seen' = Told(Head(notes)) /\ pc' \in {pc, "panic"}
  BY DEF Handle, serverVars, fifoVars, budgetVars
<1>2. Versions' = Versions /\ Delta' = Delta /\ Note' = Note
  BY <1>1, SameTypes
<1>3. Head(notes) \in Note /\ notes' \in Seq(Note)
  BY <1>1, HeadTailProperties DEF Basic, TypeOK
<1>4. seen' \subseteq Names
  BY <1>1, <1>3 DEF Told, Note, Basic, TypeOK
<1>5. TypeOK'
  BY <1>1, <1>2, <1>3, <1>4 DEF Basic, TypeOK, Places
<1>6. prog \notin Plain
  BY <1>1 DEF Basic, FifoInv
<1>7. FifoInv'
  BY <1>1, <1>6 DEF Basic, FifoInv
<1>8. ProgramInv'
  BY <1>1, <1>6 DEF Basic, ProgramInv, PlacesOf, TypeOK, Programs, Plain
<1>9. CountInv'
  <2>1. Done(pc) \in Nat /\ Done(pc') \in Nat /\ Done(pc) <= Done(pc')
    BY <1>1 DEF Done
  <2> QED
    BY <1>1, <2>1 DEF Basic, CountInv, TypeOK
<1> QED
  BY <1>5, <1>7, <1>8, <1>9 DEF Basic

\* Every step keeps types, places and the DeltaFIFO in order.
LEMMA BasicStep ==
    ASSUME Basic, [AllNext]_allVars
    PROVE  Basic'
<1>1. \/ Quiet \/ List \/ Watch \/ Resync \/ Pop \/ Process \/ Handle
      \/ \E n \in Names : Written(n, TRUE) \/ Written(n, FALSE)
  BY StepKinds DEF Basic
<1>2. \A n \in Names : Written(n, TRUE) \/ Written(n, FALSE) => Basic'
  <2>1. TRUE \in BOOLEAN /\ FALSE \in BOOLEAN
    OBVIOUS
  <2> QED
    BY <2>1, WrittenBasic
<1> QED
  BY <1>1, <1>2, QuietBasic, ListBasic, WatchBasic, ResyncBasic, PopBasic, ProcessBasic, HandleBasic
-----------------------------------------------------------------------------
(* Versions only grow.                                                     *)

\* Versions are numbers.
LEMMA VersionTypes ==
    ASSUME TypeOK
    PROVE  /\ Versions \subseteq Nat /\ rv \in Nat
           /\ \A n \in Names : objs[n] \in Nat /\ store[n] \in Nat /\ Pending(n) \in Seq(Delta)
           /\ \A d \in Delta : d.ver \in Nat /\ d.type \in {"put", "deleted", "tombstone"}
           /\ DOMAIN events = 1 .. Len(events) /\ Len(events) \in Nat
           /\ \A k \in DOMAIN events : events[k].ver \in Nat /\ events[k].name \in Names
<1>1. MaxWrites[prog] \in Nat
  BY InformerAssumption DEF TypeOK
<1>2. Versions \subseteq Nat
  BY <1>1 DEF Versions
<1>3. \A d \in Delta : d.ver \in Nat /\ d.type \in {"put", "deleted", "tombstone"}
  BY <1>2 DEF Delta
<1>4. events \in Seq([name : Names, ver : Versions])
  BY DEF TypeOK
<1>5. DOMAIN events = 1 .. Len(events) /\ Len(events) \in Nat
  BY <1>4, LenProperties
<1>6. \A k \in DOMAIN events : events[k].ver \in Nat /\ events[k].name \in Names
  <2> TAKE k \in DOMAIN events
  <2>1. events[k] \in [name : Names, ver : Versions]
    BY <1>4, <1>5, ElementOfSeq
  <2> QED
    BY <1>2, <2>1
<1> QED
  BY <1>2, <1>3, <1>5, <1>6, PendingFacts DEF TypeOK

\* The deltas of a sequence.
LEMMA Elements ==
    ASSUME TypeOK, NEW q \in Seq(Delta)
    PROVE  /\ DOMAIN q = 1 .. Len(q) /\ Len(q) \in Nat
           /\ \A i \in DOMAIN q : q[i] \in Delta /\ q[i].ver \in Nat /\ i \in Nat
<1>1. DOMAIN q = 1 .. Len(q) /\ Len(q) \in Nat
  BY LenProperties
<1>2. \A i \in DOMAIN q : q[i] \in Delta
  BY <1>1, ElementOfSeq
<1> QED
  BY <1>1, <1>2, VersionTypes

\* A delta that is no older than what is queued, and no newer than what comes
\* after it, can be queued.
LEMMA QueuedRises ==
    ASSUME TypeOK, NEW n, NEW ev, NEW q \in Seq(Delta), NEW s, NEW o, NEW r, NEW d \in Delta,
           RisingPending(q, s, o, r), RisingEvents(n, ev, q, s, o, r),
           d.ver <= r, Upto(s, d.ver), Upto(d.ver, o),
           \A i \in DOMAIN q : Upto(q[i].ver, d.ver),
           \A k \in DOMAIN ev : ev[k].name = n => Upto(d.ver, ev[k].ver)
    PROVE  RisingPending(Queued(q, d), s, o, r) /\ RisingEvents(n, ev, Queued(q, d), s, o, r)
<1> DEFINE t == Queued(q, d)
<1>1. \A i \in DOMAIN t : /\ i \in Nat /\ i <= Len(t)
                          /\ \/ i \in DOMAIN q /\ t[i] = q[i]
                             \/ i = Len(t) /\ t[i] = d
  BY QueuedElements
<1>2. Len(t) \in Nat
  BY QueuedFacts, LenProperties
<1> HIDE DEF t
<1>3. RisingPending(t, s, o, r)
  <2> SUFFICES ASSUME NEW i \in DOMAIN t
               PROVE  /\ t[i].ver <= r /\ Upto(s, t[i].ver) /\ Upto(t[i].ver, o)
                      /\ \A j \in DOMAIN t : i < j => Upto(t[i].ver, t[j].ver)
    BY DEF RisingPending
  <2>1. t[i].ver <= r /\ Upto(s, t[i].ver) /\ Upto(t[i].ver, o)
    BY <1>1 DEF RisingPending
  <2>2. ASSUME NEW j \in DOMAIN t, i < j
        PROVE  Upto(t[i].ver, t[j].ver)
    <3>1. i # Len(t)
      BY <1>1, <1>2, <2>2
    <3>2. i \in DOMAIN q /\ t[i] = q[i]
      BY <1>1, <3>1
    <3> QED
      BY <1>1, <2>2, <3>2 DEF RisingPending
  <2> QED
    BY <2>1, <2>2
<1>4. RisingEvents(n, ev, t, s, o, r)
  BY <1>1 DEF RisingEvents
<1> QED
  BY <1>3, <1>4 DEF t

\* What a list brings for an object that is known.
Brought(n) == IF objs[n] # 0 THEN Put(objs[n]) ELSE Tombstone

\* A list adds to what is pending of all objects that are known.
LEMMA ListPending ==
    ASSUME Basic, List, prog \notin Plain
    PROVE  \A n \in Names :
              /\ Pending(n)' = IF n \in Known THEN Queued(Pending(n), Brought(n)) ELSE Pending(n)
              /\ Brought(n) \in Delta
              /\ n \in Known <=> objs[n] # 0 \/ store[n] # 0 \/ Pending(n) # <<>>
<1>1. Known \subseteq Names /\ Replacement \in [Known -> Delta]
  BY ReplacementFacts DEF Basic
<1>2. Enqueue(Replacement) /\ work = NoWork /\ work' = work
  BY DEF List
<1>3. \A n \in Known : Replacement[n] = Brought(n)
  BY ReplacementFacts DEF Basic, Brought
<1>4. \A n \in Names :
         Pending(n)' = IF n \in Known THEN Queued(Pending(n), Replacement[n]) ELSE Pending(n)
  BY <1>1, <1>2, EnqueuePending DEF Basic
<1>5. \A n \in Names : Brought(n) \in Delta
  BY DeltaTypes DEF Brought, Basic, TypeOK
<1>6. \A n \in Names : Pending(n) = deltas[n]
  BY <1>2, PendingFacts DEF Basic
<1>7. \A n \in Names : n \in Known <=> objs[n] # 0 \/ store[n] # 0 \/ Pending(n) # <<>>
  BY <1>6 DEF Known, Present
<1> QED
  BY <1>3, <1>4, <1>5, <1>7

\* An event adds to what is pending of its object, unless that was deleted
\* already.
LEMMA WatchPending ==
    ASSUME Basic, Watch, NEW n \in Names
    PROVE  \/ /\ Pending(n)' = Pending(n)
              /\ \/ Head(events).name # n
                 \/ prog \in Plain
                 \/ Head(events).ver = 0 /\ store[n] = 0 /\ Pending(n) = <<>>
           \/ /\ prog \notin Plain /\ Head(events).name = n
              /\ EventDelta(Head(events)) \in Delta
              /\ Pending(n)' = Queued(Pending(n), EventDelta(Head(events)))
              /\ Head(events).ver = 0 => store[n] # 0 \/ Pending(n) # <<>>
<1> DEFINE e == Head(events)
           new == [m \in {e.name} |-> EventDelta(e)]
<1>1. work = NoWork /\ work' = work /\ e.name \in Names
  BY WatchFacts DEF Event
<1>2. \A m \in Names : Pending(m) = deltas[m]
  BY <1>1, PendingFacts DEF Basic
<1>3. CASE prog \in Plain
  <2>1. deltas' = deltas
    BY <1>3, WatchFacts
  <2> QED
    BY <1>1, <1>3, <2>1, PendingFrame
<1>4. CASE prog \notin Plain /\ deltas' = deltas /\ e.ver = 0 /\ store[e.name] = 0
           /\ deltas[e.name] = <<>>
  BY <1>1, <1>2, <1>4, PendingFrame
<1>5. CASE prog \notin Plain /\ Enqueue(new) /\ new \in [{e.name} -> Delta]
           /\ (e.ver = 0 => store[e.name] # 0 \/ deltas[e.name] # <<>>)
  <2>1. {e.name} \subseteq Names
    BY <1>1
  <2>2. Pending(n)' = IF n \in {e.name} THEN Queued(Pending(n), new[n]) ELSE Pending(n)
    BY <1>1, <1>5, <2>1, EnqueuePending DEF Basic
  <2>3. EventDelta(e) \in Delta
    BY <1>5
  <2> QED
    BY <1>2, <1>5, <2>2, <2>3
<1> QED
  BY <1>3, <1>4, <1>5, WatchFacts

\* A resync brings what the store has of objects of which nothing is pending.
LEMMA ResyncPending ==
    ASSUME Basic, Resync, NEW n \in Names
    PROVE  \/ Pending(n)' = Pending(n)
           \/ /\ Pending(n) = <<>> /\ store[n] # 0 /\ Put(store[n]) \in Delta
              /\ Pending(n)' = Queued(Pending(n), Put(store[n]))
<1> DEFINE new == [m \in Resynced |-> Put(store[m])]
<1>1. /\ Resynced \subseteq Names /\ work = NoWork /\ work' = work
      /\ new \in [Resynced -> Delta] /\ Enqueue(new)
  BY ResyncFacts
<1>2. Pending(n)' = IF n \in Resynced THEN Queued(Pending(n), new[n]) ELSE Pending(n)
  <2> HIDE DEF new
  <2> QED
    BY <1>1, EnqueuePending DEF Basic
<1>3. Pending(n) = deltas[n]
  BY <1>1, PendingFacts DEF Basic
<1>4. n \in Resynced => store[n] # 0 /\ deltas[n] = <<>> /\ new[n] \in Delta
  <2>1. n \in Resynced => new[n] \in Delta
    <3> HIDE DEF new
    <3> QED
      BY <1>1
  <2> QED
    BY <2>1 DEF Resynced, Present
<1> QED
  BY <1>2, <1>3, <1>4

\* The events that are left after the first.
LEMMA RestOfEvents ==
    ASSUME TypeOK, events # <<>>, events' = Tail(events)
    PROVE  /\ 1 \in DOMAIN events /\ Head(events) = events[1]
           /\ \A k \in DOMAIN events' : k \in Nat /\ k + 1 \in DOMAIN events
                                        /\ events'[k] = events[k + 1]
BY Rest DEF TypeOK

\* They rise as before, and from the first.
LEMMA RestRises ==
    ASSUME TypeOK, events # <<>>, events' = Tail(events), NEW n \in Names,
           Rising(n, events, Pending(n), store[n], objs[n], rv)
    PROVE  /\ Rising(n, events', Pending(n), store[n], objs[n], rv)
           /\ events[1].name = n =>
                /\ events[1].ver <= rv /\ Upto(store[n], events[1].ver)
                /\ Upto(events[1].ver, objs[n])
                /\ \A i \in DOMAIN Pending(n) : Upto(Pending(n)[i].ver, events[1].ver)
                /\ \A k \in DOMAIN events' :
                      events'[k].name = n => Upto(events[1].ver, events'[k].ver)
<1>1. /\ 1 \in DOMAIN events
      /\ \A k \in DOMAIN events' : k \in Nat /\ k + 1 \in DOMAIN events
                                   /\ events'[k] = events[k + 1]
  BY RestOfEvents
<1>2. RisingEvents(n, events, Pending(n), store[n], objs[n], rv)
  BY DEF Rising
<1>3. RisingEvents(n, events', Pending(n), store[n], objs[n], rv)
  <2> SUFFICES ASSUME NEW k \in DOMAIN events', events'[k].name = n
               PROVE  /\ events'[k].ver <= rv
                      /\ Upto(store[n], events'[k].ver) /\ Upto(events'[k].ver, objs[n])
                      /\ \A i \in DOMAIN Pending(n) : Upto(Pending(n)[i].ver, events'[k].ver)
                      /\ \A l \in DOMAIN events' : k < l /\ events'[l].name = n
                            => Upto(events'[k].ver, events'[l].ver)
    BY DEF RisingEvents
  <2>1. k + 1 \in DOMAIN events /\ events'[k] = events[k + 1]
    BY <1>1
  <2>2. \A l \in DOMAIN events' : k < l => k + 1 < l + 1 /\ l + 1 \in DOMAIN events
                                          /\ events'[l] = events[l + 1]
    BY <1>1
  <2> QED
    BY <1>2, <2>1, <2>2 DEF RisingEvents
<1>4. \A k \in DOMAIN events' : 1 < k + 1
  BY <1>1
<1> QED
  BY <1>1, <1>2, <1>3, <1>4 DEF Rising, RisingEvents

\* A write is newer than all that is on its way.
LEMMA WrittenRises ==
    ASSUME Basic, RisingInv, NEW m \in Names, NEW present \in BOOLEAN, Written(m, present)
    PROVE  RisingInv'
<1> DEFINE ver == IF present THEN rv + 1 ELSE 0
           e == [name |-> m, ver |-> ver]
<1>1. /\ rv' = rv + 1 /\ objs' = [objs EXCEPT ![m] = ver]
      /\ events' = IF listed THEN Append(events, e) ELSE events
      /\ store' = store /\ work' = work /\ deltas' = deltas
  BY DEF Written, Write, fifoVars, cacheVars
<1>2. rv \in Nat /\ (ver = rv + 1 \/ ver = 0) /\ e.name = m /\ e.ver = ver
  BY VersionTypes DEF Basic
<1> HIDE DEF ver, e
<1>3. \A k \in DOMAIN events' : \/ k \in DOMAIN events /\ events'[k] = events[k]
                                \/ k = Len(events) + 1 /\ events'[k] = e
  <2>1. CASE ~listed
    BY <1>1, <2>1
  <2>2. CASE listed
    <3>1. events \in Seq(Event)
      BY DEF Basic, TypeOK, Event
    <3>5. events' \in Seq(Event \cup {e})
      <4>1. events \in Seq(Event \cup {e}) /\ e \in Event \cup {e}
        BY <3>1
      <4> QED
        BY <1>1, <2>2, <4>1, AppendProperties
    <3>2. Len(events) \in Nat /\ DOMAIN events = 1 .. Len(events)
      BY <3>1, LenProperties
    <3>3. /\ Len(events') = Len(events) + 1 /\ events'[Len(events) + 1] = e
          /\ \A k \in 1 .. Len(events) : events'[k] = events[k]
      <4>1. events \in Seq(Event \cup {e}) /\ e \in Event \cup {e}
        BY <3>1
      <4> QED
        BY <1>1, <2>2, <4>1, AppendProperties
    <3>4. DOMAIN events' = 1 .. (Len(events) + 1)
      BY <3>3, <3>5, LenProperties
    <3> QED
      BY <3>2, <3>3, <3>4
  <2> QED
    BY <2>1, <2>2
<1>4. \A k \in DOMAIN events : k \in Nat /\ k <= Len(events) /\ Len(events) \in Nat
                               /\ events[k].ver \in Nat
  BY VersionTypes DEF Basic
<1>5. SUFFICES ASSUME NEW n \in Names
               PROVE  Rising(n, events', Pending(n)', store'[n], objs'[n], rv')
  BY DEF RisingInv
<1> DEFINE q == Pending(n)
<1>6. Pending(n)' = q /\ store'[n] = store[n]
  BY <1>1, PendingFrame
<1>7. /\ q \in Seq(Delta) /\ store[n] \in Nat /\ objs[n] \in Nat
      /\ \A i \in DOMAIN q : q[i].ver \in Nat
  BY VersionTypes, Elements DEF Basic
<1>8. /\ RisingStore(store[n], objs[n], rv) /\ RisingPending(q, store[n], objs[n], rv)
      /\ RisingEvents(n, events, q, store[n], objs[n], rv)
  BY DEF RisingInv, Rising
<1> HIDE DEF q
<1>9. \A x \in Nat : x <= rv => x <= rv + 1 /\ Upto(x, ver)
  BY <1>2 DEF Upto
<1>10. objs'[n] = IF n = m THEN ver ELSE objs[n]
  BY <1>1 DEF Basic, TypeOK
<1>11. \A x \in Nat : x <= rv /\ Upto(x, objs[n]) => x <= rv' /\ Upto(x, objs'[n])
  BY <1>1, <1>9, <1>10
<1>12. ver <= rv' /\ (n = m => Upto(ver, objs'[n])) /\ objs'[n] <= rv'
  BY <1>1, <1>2, <1>7, <1>8, <1>10 DEF Upto, RisingStore
<1>13. RisingStore(store[n], objs'[n], rv')
  BY <1>7, <1>8, <1>11, <1>12 DEF RisingStore
<1>14. RisingPending(q, store[n], objs'[n], rv')
  BY <1>7, <1>8, <1>11 DEF RisingPending
<1>15. RisingEvents(n, events', q, store[n], objs'[n], rv')
  <2> SUFFICES ASSUME NEW k \in DOMAIN events', events'[k].name = n
               PROVE  /\ events'[k].ver <= rv'
                      /\ Upto(store[n], events'[k].ver) /\ Upto(events'[k].ver, objs'[n])
                      /\ \A i \in DOMAIN q : Upto(q[i].ver, events'[k].ver)
                      /\ \A l \in DOMAIN events' : k < l /\ events'[l].name = n
                            => Upto(events'[k].ver, events'[l].ver)
    BY DEF RisingEvents
  <2>1. CASE k \in DOMAIN events /\ events'[k] = events[k]
    <3>1. /\ events[k].ver \in Nat /\ events[k].ver <= rv
          /\ Upto(store[n], events[k].ver) /\ Upto(events[k].ver, objs[n])
          /\ \A i \in DOMAIN q : Upto(q[i].ver, events[k].ver)
      BY <1>4, <1>8, <2>1 DEF RisingEvents
    <3>2. ASSUME NEW l \in DOMAIN events', k < l, events'[l].name = n
          PROVE  Upto(events[k].ver, events'[l].ver)
      <4>1. CASE l \in DOMAIN events /\ events'[l] = events[l]
        BY <1>8, <2>1, <3>2, <4>1 DEF RisingEvents
      <4>2. CASE events'[l] = e
        BY <1>2, <1>9, <3>1, <4>2
      <4> QED
        BY <1>3, <4>1, <4>2
    <3> QED
      BY <1>11, <2>1, <3>1, <3>2
  <2>2. CASE k = Len(events) + 1 /\ events'[k] = e
    <3>1. n = m /\ events'[k].ver = ver
      BY <1>2, <2>2
    <3>2. Upto(store[n], ver) /\ \A i \in DOMAIN q : Upto(q[i].ver, ver)
      BY <1>7, <1>8, <1>9 DEF RisingStore, RisingPending
    <3>3. \A l \in DOMAIN events' : ~(k < l)
      <4>1. Len(events) \in Nat
        BY VersionTypes DEF Basic
      <4> QED
        BY <1>3, <1>4, <2>2, <4>1
    <3> QED
      BY <1>12, <3>1, <3>2, <3>3
  <2> QED
    BY <1>3, <2>1, <2>2
<1> QED
  BY <1>6, <1>13, <1>14, <1>15 DEF Rising

\* A list brings the newest versions, and no events are left.
LEMMA ListRises ==
    ASSUME Basic, RisingInv, List
    PROVE  RisingInv'
<1> SUFFICES ASSUME NEW n \in Names
             PROVE  Rising(n, events', Pending(n)', store'[n], objs'[n], rv')
  BY DEF RisingInv
<1> DEFINE q == Pending(n)
<1>1. objs' = objs /\ rv' = rv /\ events' = <<>> /\ work' = work /\ work = NoWork
  BY DEF List, serverVars
<1>2. Rising(n, events, q, store[n], objs[n], rv)
  BY DEF RisingInv
<1>3. q \in Seq(Delta) /\ objs[n] \in Nat /\ store[n] \in Nat /\ rv \in Nat
  BY VersionTypes DEF Basic
<1>4. \A t, s : RisingEvents(n, events', t, s, objs[n], rv)
  BY <1>1 DEF RisingEvents
<1>5. CASE prog \in Plain
  <2>1. store' = objs /\ deltas' = deltas
    BY <1>5 DEF List, fifoVars
  <2>2. Pending(n)' = q
    BY <1>1, <2>1, PendingFrame
  <2>3. q = <<>>
    BY <1>1, <1>5, PendingFacts DEF Basic, FifoInv, TypeOK
  <2>4. RisingPending(q, objs[n], objs[n], rv)
    BY <2>3 DEF RisingPending
  <2>5. RisingStore(objs[n], objs[n], rv)
    BY <1>2, <1>3 DEF Rising, RisingStore, Upto
  <2> HIDE DEF q
  <2> QED
    BY <1>1, <1>4, <2>1, <2>2, <2>4, <2>5 DEF Rising
<1>6. CASE prog \notin Plain
  <2>1. store' = store
    BY <1>6 DEF List
  <2>2. /\ Pending(n)' = IF n \in Known THEN Queued(q, Brought(n)) ELSE q
        /\ Brought(n) \in Delta
    BY <1>6, ListPending
  <2> DEFINE v == Brought(n).ver
  <2>3. v = objs[n] \/ v = 0
    BY DEF Brought, Put, Tombstone
  <2> HIDE DEF q
  <2>4. v <= rv /\ Upto(store[n], v) /\ Upto(v, objs[n]) /\ \A i \in DOMAIN q : Upto(q[i].ver, v)
    BY <1>2, <1>3, <2>3 DEF Rising, RisingStore, RisingPending, Upto
  <2>5. /\ RisingPending(Queued(q, Brought(n)), store[n], objs[n], rv)
    <3>1. RisingPending(q, store[n], objs[n], rv) /\ RisingEvents(n, events', q, store[n], objs[n], rv)
      BY <1>2, <1>4 DEF Rising
    <3>2. TypeOK /\ \A k \in DOMAIN events' : events'[k].name = n => Upto(v, events'[k].ver)
      BY <1>1 DEF Basic
    <3> DEFINE d == Brought(n)
               ev == events'
    <3>3. d \in Delta /\ v = d.ver
      BY <2>2
    <3> HIDE DEF d, v, ev
    <3>4. /\ RisingPending(Queued(q, d), store[n], objs[n], rv)
          /\ RisingEvents(n, ev, Queued(q, d), store[n], objs[n], rv)
      BY <1>3, <2>4, <3>1, <3>2, <3>3, QueuedRises DEF ev
    <3> QED
      BY <3>4 DEF d
  <2> QED
    BY <1>1, <1>2, <1>4, <2>1, <2>2, <2>5 DEF Rising
<1> QED
  BY <1>5, <1>6

\* An event is as new as what is pending and what the store has.
LEMMA WatchRises ==
    ASSUME Basic, RisingInv, Watch
    PROVE  RisingInv'
<1> SUFFICES ASSUME NEW n \in Names
             PROVE  Rising(n, events', Pending(n)', store'[n], objs'[n], rv')
  BY DEF RisingInv
<1> DEFINE q == Pending(n)
           e == Head(events)
           ev == events'
<1>1. objs' = objs /\ rv' = rv /\ events # <<>> /\ events' = Tail(events) /\ work = NoWork
  BY WatchFacts
<1>2. e = events[1] /\ 1 \in DOMAIN events /\ TypeOK
  BY <1>1, RestOfEvents DEF Basic
<1>3. /\ Rising(n, ev, q, store[n], objs[n], rv)
      /\ e.name = n =>
           /\ e.ver <= rv /\ Upto(store[n], e.ver) /\ Upto(e.ver, objs[n])
           /\ \A i \in DOMAIN q : Upto(q[i].ver, e.ver)
           /\ \A k \in DOMAIN ev : ev[k].name = n => Upto(e.ver, ev[k].ver)
  <2>1. Rising(n, events, q, store[n], objs[n], rv)
    BY DEF RisingInv
  <2> QED
    BY <1>1, <1>2, <2>1, RestRises
<1>4. q \in Seq(Delta) /\ objs[n] \in Nat /\ store[n] \in Nat /\ rv \in Nat /\ e.ver \in Nat
  BY <1>2, VersionTypes
<1>5. CASE prog \in Plain
  <2>1. store' = [store EXCEPT ![e.name] = e.ver] /\ deltas' = deltas /\ work' = work
    BY <1>5, WatchFacts
  <2>2. store'[n] = IF n = e.name THEN e.ver ELSE store[n]
    BY <2>1 DEF Basic, TypeOK
  <2>3. Pending(n)' = q
    BY <2>1, PendingFrame
  <2>4. q = <<>>
    BY <1>1, <1>5, PendingFacts DEF Basic, FifoInv, TypeOK
  <2> HIDE DEF q, ev
  <2>5. CASE n = e.name
    <3>1. RisingStore(e.ver, objs[n], rv)
      BY <1>3, <2>5 DEF Rising, RisingStore
    <3>2. RisingPending(q, e.ver, objs[n], rv)
      BY <2>4 DEF RisingPending
    <3>3. RisingEvents(n, ev, q, e.ver, objs[n], rv)
      BY <1>3, <2>5 DEF Rising, RisingEvents
    <3> QED
      BY <1>1, <2>2, <2>3, <2>5, <3>1, <3>2, <3>3 DEF Rising, ev
  <2>6. CASE n # e.name
    BY <1>1, <1>3, <2>2, <2>3, <2>6 DEF ev
  <2> QED
    BY <2>5, <2>6
<1>6. CASE prog \notin Plain
  <2>1. store' = store
    BY <1>6, WatchFacts
  <2>2. CASE Pending(n)' = q
    BY <1>1, <1>3, <2>1, <2>2
  <2>3. CASE e.name = n /\ EventDelta(e) \in Delta /\ Pending(n)' = Queued(q, EventDelta(e))
    <3> DEFINE d == EventDelta(e)
    <3>1. d.ver = e.ver /\ d \in Delta
      BY <2>3 DEF EventDelta, Put, Deleted
    <3>2. RisingPending(q, store[n], objs[n], rv) /\ RisingEvents(n, ev, q, store[n], objs[n], rv)
      BY <1>3 DEF Rising
    <3> HIDE DEF d, q, ev, e
    <3>3. /\ RisingPending(Queued(q, d), store[n], objs[n], rv)
          /\ RisingEvents(n, ev, Queued(q, d), store[n], objs[n], rv)
      BY <1>2, <1>3, <1>4, <2>3, <3>1, <3>2, QueuedRises
    <3>4. Pending(n)' = Queued(q, d) /\ RisingStore(store[n], objs[n], rv)
      BY <1>3, <2>3 DEF d, Rising
    <3> QED
      BY <1>1, <2>1, <3>3, <3>4 DEF Rising, ev
  <2> QED
    BY <1>6, <2>2, <2>3, WatchPending
<1> QED
  BY <1>5, <1>6

\* A resync brings what the store has.
LEMMA ResyncRises ==
    ASSUME Basic, RisingInv, Resync
    PROVE  RisingInv'
<1> SUFFICES ASSUME NEW n \in Names
             PROVE  Rising(n, events', Pending(n)', store'[n], objs'[n], rv')
  BY DEF RisingInv
<1> DEFINE q == Pending(n)
           d == Put(store[n])
<1>1. objs' = objs /\ rv' = rv /\ events' = events /\ store' = store /\ TypeOK
  BY ResyncFacts DEF Basic
<1>2. Rising(n, events, q, store[n], objs[n], rv)
  BY DEF RisingInv
<1>3. CASE Pending(n)' = q
  BY <1>1, <1>2, <1>3
<1>4. CASE q = <<>> /\ d \in Delta /\ Pending(n)' = Queued(q, d)
  <2>1. d.ver = store[n] /\ store[n] \in Nat /\ q \in Seq(Delta) /\ d \in Delta /\ TypeOK
    BY <1>4, VersionTypes DEF Put, Basic
  <2> HIDE DEF d, q
  <2>2. /\ RisingPending(q, store[n], objs[n], rv) /\ RisingEvents(n, events, q, store[n], objs[n], rv)
        /\ RisingStore(store[n], objs[n], rv)
    BY <1>2 DEF Rising
  <2>3. /\ d.ver <= rv /\ Upto(store[n], d.ver) /\ Upto(d.ver, objs[n])
        /\ \A i \in DOMAIN q : Upto(q[i].ver, d.ver)
        /\ \A k \in DOMAIN events : events[k].name = n => Upto(d.ver, events[k].ver)
    BY <1>4, <2>1, <2>2 DEF RisingStore, RisingEvents, Upto
  <2>4. /\ RisingPending(Queued(q, d), store[n], objs[n], rv)
        /\ RisingEvents(n, events, Queued(q, d), store[n], objs[n], rv)
    BY <2>1, <2>2, <2>3, QueuedRises
  <2> QED
    BY <1>1, <1>4, <2>2, <2>4 DEF Rising
<1> QED
  BY <1>3, <1>4, ResyncPending

\* The first pending delta goes to the store.
LEMMA AppliedRises ==
    ASSUME Basic, RisingInv, NEW m \in Names, Applied(m)
    PROVE  RisingInv' /\ Upto(store[m], store'[m])
<1>1. objs' = objs /\ rv' = rv /\ events' = events
  BY AppliedTypes
<1> DEFINE q == Pending(m)
<1>2. /\ q \in Seq(Delta) /\ q # <<>> /\ Pending(m)' = Tail(q)
      /\ store'[m] = Head(q).ver /\ \A n \in Names \ {m} : store'[n] = store[n]
      /\ \A n \in Names \ {m} : Pending(n)' = Pending(n)
  BY PendingFacts DEF Basic, Applied, TypeOK
<1>3. /\ Head(q) = q[1] /\ 1 \in DOMAIN q
      /\ \A i \in DOMAIN Tail(q) : i \in Nat /\ i + 1 \in DOMAIN q /\ Tail(q)[i] = q[i + 1]
  BY <1>2, Rest
<1>4. Rising(m, events, q, store[m], objs[m], rv)
  BY DEF RisingInv
<1> DEFINE v == q[1].ver
           t == Tail(q)
<1>5. /\ v <= rv /\ Upto(store[m], v) /\ Upto(v, objs[m])
      /\ \A i \in DOMAIN t : Upto(v, t[i].ver)
  <2> HIDE DEF q
  <2>1. \A i \in DOMAIN t : 1 < i + 1
    BY <1>3
  <2> QED
    BY <1>3, <1>4, <2>1 DEF Rising, RisingPending
<1>6. RisingStore(v, objs[m], rv)
  BY <1>4, <1>5 DEF Rising, RisingStore
<1>7. RisingPending(t, v, objs[m], rv)
  <2>1. \A i, j \in DOMAIN t : i < j => i + 1 < j + 1
    BY <1>3
  <2> HIDE DEF q, v
  <2> QED
    BY <1>3, <1>4, <1>5, <2>1 DEF Rising, RisingPending
<1>8. RisingEvents(m, events, t, v, objs[m], rv)
  <2> HIDE DEF q
  <2> QED
    BY <1>3, <1>4 DEF Rising, RisingEvents
<1>9. store'[m] = v /\ Pending(m)' = t
  BY <1>2, <1>3
<1>10. Rising(m, events', Pending(m)', store'[m], objs'[m], rv')
  <2> HIDE DEF q, v, t
  <2> QED
    BY <1>1, <1>6, <1>7, <1>8, <1>9 DEF Rising
<1>11. \A n \in Names \ {m} : Rising(n, events', Pending(n)', store'[n], objs'[n], rv')
  BY <1>1, <1>2 DEF RisingInv
<1> QED
  BY <1>5, <1>9, <1>10, <1>11 DEF RisingInv

\* Nothing changes on the way.
LEMMA RisingFrame ==
    ASSUME RisingInv, UNCHANGED <<objs, rv, events, work, deltas, store>>
    PROVE  RisingInv'
BY PendingFrame DEF RisingInv

\* Every step keeps the versions rising.
LEMMA RisingStep ==
    ASSUME Basic, RisingInv, [AllNext]_allVars
    PROVE  RisingInv'
<1>1. \/ Quiet \/ List \/ Watch \/ Resync \/ Pop \/ Process \/ Handle
      \/ \E n \in Names : Written(n, TRUE) \/ Written(n, FALSE)
  BY StepKinds DEF Basic
<1>2. \A n \in Names : Written(n, TRUE) \/ Written(n, FALSE) => RisingInv'
  <2>1. TRUE \in BOOLEAN /\ FALSE \in BOOLEAN
    OBVIOUS
  <2> QED
    BY <2>1, WrittenRises
<1>3. Pop \/ Process => \E n \in Names : Applied(n)
  BY PopApplies, ProcessApplies DEF Basic
<1>4. Quiet \/ Handle => UNCHANGED <<objs, rv, events, work, deltas, store>>
  BY DEF Quiet, Handle, serverVars, fifoVars, cacheVars
<1> QED
  BY <1>1, <1>2, <1>3, <1>4, ListRises, WatchRises, ResyncRises, AppliedRises, RisingFrame

\* No step takes the store back.
LEMMA NoStepBack ==
    ASSUME Basic, RisingInv, [AllNext]_allVars
    PROVE  \A n \in Names : Upto(store[n], store'[n])
<1>1. \A n \in Names : store[n] \in Nat /\ objs[n] \in Nat
  BY VersionTypes DEF Basic
<1>2. CASE store' = store
  BY <1>1, <1>2 DEF Upto
<1>3. CASE Pop \/ Process
  <2>1. PICK m \in Names : Applied(m)
    BY <1>3, PopApplies, ProcessApplies DEF Basic
  <2>2. \A n \in Names \ {m} : store'[n] = store[n]
    BY <2>1 DEF Applied, Basic, TypeOK
  <2>3. Upto(store[m], store'[m])
    BY <2>1, AppliedRises
  <2> QED
    BY <1>1, <2>2, <2>3 DEF Upto
<1>4. CASE List
  <2>1. store' = objs \/ store' = store
    BY <1>4 DEF List
  <2> QED
    BY <1>2, <2>1 DEF RisingInv, Rising, RisingStore
<1>5. CASE Watch
  <2>1. CASE prog \in Plain
    <3> DEFINE e == Head(events)
    <3>1. store' = [store EXCEPT ![e.name] = e.ver] /\ events # <<>> /\ events' = Tail(events)
      BY <1>5, <2>1, WatchFacts
    <3>2. e = events[1] /\ 1 \in DOMAIN events
      BY <3>1, RestOfEvents DEF Basic
    <3>3. \A n \in Names : store'[n] = IF n = e.name THEN e.ver ELSE store[n]
      BY <3>1 DEF Basic, TypeOK
    <3>4. \A n \in Names : e.name = n => Upto(store[n], e.ver)
      BY <3>2 DEF RisingInv, Rising, RisingEvents
    <3> QED
      BY <1>1, <3>3, <3>4 DEF Upto
  <2>2. CASE prog \notin Plain
    BY <1>2, <1>5, <2>2, WatchFacts
  <2> QED
    BY <2>1, <2>2
<1>6. \A n \in Names : Written(n, TRUE) \/ Written(n, FALSE) => store' = store
  BY DEF Written, cacheVars
<1>7. Quiet \/ Handle \/ Resync => store' = store
  BY DEF Quiet, Handle, Resync, cacheVars
<1> QED
  BY <1>2, <1>3, <1>4, <1>5, <1>6, <1>7, StepKinds DEF Basic
-----------------------------------------------------------------------------
(* Deletions follow additions.                                             *)

\* A delta that deletes what is there can be queued.
LEMMA QueuedDeletes ==
    ASSUME TypeOK, NEW q \in Seq(Delta), NEW d \in Delta, NEW s, Deletion(q, s),
           d.type = "put" <=> d.ver # 0,
           d.type # "put" => s # 0 \/ q # <<>>
    PROVE  Deletion(Queued(q, d), s)
<1> DEFINE t == Queued(q, d)
<1>1. QueuedAs(q, d, t) /\ t \in Seq(Delta)
  BY QueuedFacts
<1>2. /\ DOMAIN q = 1 .. Len(q) /\ Len(q) \in Nat
      /\ DOMAIN t = 1 .. Len(t) /\ Len(t) \in Nat
      /\ q # <<>> => Len(q) # 0
      /\ q = <<>> => Len(q) = 0
  BY <1>1, LenProperties, EmptySeq
<1> HIDE DEF t
<1>3. CASE t = q
  BY <1>3 DEF t
<1>4. CASE /\ Len(t) = Len(q) /\ q # <<>> /\ q[Len(q)].type # "put"
           /\ \A i \in 1 .. (Len(q) - 1) : t[i] = q[i]
           /\ t[Len(q)] = d
  <2> SUFFICES ASSUME NEW i \in DOMAIN t
               PROVE  /\ t[i].type = "put" <=> t[i].ver # 0
                      /\ i = 1 /\ t[i].type # "put" => s # 0
                      /\ i > 1 /\ t[i].type # "put" => t[i - 1].type = "put"
    BY DEF Deletion, t
  <2>1. i > 1 => t[i - 1] = q[i - 1]
    BY <1>2, <1>4
  <2>2. CASE i = Len(q)
    <3>1. /\ i = 1 => s # 0
          /\ i > 1 => q[i - 1].type = "put"
      BY <1>2, <1>4, <2>2 DEF Deletion
    <3> QED
      BY <1>4, <2>1, <2>2, <3>1
  <2>3. CASE i # Len(q)
    <3>1. i \in DOMAIN q /\ t[i] = q[i]
      BY <1>2, <1>4, <2>3
    <3> QED
      BY <2>1, <3>1 DEF Deletion
  <2> QED
    BY <2>2, <2>3
<1>5. CASE /\ Len(t) = Len(q) + 1
           /\ \A i \in 1 .. Len(q) : t[i] = q[i]
           /\ t[Len(q) + 1] = d
           /\ d.type = "put" \/ q = <<>> \/ q[Len(q)].type = "put"
  <2> SUFFICES ASSUME NEW i \in DOMAIN t
               PROVE  /\ t[i].type = "put" <=> t[i].ver # 0
                      /\ i = 1 /\ t[i].type # "put" => s # 0
                      /\ i > 1 /\ t[i].type # "put" => t[i - 1].type = "put"
    BY DEF Deletion, t
  <2>1. i > 1 => t[i - 1] = q[i - 1]
    BY <1>2, <1>5
  <2>2. CASE i = Len(q) + 1
    <3>1. i = 1 /\ d.type # "put" => s # 0
      BY <1>2, <2>2
    <3>2. i > 1 /\ d.type # "put" => q[i - 1].type = "put"
      <4>1. i > 1 => q # <<>>
        BY <1>2, <2>2
      <4>2. i - 1 = Len(q)
        BY <1>2, <2>2
      <4> QED
        BY <1>5, <4>1, <4>2
    <3> QED
      BY <1>5, <2>1, <2>2, <3>1, <3>2
  <2>3. CASE i # Len(q) + 1
    <3>1. i \in DOMAIN q /\ t[i] = q[i]
      BY <1>2, <1>5, <2>3
    <3> QED
      BY <2>1, <3>1 DEF Deletion
  <2> QED
    BY <2>2, <2>3
<1> QED
  BY <1>1, <1>3, <1>4, <1>5 DEF QueuedAs

\* A plain store has nothing pending.
LEMMA PlainPending ==
    ASSUME Basic, prog \in Plain, NEW n \in Names
    PROVE  Pending(n) = <<>>
<1>1. work = NoWork /\ deltas[n] = <<>>
  BY DEF Basic, FifoInv, TypeOK
<1> QED
  BY <1>1, PendingFacts DEF Basic

\* Every step keeps deletions in their place.
LEMMA DeletionStep ==
    ASSUME Basic, DeletionInv, [AllNext]_allVars
    PROVE  DeletionInv'
<1> SUFFICES ASSUME NEW n \in Names PROVE Deletion(Pending(n)', store'[n])
  BY DEF DeletionInv
<1> DEFINE q == Pending(n)
<1>1. Deletion(q, store[n]) /\ q \in Seq(Delta) /\ TypeOK
  BY PendingFacts DEF DeletionInv, Basic
<1>2. CASE UNCHANGED <<work, deltas, store>>
  BY <1>1, <1>2, PendingFrame
<1>3. CASE List \/ Watch
  <2>1. CASE prog \in Plain
    <3>1. work' = work /\ deltas' = deltas
      BY <1>3, <2>1 DEF List, Watch, fifoVars
    <3>2. Pending(n)' = <<>>
      BY <2>1, <3>1, PendingFrame, PlainPending
    <3> QED
      BY <3>2 DEF Deletion
  <2>2. CASE prog \notin Plain /\ List
    <3> DEFINE d == Brought(n)
    <3>1. store' = store
      BY <2>2 DEF List
    <3>2. /\ Pending(n)' = IF n \in Known THEN Queued(q, d) ELSE q
          /\ d \in Delta
          /\ n \in Known <=> objs[n] # 0 \/ store[n] # 0 \/ q # <<>>
      BY <2>2, ListPending
    <3>3. (d.type = "put" <=> d.ver # 0) /\ (d.type # "put" => objs[n] = 0)
      BY DEF Brought, Put, Tombstone
    <3> HIDE DEF d, q
    <3>4. CASE n \in Known
      BY <1>1, <3>1, <3>2, <3>3, <3>4, QueuedDeletes
    <3>5. CASE n \notin Known
      BY <1>1, <3>1, <3>2, <3>5
    <3> QED
      BY <3>4, <3>5
  <2>3. CASE prog \notin Plain /\ Watch
    <3> DEFINE d == EventDelta(Head(events))
    <3>1. store' = store
      BY <2>3, WatchFacts
    <3>2. \/ Pending(n)' = q
          \/ /\ d \in Delta /\ Pending(n)' = Queued(q, d)
             /\ Head(events).ver = 0 => store[n] # 0 \/ q # <<>>
      BY <2>3, WatchPending
    <3>3. (d.type = "put" <=> d.ver # 0) /\ (d.type # "put" => Head(events).ver = 0)
      BY DEF EventDelta, Put, Deleted
    <3> HIDE DEF d, q
    <3> QED
      BY <1>1, <3>1, <3>2, <3>3, QueuedDeletes
  <2> QED
    BY <1>3, <2>1, <2>2, <2>3
<1>4. CASE Resync
  <2> DEFINE d == Put(store[n])
  <2>1. store' = store
    BY <1>4, ResyncFacts
  <2>2. \/ Pending(n)' = q
        \/ store[n] # 0 /\ d \in Delta /\ Pending(n)' = Queued(q, d)
    BY <1>4, ResyncPending
  <2>3. d.type = "put" /\ d.ver = store[n]
    BY DEF Put
  <2> HIDE DEF d, q
  <2> QED
    BY <1>1, <2>1, <2>2, <2>3, QueuedDeletes
<1>5. CASE Pop \/ Process
  <2>1. PICK m \in Names : Applied(m)
    BY <1>5, PopApplies, ProcessApplies DEF Basic
  <2>2. CASE n # m
    <3>1. Pending(n)' = q /\ store'[n] = store[n]
      BY <2>1, <2>2 DEF Applied, Basic, TypeOK
    <3> QED
      BY <1>1, <3>1
  <2>3. CASE n = m
    <3>1. q # <<>> /\ Pending(n)' = Tail(q) /\ store'[n] = Head(q).ver
      BY <2>1, <2>3 DEF Applied, Basic, TypeOK
    <3> DEFINE t == Tail(q)
    <3>2. /\ Head(q) = q[1] /\ 1 \in DOMAIN q
          /\ \A i \in DOMAIN t : i \in Nat /\ i + 1 \in DOMAIN q /\ t[i] = q[i + 1]
      BY <1>1, <3>1, Rest
    <3>3. DOMAIN t = 1 .. Len(t) /\ Len(t) \in Nat
      BY <1>1, <3>1, Rest, LenProperties
    <3> HIDE DEF q, t
    <3>4. Deletion(t, q[1].ver)
      <4> SUFFICES ASSUME NEW i \in DOMAIN t
                   PROVE  /\ t[i].type = "put" <=> t[i].ver # 0
                          /\ i = 1 /\ t[i].type # "put" => q[1].ver # 0
                          /\ i > 1 /\ t[i].type # "put" => t[i - 1].type = "put"
        BY DEF Deletion
      <4>1. t[i] = q[i + 1] /\ i + 1 \in DOMAIN q /\ i + 1 > 1 /\ (i + 1) - 1 = i
        BY <3>2, <3>3
      <4>2. t[i].type = "put" <=> t[i].ver # 0
        BY <1>1, <4>1 DEF Deletion
      <4>3. t[i].type # "put" => q[i].type = "put"
        BY <1>1, <4>1 DEF Deletion
      <4>4. i > 1 => i - 1 \in DOMAIN t /\ t[i - 1] = q[i]
        <5> SUFFICES ASSUME i > 1 PROVE i - 1 \in DOMAIN t /\ t[i - 1] = q[i]
          OBVIOUS
        <5>1. i - 1 \in DOMAIN t /\ (i - 1) + 1 = i
          BY <3>3
        <5> QED
          BY <3>2, <5>1
      <4>5. q[1].type = "put" => q[1].ver # 0
        BY <1>1, <3>2 DEF Deletion
      <4> QED
        BY <4>2, <4>3, <4>4, <4>5
    <3> QED
      BY <3>1, <3>2, <3>4 DEF t
  <2> QED
    BY <2>2, <2>3
<1>6. \A m \in Names : Written(m, TRUE) \/ Written(m, FALSE) => UNCHANGED <<work, deltas, store>>
  BY DEF Written, cacheVars, fifoVars
<1>7. Quiet \/ Handle => UNCHANGED <<work, deltas, store>>
  BY DEF Quiet, Handle, cacheVars, fifoVars
<1> QED
  BY <1>1, <1>2, <1>3, <1>4, <1>5, <1>6, <1>7, StepKinds
-----------------------------------------------------------------------------
(* What the handlers are told.                                             *)

\* A notification is added at the end.
LEMMA BetweenAppend ==
    ASSUME NEW S, NEW s \in Seq(S), NEW x \in S, NEW m
    PROVE  /\ \A i, j \in Nat : j <= Len(s) + 1 =>
                 (Between(Append(s, x), i, j, m) <=> Between(s, i, j, m))
           /\ \A i \in Nat : i <= Len(s) =>
                 (Between(Append(s, x), i, Len(s) + 2, m)
                    <=> x.name = m \/ Between(s, i, Len(s) + 1, m))
<1> DEFINE t == Append(s, x)
<1>1. /\ Len(s) \in Nat /\ DOMAIN s = 1 .. Len(s) /\ DOMAIN t = 1 .. (Len(s) + 1)
      /\ \A k \in 1 .. Len(s) : t[k] = s[k]
      /\ t[Len(s) + 1] = x
  BY AppendProperties, LenProperties
<1> HIDE DEF t
<1>2. \A k \in DOMAIN t : \/ k = Len(s) + 1
                          \/ k \in DOMAIN s /\ t[k] = s[k] /\ k <= Len(s)
  <2> TAKE k \in DOMAIN t
  <2>1. CASE k \in 1 .. Len(s)
    <3>1. k <= Len(s)
      BY <1>1, <2>1
    <3>2. k \in DOMAIN s /\ t[k] = s[k]
      BY <1>1, <2>1
    <3> QED
      BY <3>1, <3>2
  <2>2. CASE k \notin 1 .. Len(s)
    <3>1. k \in 1 .. (Len(s) + 1) /\ Len(s) \in Nat
      BY <1>1
    <3>2. k = Len(s) + 1
      BY <2>2, <3>1
    <3> QED
      BY <3>2
  <2> QED
    BY <2>1, <2>2
<1>3. \A k \in DOMAIN s : k \in DOMAIN t /\ t[k] = s[k] /\ k <= Len(s)
  BY <1>1
<1>4. \A i, j \in Nat : j <= Len(s) + 1 => (Between(t, i, j, m) <=> Between(s, i, j, m))
  <2> SUFFICES ASSUME NEW i \in Nat, NEW j \in Nat, j <= Len(s) + 1
               PROVE  Between(t, i, j, m) <=> Between(s, i, j, m)
    OBVIOUS
  <2>1. \A k \in DOMAIN t : k < j => k \in DOMAIN s /\ t[k] = s[k]
    BY <1>1, <1>2
  <2> QED
    BY <1>3, <2>1 DEF Between
<1>5. \A i \in Nat : i <= Len(s) =>
         (Between(t, i, Len(s) + 2, m) <=> x.name = m \/ Between(s, i, Len(s) + 1, m))
  <2> SUFFICES ASSUME NEW i \in Nat, i <= Len(s)
               PROVE  Between(t, i, Len(s) + 2, m) <=> x.name = m \/ Between(s, i, Len(s) + 1, m)
    OBVIOUS
  <2>1. /\ Len(s) + 1 \in DOMAIN t /\ i < Len(s) + 1 /\ Len(s) + 1 < Len(s) + 2
        /\ \A k \in DOMAIN s : k < Len(s) + 1 /\ k < Len(s) + 2
    BY <1>1
  <2> QED
    BY <1>1, <1>2, <1>3, <2>1 DEF Between
<1> QED
  BY <1>4, <1>5 DEF t

\* The first notification is taken.
LEMMA BetweenTail ==
    ASSUME NEW S, NEW s \in Seq(S), s # <<>>, NEW m, NEW i \in Nat, NEW j \in Nat
    PROVE  /\ Between(Tail(s), i, j, m) <=> Between(s, i + 1, j + 1, m)
           /\ j >= 1 => (Between(s, 0, j + 1, m) <=> s[1].name = m \/ Between(s, 1, j + 1, m))
<1> DEFINE t == Tail(s)
<1>1. /\ Len(s) \in Nat \ {0} /\ DOMAIN s = 1 .. Len(s) /\ DOMAIN t = 1 .. (Len(s) - 1)
      /\ \A k \in DOMAIN t : k \in Nat /\ k + 1 \in DOMAIN s /\ t[k] = s[k + 1]
  BY Rest, LenProperties
<1> HIDE DEF t
<1>2. Between(t, i, j, m) <=> Between(s, i + 1, j + 1, m)
  <2>1. ASSUME Between(t, i, j, m) PROVE Between(s, i + 1, j + 1, m)
    <3>1. PICK k \in DOMAIN t : i < k /\ k < j /\ t[k].name = m
      BY <2>1 DEF Between
    <3>2. k + 1 \in DOMAIN s /\ i + 1 < k + 1 /\ k + 1 < j + 1 /\ s[k + 1].name = m
      BY <1>1, <3>1
    <3> QED
      BY <3>2 DEF Between
  <2>2. ASSUME Between(s, i + 1, j + 1, m) PROVE Between(t, i, j, m)
    <3>1. PICK k \in DOMAIN s : i + 1 < k /\ k < j + 1 /\ s[k].name = m
      BY <2>2 DEF Between
    <3>2. k - 1 \in DOMAIN t /\ i < k - 1 /\ k - 1 < j /\ (k - 1) + 1 = k
      BY <1>1, <3>1
    <3>3. t[k - 1].name = m
      BY <1>1, <3>1, <3>2
    <3> QED
      BY <3>2, <3>3 DEF Between
  <2> QED
    BY <2>1, <2>2
<1>3. ASSUME j >= 1
      PROVE  Between(s, 0, j + 1, m) <=> s[1].name = m \/ Between(s, 1, j + 1, m)
  <2>1. 1 \in DOMAIN s /\ 0 < 1 /\ 1 < j + 1
    BY <1>1, <1>3
  <2>2. \A k \in DOMAIN s : k = 1 \/ 1 < k
    BY <1>1
  <2>3. \A k \in DOMAIN s : 0 < k
    BY <1>1
  <2> QED
    BY <2>1, <2>2, <2>3 DEF Between
<1> QED
  BY <1>2, <1>3 DEF t

\* A notification that fits the store, and after which the store fits it, may
\* be sent.
LEMMA SentFits ==
    ASSUME NEW s \in Seq(Note), NEW known, NEW c, NEW c2, NEW x \in Note,
           FirstFits(s, known), NextFits(s), LastFits(s, c), KnownFits(s, known, c),
           x.type = "add" <=> c[x.name] = 0,
           x.type \in Deletes <=> c2[x.name] = 0,
           \A m \in Names \ {x.name} : c2[m] = c[m]
    PROVE  /\ FirstFits(Append(s, x), known) /\ NextFits(Append(s, x))
           /\ LastFits(Append(s, x), c2) /\ KnownFits(Append(s, x), known, c2)
<1> DEFINE t == Append(s, x)
           n == Len(s)
<1>1. /\ n \in Nat /\ DOMAIN s = 1 .. n /\ DOMAIN t = 1 .. (n + 1) /\ Len(t) = n + 1
      /\ \A k \in 1 .. n : t[k] = s[k]
      /\ t[n + 1] = x
  BY AppendProperties, LenProperties
<1>2. \A m : \A i, j \in Nat : j <= n + 1 => (Between(t, i, j, m) <=> Between(s, i, j, m))
  BY BetweenAppend
<1>3. \A m : \A i \in Nat : i <= n =>
         (Between(t, i, n + 2, m) <=> x.name = m \/ Between(s, i, n + 1, m))
  BY BetweenAppend
<1>4. \A k \in 1 .. n : s[k].name \in Names
  <2> TAKE k \in 1 .. n
  <2>1. s[k] \in Note
    BY ElementOfSeq
  <2> QED
    BY <2>1 DEF Note
<1>5. x.name \in Names
  BY DEF Note
<1> HIDE DEF t, n
<1>6. \A k \in DOMAIN t : /\ k \in Nat /\ k <= n + 1
                          /\ \/ k = n + 1 /\ t[k] = x
                             \/ k \in DOMAIN s /\ t[k] = s[k] /\ k <= n
  <2> TAKE k \in DOMAIN t
  <2>1. k = n + 1 \/ k \in 1 .. n
    BY <1>1
  <2> QED
    BY <1>1, <2>1
<1>7. FirstFits(t, known)
  <2> SUFFICES ASSUME NEW i \in DOMAIN t, ~Between(t, 0, i, t[i].name)
               PROVE  t[i].type = "add" <=> t[i].name \notin known
    BY DEF FirstFits
  <2>1. ~Between(s, 0, i, t[i].name)
    BY <1>2, <1>6
  <2>2. CASE i = n + 1 /\ t[i] = x
    BY <1>5, <2>1, <2>2 DEF KnownFits, n
  <2>3. CASE i \in DOMAIN s /\ t[i] = s[i]
    BY <2>1, <2>3 DEF FirstFits
  <2> QED
    BY <1>6, <2>2, <2>3
<1>8. NextFits(t)
  <2> SUFFICES ASSUME NEW i \in DOMAIN t, NEW j \in DOMAIN t, i < j, t[i].name = t[j].name,
                      ~Between(t, i, j, t[i].name)
               PROVE  t[j].type = "add" <=> t[i].type \in Deletes
    BY DEF NextFits
  <2>1. i \in DOMAIN s /\ t[i] = s[i] /\ ~Between(s, i, j, s[i].name)
    <3>1. i # n + 1
      BY <1>1, <1>6
    <3>2. i \in DOMAIN s /\ t[i] = s[i]
      BY <1>6, <3>1
    <3>3. ~Between(s, i, j, t[i].name)
      BY <1>2, <1>6
    <3> QED
      BY <3>2, <3>3
  <2>2. CASE j = n + 1 /\ t[j] = x
    BY <2>1, <2>2 DEF LastFits, n
  <2>3. CASE j \in DOMAIN s /\ t[j] = s[j]
    BY <2>1, <2>3 DEF NextFits
  <2> QED
    BY <1>6, <2>2, <2>3
<1>9. LastFits(t, c2)
  <2> SUFFICES ASSUME NEW i \in DOMAIN t, ~Between(t, i, n + 2, t[i].name)
               PROVE  t[i].type \in Deletes <=> c2[t[i].name] = 0
    <3>1. Len(t) + 1 = n + 2
      BY <1>1
    <3> QED
      BY <3>1 DEF LastFits
  <2>1. CASE i = n + 1 /\ t[i] = x
    BY <2>1
  <2>2. CASE i \in DOMAIN s /\ t[i] = s[i] /\ i <= n
    <3>1. x.name # s[i].name /\ ~Between(s, i, n + 1, s[i].name)
      BY <1>3, <1>6, <2>2
    <3>2. c2[s[i].name] = c[s[i].name]
      BY <1>1, <1>4, <2>2, <3>1
    <3> QED
      BY <2>2, <3>1, <3>2 DEF LastFits, n
  <2> QED
    BY <1>6, <2>1, <2>2
<1>10. KnownFits(t, known, c2)
  <2> SUFFICES ASSUME NEW m \in Names, ~Between(t, 0, n + 2, m)
               PROVE  m \in known <=> c2[m] # 0
    <3>1. Len(t) + 1 = n + 2
      BY <1>1
    <3> QED
      BY <3>1 DEF KnownFits
  <2>1. x.name # m /\ ~Between(s, 0, n + 1, m)
    BY <1>1, <1>3
  <2> QED
    BY <2>1 DEF KnownFits, n
<1> QED
  BY <1>7, <1>8, <1>9, <1>10 DEF t

\* What the handlers know after the first notification fits the next ones.
LEMMA TakenFits ==
    ASSUME NEW s \in Seq(Note), s # <<>>, NEW known, NEW c, NEW known2,
           FirstFits(s, known), NextFits(s), LastFits(s, c), KnownFits(s, known, c),
           s[1].name \in known2 <=> s[1].type \notin Deletes,
           \A m \in Names \ {s[1].name} : m \in known2 <=> m \in known
    PROVE  /\ FirstFits(Tail(s), known2) /\ NextFits(Tail(s))
           /\ LastFits(Tail(s), c) /\ KnownFits(Tail(s), known2, c)
<1> DEFINE t == Tail(s)
           n == Len(s)
           h == s[1]
<1>1. /\ n \in Nat \ {0} /\ DOMAIN s = 1 .. n /\ DOMAIN t = 1 .. (n - 1) /\ Len(t) = n - 1
      /\ \A k \in DOMAIN t : k \in Nat /\ k + 1 \in DOMAIN s /\ t[k] = s[k + 1]
      /\ 1 \in DOMAIN s
  BY Rest, LenProperties
<1>2. \A m : \A i, j \in Nat : Between(t, i, j, m) <=> Between(s, i + 1, j + 1, m)
  BY BetweenTail
<1>3. \A m : \A j \in Nat : j >= 1 =>
         (Between(s, 0, j + 1, m) <=> h.name = m \/ Between(s, 1, j + 1, m))
  <2> TAKE m
  <2> TAKE j \in Nat
  <2>1. 0 \in Nat
    OBVIOUS
  <2> QED
    BY <2>1, BetweenTail
<1>4. h.name \in Names /\ \A k \in DOMAIN t : t[k].name \in Names
  <2>1. \A k \in DOMAIN s : s[k] \in Note
    BY <1>1, ElementOfSeq
  <2> QED
    BY <1>1, <2>1 DEF Note
<1> HIDE DEF t, n, h
<1>5. FirstFits(t, known2)
  <2> SUFFICES ASSUME NEW i \in DOMAIN t, ~Between(t, 0, i, t[i].name)
               PROVE  t[i].type = "add" <=> t[i].name \notin known2
    BY DEF FirstFits
  <2>1. i \in Nat /\ i >= 1 /\ i + 1 \in DOMAIN s /\ t[i] = s[i + 1]
    BY <1>1
  <2>2. ~Between(s, 1, i + 1, t[i].name)
    <3>1. Between(t, 0, i, t[i].name) <=> Between(s, 0 + 1, i + 1, t[i].name)
      BY <1>2, <2>1
    <3> QED
      BY <3>1
  <2>3. CASE t[i].name = h.name
    <3>1. s[i + 1].type = "add" <=> h.type \in Deletes
      <4>1. 1 < i + 1
        BY <2>1
      <4> QED
        BY <1>1, <2>1, <2>2, <2>3, <4>1 DEF NextFits, h
    <3> QED
      BY <2>1, <2>3, <3>1 DEF h
  <2>4. CASE t[i].name # h.name
    <3>1. ~Between(s, 0, i + 1, t[i].name)
      BY <1>3, <2>1, <2>2, <2>4
    <3>2. s[i + 1].type = "add" <=> s[i + 1].name \notin known
      BY <2>1, <3>1 DEF FirstFits
    <3> QED
      BY <1>4, <2>1, <2>4, <3>2 DEF h
  <2> QED
    BY <2>3, <2>4
<1>6. NextFits(t)
  <2> SUFFICES ASSUME NEW i \in DOMAIN t, NEW j \in DOMAIN t, i < j, t[i].name = t[j].name,
                      ~Between(t, i, j, t[i].name)
               PROVE  t[j].type = "add" <=> t[i].type \in Deletes
    BY DEF NextFits
  <2>1. /\ i + 1 \in DOMAIN s /\ t[i] = s[i + 1] /\ j + 1 \in DOMAIN s /\ t[j] = s[j + 1]
        /\ i + 1 < j + 1 /\ ~Between(s, i + 1, j + 1, t[i].name)
    BY <1>1, <1>2
  <2> QED
    BY <2>1 DEF NextFits
<1>7. LastFits(t, c)
  <2> SUFFICES ASSUME NEW i \in DOMAIN t, ~Between(t, i, n, t[i].name)
               PROVE  t[i].type \in Deletes <=> c[t[i].name] = 0
    <3>1. Len(t) + 1 = n
      BY <1>1
    <3> QED
      BY <3>1 DEF LastFits
  <2>1. i + 1 \in DOMAIN s /\ t[i] = s[i + 1] /\ ~Between(s, i + 1, n + 1, t[i].name)
    BY <1>1, <1>2
  <2> QED
    BY <2>1 DEF LastFits, n
<1>8. KnownFits(t, known2, c)
  <2> SUFFICES ASSUME NEW m \in Names, ~Between(t, 0, n, m)
               PROVE  m \in known2 <=> c[m] # 0
    <3>1. Len(t) + 1 = n
      BY <1>1
    <3> QED
      BY <3>1 DEF KnownFits
  <2>1. ~Between(s, 1, n + 1, m)
    <3>1. Between(t, 0, n, m) <=> Between(s, 0 + 1, n + 1, m)
      BY <1>1, <1>2
    <3> QED
      BY <3>1
  <2>2. CASE m = h.name
    <3>1. h.type \in Deletes <=> c[m] = 0
      BY <1>1, <2>1, <2>2 DEF LastFits, n, h
    <3> QED
      BY <2>2, <3>1 DEF h
  <2>3. CASE m # h.name
    <3>1. ~Between(s, 0, n + 1, m)
      BY <1>1, <1>3, <2>1, <2>3
    <3>2. m \in known <=> c[m] # 0
      BY <3>1 DEF KnownFits, n
    <3> QED
      BY <2>3, <3>2 DEF h
  <2> QED
    BY <2>2, <2>3
<1> QED
  BY <1>5, <1>6, <1>7, <1>8 DEF t

\* Every step keeps notifications, store and handlers together.
LEMMA NotesStep ==
    ASSUME Basic, DeletionInv, NotesInv, [AllNext]_allVars
    PROVE  NotesInv'
<1>1. CASE UNCHANGED <<prog, notes, seen, store>>
  BY <1>1 DEF NotesInv, FirstFits, NextFits, LastFits, KnownFits, Between
<1>2. CASE (List \/ Watch) /\ prog \in Plain
  <2>1. prog' = prog /\ notes' = <<>>
    BY <1>2 DEF List, Watch, Basic, FifoInv
  <2>2. FirstFits(notes', seen') /\ NextFits(notes') /\ LastFits(notes', store')
    BY <2>1 DEF FirstFits, NextFits, LastFits
  <2> QED
    BY <1>2, <2>1, <2>2 DEF NotesInv
<1>3. CASE (List \/ Watch) /\ prog \notin Plain
  BY <1>1, <1>3 DEF List, Watch
<1>4. CASE Pop \/ Process
  <2>1. PICK n \in Names : Applied(n)
    BY <1>4, PopApplies, ProcessApplies DEF Basic
  <2> DEFINE q == Pending(n)
             x == [type |-> Announced(n, Head(q)), name |-> n]
  <2>2. /\ prog' = prog /\ seen' = seen /\ prog \notin Plain
        /\ q # <<>> /\ notes' = Append(notes, x)
        /\ store' = [store EXCEPT ![n] = Head(q).ver] /\ store \in [Names -> Versions]
        /\ notes \in Seq(Note) /\ q \in Seq(Delta) /\ TypeOK
    BY <2>1, PendingFacts DEF Applied, Basic, TypeOK
  <2>3. Head(q) = q[1] /\ 1 \in DOMAIN q /\ Head(q) \in Delta
    BY <2>2, Rest
  <2>4. q[1].type \in {"put", "deleted", "tombstone"}
    BY <2>2, <2>3, VersionTypes
  <2>5. Deletion(q, store[n])
    BY DEF DeletionInv
  <2>6. x \in Note /\ x.name = n
    BY DEF Note, Announced
  <2>7. x.type = "add" <=> store[n] = 0
    <3> HIDE DEF q
    <3> QED
      BY <2>3, <2>4, <2>5 DEF Announced, Deletion
  <2>8. x.type \in Deletes <=> q[1].type # "put"
    BY <2>3, <2>4 DEF Announced, Deletes
  <2>9. x.type \in Deletes <=> store'[n] = 0
    <3> HIDE DEF q, x
    <3>1. store'[n] = q[1].ver
      BY <2>2, <2>3
    <3>2. q[1].type = "put" <=> q[1].ver # 0
      BY <2>3, <2>5 DEF Deletion
    <3> QED
      BY <2>8, <3>1, <3>2
  <2>10. \A m \in Names \ {n} : store'[m] = store[m]
    BY <2>2
  <2>11. /\ FirstFits(notes, seen) /\ NextFits(notes) /\ LastFits(notes, store)
         /\ KnownFits(notes, seen, store)
    BY <2>2 DEF NotesInv
  <2> HIDE DEF x, q
  <2>12. /\ FirstFits(Append(notes, x), seen) /\ NextFits(Append(notes, x))
         /\ LastFits(Append(notes, x), store') /\ KnownFits(Append(notes, x), seen, store')
    BY <2>2, <2>6, <2>7, <2>9, <2>10, <2>11, SentFits
  <2> QED
    BY <2>2, <2>12 DEF NotesInv
<1>5. CASE Handle
  <2>1. /\ UNCHANGED <<prog, store>> /\ notes # <<>> /\ notes' = Tail(notes)
        /\ seen' = Told(Head(notes)) /\ notes \in Seq(Note) /\ prog \notin Plain
    BY <1>5 DEF Handle, Basic, TypeOK, FifoInv
  <2>2. Head(notes) = notes[1] /\ Head(notes) \in Note
    BY <2>1, Rest
  <2>3. notes[1].name \in seen' <=> notes[1].type \notin Deletes
    BY <2>1, <2>2 DEF Told, Deletes, Note
  <2>4. \A m \in Names \ {notes[1].name} : m \in seen' <=> m \in seen
    BY <2>1, <2>2 DEF Told
  <2>5. /\ FirstFits(notes, seen) /\ NextFits(notes) /\ LastFits(notes, store)
        /\ KnownFits(notes, seen, store)
    BY <2>1 DEF NotesInv
  <2>6. /\ FirstFits(Tail(notes), seen') /\ NextFits(Tail(notes))
        /\ LastFits(Tail(notes), store) /\ KnownFits(Tail(notes), seen', store)
    BY <2>1, <2>3, <2>4, <2>5, TakenFits
  <2> QED
    BY <2>1, <2>6 DEF NotesInv
<1>6. \A n \in Names : Written(n, TRUE) \/ Written(n, FALSE) => UNCHANGED <<prog, notes, seen, store>>
  BY DEF Written, cacheVars
<1>7. Quiet \/ Resync => UNCHANGED <<prog, notes, seen, store>>
  BY DEF Quiet, Resync, cacheVars
<1> QED
  BY <1>1, <1>2, <1>3, <1>4, <1>5, <1>6, <1>7, StepKinds DEF Basic
-----------------------------------------------------------------------------
(* Where what is new after a step comes from.                              *)

\* Objects and events come from writes.
LEMMA ServerFrom ==
    ASSUME Basic, [AllNext]_allVars
    PROVE  \/ /\ objs' = objs /\ rv' = rv /\ gone' = gone
              /\ \A k \in DOMAIN events' : \E l \in DOMAIN events : events'[k] = events[l]
           \/ \E m \in Names, ver \in Nat :
                 /\ \/ Written(m, TRUE) /\ ver = rv + 1 /\ gone' = gone
                    \/ Written(m, FALSE) /\ ver = 0 /\ gone'
                 /\ objs' = [objs EXCEPT ![m] = ver]
                 /\ ~listed => events' = events
                 /\ \A k \in DOMAIN events' :
                       (\E l \in DOMAIN events : events'[k] = events[l]) \/ events'[k] = [name |-> m, ver |-> ver]
<1>1. CASE UNCHANGED <<objs, rv, gone, events>>
  BY <1>1
<1>2. CASE List
  <2>1. objs' = objs /\ rv' = rv /\ gone' = gone /\ events' = <<>>
    BY <1>2 DEF List, serverVars
  <2>2. DOMAIN events' = {}
    BY <2>1
  <2> QED
    BY <2>1, <2>2
<1>3. CASE Watch
  <2>1. objs' = objs /\ rv' = rv /\ gone' = gone /\ events # <<>> /\ events' = Tail(events)
    BY <1>3, WatchFacts
  <2>2. \A k \in DOMAIN events' : k + 1 \in DOMAIN events /\ events'[k] = events[k + 1]
    BY <2>1, RestOfEvents DEF Basic
  <2> QED
    BY <2>1, <2>2
<1>4. ASSUME NEW m \in Names, NEW present \in BOOLEAN, Written(m, present)
      PROVE  \E ver \in Nat :
                /\ ver = IF present THEN rv + 1 ELSE 0
                /\ gone' = (gone \/ ~present)
                /\ objs' = [objs EXCEPT ![m] = ver]
                /\ ~listed => events' = events
                /\ \A k \in DOMAIN events' :
                      (\E l \in DOMAIN events : events'[k] = events[l]) \/ events'[k] = [name |-> m, ver |-> ver]
  <2> DEFINE ver == IF present THEN rv + 1 ELSE 0
             e == [name |-> m, ver |-> ver]
  <2>1. /\ gone' = (gone \/ ~present) /\ objs' = [objs EXCEPT ![m] = ver]
        /\ events' = IF listed THEN Append(events, e) ELSE events
    BY <1>4 DEF Written, Write
  <2>2. ver \in Nat
    BY VersionTypes DEF Basic
  <2> HIDE DEF e
  <2>3. ASSUME listed, NEW k \in DOMAIN events'
        PROVE  (\E l \in DOMAIN events : events'[k] = events[l]) \/ events'[k] = e
    <3>1. events \in Seq(Event \cup {e}) /\ e \in Event \cup {e}
      <4>1. events \in Seq(Event)
        BY DEF Basic, TypeOK, Event
      <4> QED
        BY <4>1
    <3>2. events' = Append(events, e)
      BY <2>1, <2>3
    <3>3. /\ Len(events) \in Nat /\ DOMAIN events = 1 .. Len(events)
          /\ DOMAIN events' = 1 .. (Len(events) + 1) /\ events'[Len(events) + 1] = e
          /\ \A l \in 1 .. Len(events) : events'[l] = events[l]
      BY <3>1, <3>2, AppendProperties, LenProperties
    <3>4. k = Len(events) + 1 \/ k \in 1 .. Len(events)
      BY <2>3, <3>3
    <3> QED
      BY <3>3, <3>4
  <2>4. \A k \in DOMAIN events' :
           (\E l \in DOMAIN events : events'[k] = events[l]) \/ events'[k] = e
    <3>1. CASE listed
      BY <2>3, <3>1
    <3>2. CASE ~listed
      BY <2>1, <3>2
    <3> QED
      BY <3>1, <3>2
  <2>5. ver = IF present THEN rv + 1 ELSE 0
    OBVIOUS
  <2>6. ~listed => events' = events
    BY <2>1
  <2>7. e = [name |-> m, ver |-> ver]
    BY DEF e
  <2> HIDE DEF ver
  <2> WITNESS ver \in Nat
  <2> QED
    BY <2>1, <2>4, <2>5, <2>6, <2>7
<1>5. ASSUME NEW m \in Names, Written(m, TRUE)
      PROVE  \E ver \in Nat :
                /\ ver = rv + 1 /\ gone' = gone
                /\ objs' = [objs EXCEPT ![m] = ver]
                /\ ~listed => events' = events
                /\ \A k \in DOMAIN events' :
                      (\E l \in DOMAIN events : events'[k] = events[l]) \/ events'[k] = [name |-> m, ver |-> ver]
  <2>1. TRUE \in BOOLEAN /\ (gone \/ ~TRUE) = gone
    BY DEF Basic, TypeOK
  <2> QED
    BY <1>4, <1>5, <2>1
<1>6. ASSUME NEW m \in Names, Written(m, FALSE)
      PROVE  \E ver \in Nat :
                /\ ver = 0 /\ gone'
                /\ objs' = [objs EXCEPT ![m] = ver]
                /\ ~listed => events' = events
                /\ \A k \in DOMAIN events' :
                      (\E l \in DOMAIN events : events'[k] = events[l]) \/ events'[k] = [name |-> m, ver |-> ver]
  <2>1. FALSE \in BOOLEAN /\ (gone \/ ~FALSE) = TRUE
    OBVIOUS
  <2> QED
    BY <1>4, <1>6, <2>1
<1>7. Quiet \/ Handle \/ Resync \/ Pop \/ Process => UNCHANGED <<objs, rv, gone, events>>
  BY DEF Quiet, Handle, Resync, Pop, Process, Apply, serverVars
<1> QED
  BY <1>1, <1>2, <1>3, <1>5, <1>6, <1>7, StepKinds DEF Basic

\* An object gets into the store from a list, from an event or from the
\* first pending delta.
LEMMA StoreFrom ==
    ASSUME Basic, [AllNext]_allVars, NEW n \in Names
    PROVE  \/ store'[n] = store[n]
           \/ prog \in Plain /\ store'[n] = objs[n] /\ objs' = objs
           \/ /\ prog \in Plain /\ 1 \in DOMAIN events /\ events[1].name = n
              /\ store'[n] = events[1].ver /\ objs' = objs
           \/ 1 \in DOMAIN Pending(n) /\ store'[n] = Pending(n)[1].ver /\ objs' = objs
<1>1. CASE store' = store
  BY <1>1
<1>2. CASE List
  BY <1>1, <1>2 DEF List, serverVars
<1>3. CASE Watch
  <2>1. CASE prog \notin Plain
    BY <1>1, <1>3, <2>1, WatchFacts
  <2>2. CASE prog \in Plain
    <3>1. /\ store' = [store EXCEPT ![Head(events).name] = Head(events).ver]
          /\ events # <<>> /\ events' = Tail(events) /\ objs' = objs
      BY <1>3, <2>2, WatchFacts
    <3>2. Head(events) = events[1] /\ 1 \in DOMAIN events
      BY <3>1, RestOfEvents DEF Basic
    <3>3. store'[n] = IF n = events[1].name THEN events[1].ver ELSE store[n]
      BY <3>1, <3>2 DEF Basic, TypeOK
    <3> QED
      BY <2>2, <3>1, <3>2, <3>3
  <2> QED
    BY <2>1, <2>2
<1>4. CASE Pop \/ Process
  <2>1. PICK m \in Names : Applied(m)
    BY <1>4, PopApplies, ProcessApplies DEF Basic
  <2>2. CASE n # m
    BY <2>1, <2>2 DEF Applied, Basic, TypeOK
  <2>3. CASE n = m
    <3>1. Pending(n) # <<>> /\ Pending(n) \in Seq(Delta) /\ store'[n] = Head(Pending(n)).ver
          /\ objs' = objs
      BY <2>1, <2>3, PendingFacts DEF Applied, Basic, TypeOK, serverVars
    <3> QED
      BY <3>1, Rest
  <2> QED
    BY <2>2, <2>3
<1>5. Quiet \/ Handle \/ Resync => store' = store
  BY DEF Quiet, Handle, Resync, cacheVars
<1>6. \A m \in Names : Written(m, TRUE) \/ Written(m, FALSE) => store' = store
  BY DEF Written, cacheVars
<1> QED
  BY <1>1, <1>2, <1>3, <1>4, <1>5, <1>6, StepKinds DEF Basic

\* Nothing is pending.
LEMMA NonePending ==
    ASSUME TypeOK, NEW n \in Names
    PROVE  Pending(n) = <<>> <=> DOMAIN Pending(n) = {}
<1> DEFINE q == Pending(n)
<1>1. q \in Seq(Delta)
  BY PendingFacts
<1>2. q # <<>> => 1 \in DOMAIN q
  BY <1>1, Rest
<1> QED
  BY <1>2

\* A delta is pending from a list, an event or a resync.
LEMMA PendingFrom ==
    ASSUME Basic, [AllNext]_allVars, NEW n \in Names, NEW i \in DOMAIN Pending(n)'
    PROVE  \/ \E j \in DOMAIN Pending(n) : Pending(n)'[i] = Pending(n)[j]
           \/ /\ List /\ prog \notin Plain /\ Pending(n)'[i] = Brought(n) /\ objs' = objs
              /\ objs[n] # 0 \/ store[n] # 0 \/ DOMAIN Pending(n) # {}
           \/ /\ 1 \in DOMAIN events /\ events[1].name = n
              /\ Pending(n)'[i] = EventDelta(events[1]) /\ objs' = objs
           \/ store[n] # 0 /\ Pending(n)'[i] = Put(store[n]) /\ objs' = objs
<1> DEFINE q == Pending(n)
           r == Pending(n)'
<1>1. q \in Seq(Delta) /\ TypeOK /\ (q = <<>> <=> DOMAIN q = {})
  BY PendingFacts, NonePending DEF Basic
<1>2. CASE r = q
  BY <1>2
<1>3. ASSUME NEW d \in Delta, r = Queued(q, d)
      PROVE  (\E j \in DOMAIN q : r[i] = q[j]) \/ r[i] = d
  <2>1. i \in DOMAIN Queued(q, d)
    BY <1>3
  <2>2. (i \in DOMAIN q /\ Queued(q, d)[i] = q[i]) \/ Queued(q, d)[i] = d
    BY <1>1, <2>1, QueuedElements
  <2> QED
    BY <1>3, <2>2
<1>4. CASE List
  <2>1. CASE prog \in Plain
    <3>1. work' = work /\ deltas' = deltas
      BY <1>4, <2>1 DEF List, fifoVars
    <3> QED
      BY <1>2, <3>1, PendingFrame
  <2>2. CASE prog \notin Plain
    <3>1. /\ r = IF n \in Known THEN Queued(q, Brought(n)) ELSE q
          /\ Brought(n) \in Delta
          /\ n \in Known <=> objs[n] # 0 \/ store[n] # 0 \/ q # <<>>
      BY <1>4, <2>2, ListPending
    <3>2. objs' = objs
      BY <1>4 DEF List, serverVars
    <3> HIDE DEF q, r
    <3> QED
      BY <1>1, <1>2, <1>3, <1>4, <2>2, <3>1, <3>2 DEF q, r
  <2> QED
    BY <2>1, <2>2
<1>5. CASE Watch
  <2>1. events # <<>> /\ events' = Tail(events) /\ objs' = objs
    BY <1>5, WatchFacts
  <2>2. Head(events) = events[1] /\ 1 \in DOMAIN events
    BY <1>1, <2>1, RestOfEvents
  <2>3. \/ r = q
        \/ /\ events[1].name = n /\ EventDelta(events[1]) \in Delta
           /\ r = Queued(q, EventDelta(events[1]))
    BY <1>5, <2>2, WatchPending
  <2> QED
    BY <1>2, <1>3, <2>1, <2>2, <2>3
<1>6. CASE Resync
  <2>1. r = q \/ (store[n] # 0 /\ Put(store[n]) \in Delta /\ r = Queued(q, Put(store[n])))
    BY <1>6, ResyncPending
  <2>2. objs' = objs
    BY <1>6, ResyncFacts
  <2> QED
    BY <1>2, <1>3, <2>1, <2>2
<1>7. CASE Pop \/ Process
  <2>1. PICK m \in Names : Applied(m)
    BY <1>7, PopApplies, ProcessApplies DEF Basic
  <2>2. CASE n # m
    BY <1>2, <2>1, <2>2 DEF Applied
  <2>3. CASE n = m
    <3>1. q # <<>> /\ r = Tail(q)
      BY <2>1, <2>3 DEF Applied
    <3>2. i + 1 \in DOMAIN q /\ r[i] = q[i + 1]
      BY <1>1, <3>1, Rest
    <3> QED
      BY <3>2
  <2> QED
    BY <2>2, <2>3
<1>8. Quiet \/ Handle => work' = work /\ deltas' = deltas
  BY DEF Quiet, Handle, cacheVars, fifoVars
<1>9. \A m \in Names : Written(m, TRUE) \/ Written(m, FALSE) => work' = work /\ deltas' = deltas
  BY DEF Written, cacheVars, fifoVars
<1> QED
  BY <1>1, <1>2, <1>4, <1>5, <1>6, <1>7, <1>8, <1>9, StepKinds, PendingFrame

\* The program stays the same, and what has happened has happened.
LEMMA Grows ==
    ASSUME Basic, [AllNext]_allVars
    PROVE  prog' = prog /\ (gone => gone') /\ relists \in Nat /\ relists' \in Nat /\ relists <= relists'
<1>1. relists \in Nat
  BY DEF Basic, TypeOK
<1>2. CASE List
  BY <1>1, <1>2 DEF List, serverVars
<1>3. CASE UNCHANGED <<prog, gone, relists>>
  BY <1>1, <1>3
<1>4. ASSUME NEW n \in Names, Written(n, TRUE) \/ Written(n, FALSE)
      PROVE  prog' = prog /\ (gone => gone') /\ relists' \in Nat /\ relists <= relists'
  <2>1. prog' = prog /\ (gone => gone') /\ relists' = relists
    BY <1>4 DEF Written, Write
  <2> QED
    BY <1>1, <2>1
<1>5. Quiet \/ Handle \/ Resync \/ Pop \/ Process \/ Watch => UNCHANGED <<prog, gone, relists>>
  BY DEF Quiet, Handle, Resync, Pop, Process, Watch, Apply, serverVars, budgetVars
<1> QED
  BY <1>1, <1>2, <1>3, <1>4, <1>5, StepKinds DEF Basic

\* Where the program is changes with a step of its own, or in a panic of a
\* handler.
LEMMA PcFrom ==
    ASSUME Basic, [AllNext]_allVars
    PROVE  \/ pc' = pc /\ key' = key
           \/ Quiet
           \/ /\ pc' = "panic" /\ prog \notin Plain
              /\ 1 \in DOMAIN notes /\ notes[1].type = "tombstone"
           \/ /\ prog = "simple"
              /\ \/ pc = "createFirst" /\ pc' = "sync" /\ Written("first", TRUE)
                 \/ pc = "createSecond" /\ pc' = "deleteFirst" /\ Written("second", TRUE)
                 \/ pc = "deleteFirst" /\ pc' = "deleteSecond"
                 \/ pc = "deleteSecond" /\ pc' = "block"
<1>1. CASE Quiet
  BY <1>1
<1>2. CASE List \/ Watch \/ Resync \/ Pop \/ Process
  BY <1>2 DEF List, Watch, Resync, Pop, Process, Apply
<1>3. CASE Handle
  <2>1. notes # <<>> /\ notes \in Seq(Note)
    BY <1>3 DEF Handle, Basic, TypeOK
  <2>2. Head(notes) = notes[1] /\ 1 \in DOMAIN notes
    BY <2>1, Rest
  <2>3. prog \notin Plain
    BY <2>1 DEF Basic, FifoInv
  <2> QED
    BY <1>3, <2>2, <2>3 DEF Handle
<1>4. ASSUME NEW n \in Names, Written(n, TRUE) \/ Written(n, FALSE)
      PROVE  \/ pc' = pc /\ key' = key
             \/ /\ prog = "simple"
                /\ \/ pc = "createFirst" /\ pc' = "sync" /\ Written("first", TRUE)
                   \/ pc = "createSecond" /\ pc' = "deleteFirst" /\ Written("second", TRUE)
                   \/ pc = "deleteFirst" /\ pc' = "deleteSecond"
                   \/ pc = "deleteSecond" /\ pc' = "block"
  <2>1. key' = key
    BY <1>4 DEF Written
  <2>2. pc \in {"createFirst", "createSecond", "deleteFirst", "deleteSecond"} => prog = "simple"
    BY DEF Basic, TypeOK, Programs, ProgramInv, PlacesOf
  <2>3. CASE Written(n, TRUE)
    <3>1. Writer(n, TRUE)
      BY <2>3 DEF Written
    <3> QED
      BY <2>1, <2>2, <2>3, <3>1 DEF Writer
  <2>4. CASE Written(n, FALSE)
    <3>1. Writer(n, FALSE)
      BY <2>4 DEF Written
    <3> QED
      BY <2>1, <2>2, <3>1 DEF Writer
  <2> QED
    BY <1>4, <2>3, <2>4
<1> QED
  BY <1>1, <1>2, <1>3, <1>4, StepKinds DEF Basic

-----------------------------------------------------------------------------
(* Tombstones, and what exists as long as nothing was deleted.             *)

\* Before the first list nothing is known.
LEMMA Unlisted ==
    ASSUME Basic, ~listed, NEW n \in Names
    PROVE  store[n] = 0 /\ DOMAIN Pending(n) = {} /\ events = <<>>
<1>1. /\ events = <<>> /\ order = <<>> /\ work = NoWork /\ store[n] = 0
      /\ TypeOK
  BY DEF Basic, FifoInv
<1>2. deltas[n] = <<>>
  BY <1>1 DEF TypeOK
<1>3. Pending(n) = <<>>
  BY <1>1, <1>2, PendingFacts
<1> QED
  BY <1>1, <1>3

\* A tombstone is queued for what was deleted before a relist.
LEMMA TombstoneStep ==
    ASSUME Basic, TombstoneInv, NothingGone, [AllNext]_allVars
    PROVE  TombstoneInv'
<1>1. (gone => gone') /\ relists \in Nat /\ relists' \in Nat /\ relists <= relists'
  BY Grows
<1>2. gone /\ relists > 0 => gone' /\ relists' > 0
  BY <1>1
<1>3. ASSUME NEW n \in Names, NEW i \in DOMAIN Pending(n)', Pending(n)'[i].type = "tombstone"
      PROVE  gone' /\ relists' > 0
  <2>1. CASE \E j \in DOMAIN Pending(n) : Pending(n)'[i] = Pending(n)[j]
    BY <1>2, <1>3, <2>1 DEF TombstoneInv
  <2>2. CASE /\ List /\ Pending(n)'[i] = Brought(n)
             /\ objs[n] # 0 \/ store[n] # 0 \/ DOMAIN Pending(n) # {}
    <3>1. objs[n] = 0
      BY <1>3, <2>2 DEF Brought, Put
    <3>2. gone
      BY <2>2, <3>1 DEF NothingGone
    <3>3. listed
      BY <2>2, <3>1, Unlisted
    <3>4. relists' = relists + 1
      BY <2>2, <3>3 DEF List
    <3> QED
      BY <1>1, <3>2, <3>4
  <2>3. CASE Pending(n)'[i] = EventDelta(events[1]) \/ Pending(n)'[i] = Put(store[n])
    BY <1>3, <2>3 DEF EventDelta, Put, Deleted
  <2> QED
    BY <1>3, <2>1, <2>2, <2>3, PendingFrom
<1>4. ASSUME NEW i \in DOMAIN notes', notes'[i].type = "tombstone"
      PROVE  gone' /\ relists' > 0
  <2>1. CASE notes' = notes
    BY <1>2, <1>4, <2>1 DEF TombstoneInv
  <2>2. CASE Handle
    <3>1. notes # <<>> /\ notes \in Seq(Note) /\ notes' = Tail(notes)
      BY <2>2 DEF Handle, Basic, TypeOK
    <3>2. i + 1 \in DOMAIN notes /\ notes'[i] = notes[i + 1]
      BY <3>1, Rest
    <3> QED
      BY <1>2, <1>4, <3>2 DEF TombstoneInv
  <2>3. CASE Pop \/ Process
    <3>1. PICK n \in Names : Applied(n)
      BY <2>3, PopApplies, ProcessApplies DEF Basic
    <3> DEFINE q == Pending(n)
               x == [type |-> Announced(n, Head(q)), name |-> n]
    <3>2. /\ q # <<>> /\ q \in Seq(Delta) /\ notes \in Seq(Note) /\ notes' = Append(notes, x)
          /\ TypeOK
      BY <3>1, PendingFacts DEF Applied, Basic, TypeOK
    <3>3. Head(q) = q[1] /\ 1 \in DOMAIN q /\ Head(q) \in Delta
      BY <3>2, Rest
    <3>4. x \in Note /\ (x.type = "tombstone" => q[1].type = "tombstone")
      <4>1. Head(q).type \in {"put", "deleted", "tombstone"}
        BY <3>2, <3>3, VersionTypes
      <4> QED
        BY <3>3, <4>1 DEF Announced, Note
    <3> HIDE DEF x
    <3>5. /\ Len(notes) \in Nat /\ DOMAIN notes = 1 .. Len(notes)
          /\ DOMAIN notes' = 1 .. (Len(notes) + 1) /\ notes'[Len(notes) + 1] = x
          /\ \A k \in 1 .. Len(notes) : notes'[k] = notes[k]
      BY <3>2, <3>4, AppendProperties, LenProperties
    <3>6. i = Len(notes) + 1 \/ i \in DOMAIN notes
      BY <1>4, <3>5
    <3>7. CASE i = Len(notes) + 1
      BY <1>2, <1>4, <3>3, <3>4, <3>5, <3>7 DEF TombstoneInv
    <3>8. CASE i \in DOMAIN notes
      BY <1>2, <1>4, <3>5, <3>8 DEF TombstoneInv
    <3> QED
      BY <3>6, <3>7, <3>8
  <2>4. Quiet \/ List \/ Watch \/ Resync => notes' = notes
    BY DEF Quiet, List, Watch, Resync, cacheVars
  <2>5. \A n \in Names : Written(n, TRUE) \/ Written(n, FALSE) => notes' = notes
    BY DEF Written, cacheVars
  <2> QED
    BY <2>1, <2>2, <2>3, <2>4, <2>5, StepKinds DEF Basic
<1> QED
  BY <1>3, <1>4 DEF TombstoneInv

\* As long as nothing is deleted, objects stay, and so does what is known of
\* them.
LEMMA StillThere ==
    ASSUME Basic, NothingGone, [AllNext]_allVars, ~gone', NEW n \in Names
    PROVE  /\ objs[n] # 0 => objs'[n] # 0
           /\ store[n] # 0 => store'[n] # 0
           /\ store'[n] # 0 => objs[n] # 0 \/ store[n] # 0
<1>1. ~gone
  BY Grows
<1>2. /\ store[n] # 0 \/ DOMAIN Pending(n) # {} => objs[n] # 0
      /\ \A i \in DOMAIN Pending(n) : Pending(n)[i].ver # 0
      /\ \A k \in DOMAIN events : events[k].ver # 0 /\ objs[events[k].name] # 0
  BY <1>1 DEF NothingGone
<1>3. objs[n] # 0 => objs'[n] # 0
  <2>1. CASE objs' = objs
    BY <2>1
  <2>2. ASSUME NEW m \in Names, NEW ver \in Nat, ver = rv + 1, objs' = [objs EXCEPT ![m] = ver]
        PROVE  objs[n] # 0 => objs'[n] # 0
    <3>1. rv \in Nat /\ objs \in [Names -> Versions]
      BY VersionTypes DEF Basic, TypeOK
    <3> QED
      BY <2>2, <3>1
  <2> QED
    BY <2>1, <2>2, ServerFrom
<1>4. store[n] # 0 => store'[n] # 0
  BY <1>2, StoreFrom
<1>5. store'[n] # 0 => objs[n] # 0 \/ store[n] # 0
  BY <1>2, StoreFrom
<1> QED
  BY <1>3, <1>4, <1>5

\* Every step keeps it so.
LEMMA NothingGoneStep ==
    ASSUME Basic, NothingGone, [AllNext]_allVars
    PROVE  NothingGone'
<1> SUFFICES ASSUME ~gone'
             PROVE  /\ \A n \in Names :
                          /\ store'[n] # 0 \/ DOMAIN Pending(n)' # {} => objs'[n] # 0
                          /\ \A i \in DOMAIN Pending(n)' : Pending(n)'[i].ver # 0
                    /\ \A k \in DOMAIN events' : events'[k].ver # 0 /\ objs'[events'[k].name] # 0
                    /\ pc' = "getKey" => Present(store)' # {}
                    /\ pc' = "get" => store'[key'] # 0
  BY DEF NothingGone
<1>1. ~gone
  BY Grows
<1>2. /\ \A n \in Names :
            /\ store[n] # 0 \/ DOMAIN Pending(n) # {} => objs[n] # 0
            /\ \A i \in DOMAIN Pending(n) : Pending(n)[i].ver # 0
      /\ \A k \in DOMAIN events : events[k].ver # 0 /\ objs[events[k].name] # 0
      /\ pc = "getKey" => Present(store) # {}
      /\ pc = "get" => store[key] # 0
  BY <1>1 DEF NothingGone
<1>3. \A n \in Names : /\ objs[n] # 0 => objs'[n] # 0
                       /\ store[n] # 0 => store'[n] # 0
                       /\ store'[n] # 0 => objs[n] # 0 \/ store[n] # 0
  BY StillThere
<1>4. ASSUME NEW n \in Names, NEW i \in DOMAIN Pending(n)'
      PROVE  objs[n] # 0 /\ Pending(n)'[i].ver # 0
  <2>1. CASE \E j \in DOMAIN Pending(n) : Pending(n)'[i] = Pending(n)[j]
    BY <1>2, <2>1
  <2>2. CASE /\ Pending(n)'[i] = Brought(n)
             /\ objs[n] # 0 \/ store[n] # 0 \/ DOMAIN Pending(n) # {}
    <3>1. objs[n] # 0
      BY <1>2, <2>2
    <3> QED
      BY <2>2, <3>1 DEF Brought, Put
  <2>3. CASE /\ 1 \in DOMAIN events /\ events[1].name = n
             /\ Pending(n)'[i] = EventDelta(events[1])
    BY <1>2, <2>3 DEF EventDelta, Put
  <2>4. CASE store[n] # 0 /\ Pending(n)'[i] = Put(store[n])
    BY <1>2, <2>4 DEF Put
  <2> QED
    BY <1>4, <2>1, <2>2, <2>3, <2>4, PendingFrom
<1>5. \A n \in Names : store'[n] # 0 \/ DOMAIN Pending(n)' # {} => objs'[n] # 0
  BY <1>2, <1>3, <1>4
<1>6. ASSUME NEW k \in DOMAIN events'
      PROVE  events'[k].ver # 0 /\ objs'[events'[k].name] # 0
  <2>1. \A l \in DOMAIN events : events[l].name \in Names
    BY VersionTypes DEF Basic
  <2>2. CASE \E l \in DOMAIN events : events'[k] = events[l]
    BY <1>2, <1>3, <2>1, <2>2
  <2>3. ASSUME NEW m \in Names, NEW ver \in Nat, ver = rv + 1, objs' = [objs EXCEPT ![m] = ver],
               events'[k] = [name |-> m, ver |-> ver]
        PROVE  events'[k].ver # 0 /\ objs'[events'[k].name] # 0
    <3>1. rv \in Nat /\ objs \in [Names -> Versions]
      BY VersionTypes DEF Basic, TypeOK
    <3>2. ver # 0 /\ objs'[m] = ver
      BY <2>3, <3>1
    <3> QED
      BY <2>3, <3>2
  <2> QED
    BY <1>6, <2>2, <2>3, ServerFrom
<1>7. pc' = "getKey" => Present(store)' # {}
  <2> SUFFICES ASSUME pc' = "getKey" PROVE Present(store)' # {}
    OBVIOUS
  <2>1. Present(store) # {}
    <3>1. CASE Quiet /\ pc' # pc
      BY <3>1 DEF Quiet, WaitForCacheSync, ListByLabel, CallFails, Exit, Poll, GetKey, GetByKey,
                  AdvancedMoves, Goto
    <3> QED
      BY <1>2, <3>1, PcFrom
  <2> QED
    BY <1>3, <2>1 DEF Present
<1>8. pc' = "get" => store'[key'] # 0
  <2> SUFFICES ASSUME pc' = "get" PROVE store'[key'] # 0
    OBVIOUS
  <2>1. CASE pc = "get" /\ key' = key
    <3>1. key \in Names
      BY <2>1 DEF Basic, ProgramInv
    <3> QED
      BY <1>2, <1>3, <2>1, <3>1
  <2>2. CASE Quiet /\ ~(pc' = pc /\ key' = key)
    <3>1. GetKey
      <4>1. pc' = "get"
        OBVIOUS
      <4> QED
        BY <2>2, <4>1 DEF Quiet, WaitForCacheSync, ListByLabel, CallFails, Exit, Poll, GetByKey,
                  AdvancedMoves, Goto
    <3>2. key' \in Present(store)
      BY <3>1 DEF GetKey, Goto, Basic, ProgramInv, PlacesOf, TypeOK, Programs
    <3> QED
      BY <1>3, <3>2 DEF Present
  <2> QED
    BY <2>1, <2>2, PcFrom
<1> QED
  BY <1>4, <1>5, <1>6, <1>7, <1>8

\* A panic is explained when it happens, and stays so.
LEMMA PanicStep ==
    ASSUME Basic, TombstoneInv, NothingGone, SecondUnknown, FirstThere, PanicsExplained,
           [AllNext]_allVars
    PROVE  PanicsExplained'
<1> SUFFICES ASSUME pc' = "panic"
             PROVE  /\ gone' /\ prog' # "advanced"
                    /\ prog' \in {"simple", "watch"} => relists' > 0
  BY DEF PanicsExplained
<1>1. prog' = prog /\ (gone => gone') /\ relists \in Nat /\ relists' \in Nat /\ relists <= relists'
  BY Grows
<1>2. relists > 0 => relists' > 0
  BY <1>1
<1> SUFFICES gone /\ prog # "advanced" /\ (prog \in {"simple", "watch"} => relists > 0)
  BY <1>1, <1>2
<1>3. CASE pc = "panic"
  BY <1>3 DEF PanicsExplained
<1>4. CASE prog \notin Plain /\ 1 \in DOMAIN notes /\ notes[1].type = "tombstone"
  BY <1>4 DEF TombstoneInv, Plain
<1>5. CASE Quiet /\ pc # "panic"
  <2>1. ListByLabel \/ GetKey \/ GetByKey
    <3>1. pc' = "panic"
      OBVIOUS
    <3> QED
      BY <1>5, <3>1 DEF Quiet, WaitForCacheSync, CallFails, Exit, Poll, AdvancedMoves, Goto
  <2>2. CASE ListByLabel
    <3>1. pc = "list" /\ Cardinality(Present(store) \cap {"first", "second"}) # 1
      BY <2>2 DEF ListByLabel, Goto
    <3>2. prog = "simple"
      BY <3>1 DEF Basic, ProgramInv, PlacesOf, TypeOK, Programs
    <3>3. store["first"] # 0 /\ store["second"] = 0
      BY <3>1, <3>2 DEF SecondUnknown, FirstThere
    <3>4. Present(store) \cap {"first", "second"} = {"first"}
      BY <3>3, OwnNames DEF Present
    <3> QED
      BY <3>1, <3>4, FS_Singleton
  <2>3. CASE GetKey
    <3>1. pc = "getKey" /\ Present(store) = {}
      BY <2>3 DEF GetKey, Goto
    <3>2. prog \in {"controller", "reflector"}
      BY <3>1 DEF Basic, ProgramInv, PlacesOf, TypeOK, Programs
    <3> QED
      BY <3>1, <3>2 DEF NothingGone
  <2>4. CASE GetByKey
    <3>1. pc = "get" /\ store[key] = 0
      BY <2>4 DEF GetByKey, Goto
    <3>2. prog = "controller"
      BY <3>1 DEF Basic, ProgramInv, PlacesOf, TypeOK, Programs
    <3> QED
      BY <3>1, <3>2 DEF NothingGone
  <2> QED
    BY <2>1, <2>2, <2>3, <2>4
<1> QED
  BY <1>3, <1>4, <1>5, PcFrom

-----------------------------------------------------------------------------
(* The objects of the simple programs.                                     *)

\* Nobody else writes them.
LEMMA OwnWrites ==
    ASSUME Basic, NEW m \in Names, Written(m, TRUE) \/ Written(m, FALSE), prog = "simple"
    PROVE  /\ m = "second" => \/ pc = "createSecond" /\ pc' = "deleteFirst"
                              \/ pc = "deleteSecond" /\ pc' = "block"
           /\ m = "first" => \/ pc = "createFirst" /\ pc' = "sync" /\ Written(m, TRUE)
                             \/ pc = "deleteFirst" /\ pc' = "deleteSecond"
<1>1. Writer(m, TRUE) \/ Writer(m, FALSE)
  BY DEF Written
<1>2. "first" \notin Foreign[prog] /\ "second" \notin Foreign[prog] /\ "first" # "second"
  BY OwnNames DEF Basic, TypeOK
<1>3. m = "first" => \/ pc = "createFirst" /\ pc' = "sync"
                     \/ pc = "deleteFirst" /\ pc' = "deleteSecond"
  BY <1>1, <1>2 DEF Writer
<1>4. m = "first" /\ pc = "createFirst" => Written(m, TRUE)
  <2>1. m = "first" /\ pc = "createFirst" => ~Writer(m, FALSE)
    BY <1>2 DEF Writer
  <2> QED
    BY <2>1 DEF Written
<1> QED
  BY <1>1, <1>2, <1>3, <1>4 DEF Writer

\* The places of the simple programs before the second object is created, and
\* those between creation and deletion of the first.
BeforeSecond == {"createFirst", "sync", "list", "createSecond"}
WithFirst == {"sync", "list", "createSecond", "deleteFirst"}

\* How a simple program gets there.
LEMMA SimpleMoves ==
    ASSUME Basic, [AllNext]_allVars, prog = "simple"
    PROVE  /\ pc' \in BeforeSecond => pc \in BeforeSecond
           /\ pc' \in WithFirst => \/ pc \in WithFirst
                                   \/ pc = "createFirst" /\ pc' = "sync" /\ Written("first", TRUE)
           /\ pc' \in WithFirst \ {"sync"} /\ pc \in WithFirst => pc # "sync" \/ HasSynced
<1>1. CASE pc' = pc
  BY <1>1 DEF BeforeSecond, WithFirst
<1>2. CASE Quiet
  BY <1>1, <1>2 DEF Quiet, WaitForCacheSync, ListByLabel, CallFails, Exit, Poll, GetKey, GetByKey,
                    AdvancedMoves, Advanced, Goto, BeforeSecond, WithFirst
<1>3. CASE pc' = "panic"
  BY <1>3 DEF BeforeSecond, WithFirst
<1>4. CASE \/ pc = "createFirst" /\ pc' = "sync" /\ Written("first", TRUE)
           \/ pc = "createSecond" /\ pc' = "deleteFirst"
           \/ pc = "deleteFirst" /\ pc' = "deleteSecond"
           \/ pc = "deleteSecond" /\ pc' = "block"
  BY <1>4 DEF BeforeSecond, WithFirst
<1> QED
  BY <1>1, <1>2, <1>3, <1>4, PcFrom

\* The second object is unknown until it is created.
LEMMA SecondStep ==
    ASSUME Basic, SecondUnknown, [AllNext]_allVars
    PROVE  SecondUnknown'
<1> SUFFICES ASSUME prog = "simple", pc' \in BeforeSecond
             PROVE  /\ objs'["second"] = 0 /\ store'["second"] = 0
                    /\ DOMAIN Pending("second")' = {}
                    /\ \A k \in DOMAIN events' : events'[k].name # "second"
  <2>1. prog' = prog
    BY Grows
  <2> QED
    BY <2>1 DEF SecondUnknown, BeforeSecond
<1>1. pc \in BeforeSecond /\ prog \notin Plain /\ "second" \in Names
  BY SimpleMoves, OwnNames DEF Plain
<1>2. /\ objs["second"] = 0 /\ store["second"] = 0 /\ DOMAIN Pending("second") = {}
      /\ \A k \in DOMAIN events : events[k].name # "second"
  BY <1>1 DEF SecondUnknown, BeforeSecond
<1>3. ASSUME NEW m \in Names, Written(m, TRUE) \/ Written(m, FALSE)
      PROVE  m # "second"
  BY <1>1, <1>3, OwnWrites DEF BeforeSecond
<1>4. objs'["second"] = 0 /\ \A k \in DOMAIN events' : events'[k].name # "second"
  <2>1. CASE /\ objs' = objs
             /\ \A k \in DOMAIN events' : \E l \in DOMAIN events : events'[k] = events[l]
    BY <1>2, <2>1
  <2>2. ASSUME NEW m \in Names, NEW ver \in Nat, Written(m, TRUE) \/ Written(m, FALSE),
               objs' = [objs EXCEPT ![m] = ver],
               \A k \in DOMAIN events' :
                  (\E l \in DOMAIN events : events'[k] = events[l]) \/ events'[k] = [name |-> m, ver |-> ver]
        PROVE  objs'["second"] = 0 /\ \A k \in DOMAIN events' : events'[k].name # "second"
    <3>1. m # "second"
      BY <1>3, <2>2
    <3> QED
      BY <1>1, <1>2, <2>2, <3>1 DEF Basic, TypeOK
  <2> QED
    BY <2>1, <2>2, ServerFrom
<1>5. store'["second"] = 0
  BY <1>1, <1>2, StoreFrom
<1>6. DOMAIN Pending("second")' = {}
  BY <1>1, <1>2, PendingFrom
<1> QED
  BY <1>4, <1>5, <1>6

\* Every step keeps the first object on its way.
LEMMA FirstQueuedStep ==
    ASSUME Basic, [AllNext]_allVars, listed', prog = "simple", objs["first"] # 0,
           listed => FirstQueued,
           \A i \in DOMAIN Pending("first") : Pending("first")[i].ver # 0
    PROVE  FirstQueued'
<1>1. "first" \in Names /\ prog \notin Plain /\ NoWork.name # "first"
  BY OwnNames DEF Plain, NoWork, NoKey
<1>2. store["first"] # 0 => store'["first"] # 0
  BY <1>1, StoreFrom
<1>3. toSync \in 0 .. Len(order) /\ order \in Seq(Names) /\ Len(order) \in Nat
  BY LenProperties DEF Basic, TypeOK
<1>4. CASE listed /\ work' = work /\ toSync' = toSync /\ (\A i \in 1 .. Len(order) : order'[i] = order[i])
  BY <1>2, <1>3, <1>4 DEF FirstQueued
<1>5. CASE List
  <2>1. Enqueue(Replacement) /\ (listed => toSync' = toSync) /\ work' = work
        /\ (~listed => toSync' = Cardinality(DOMAIN Replacement))
    BY <1>1, <1>5 DEF List, Population
  <2>2. Known \subseteq Names /\ Replacement \in [Known -> Delta] /\ DOMAIN Replacement = Known
    BY ReplacementFacts DEF Basic
  <2>3. /\ \A i \in 1 .. Len(order) : order'[i] = order[i]
        /\ order = <<>> => Len(order') = Cardinality(Known)
        /\ \A n \in Names : deltas'[n] # <<>> <=> \E i \in DOMAIN order' : order'[i] = n
        /\ \A n \in Names : deltas'[n] = IF n \in Known THEN Queued(deltas[n], Replacement[n]) ELSE deltas[n]
        /\ order' \in Seq(Names)
    BY <2>1, <2>2, EnqueueFacts DEF Basic
  <2>4. CASE ~listed
    <3>1. toSync' = Len(order')
      BY <2>1, <2>2, <2>3, <2>4 DEF Basic, FifoInv
    <3>2. "first" \in Known
      BY <1>1 DEF Known, Present
    <3>3. deltas["first"] \in Seq(Delta) /\ Replacement["first"] \in Delta
      BY <1>1, <2>2, <3>2 DEF Basic, TypeOK
    <3>4. deltas'["first"] # <<>>
      <4>1. Queued(deltas["first"], Replacement["first"]) # <<>>
        BY <3>3, QueuedFacts
      <4>2. deltas'["first"] = Queued(deltas["first"], Replacement["first"])
        BY <1>1, <2>3, <3>2
      <4> QED
        BY <4>1, <4>2
    <3>5. \E i \in 1 .. toSync' : order'[i] = "first"
      BY <1>1, <2>3, <3>1, <3>4, LenProperties
    <3> QED
      BY <3>5 DEF FirstQueued
  <2> QED
    BY <1>4, <2>1, <2>3, <2>4
<1>6. CASE Watch
  <2>1. /\ work' = work /\ toSync' = toSync /\ listed' = listed
        /\ \/ order' = order
           \/ /\ Enqueue([n \in {Head(events).name} |-> EventDelta(Head(events))])
              /\ [n \in {Head(events).name} |-> EventDelta(Head(events))]
                    \in [{Head(events).name} -> Delta]
              /\ {Head(events).name} \subseteq Names
    BY <1>1, <1>6, WatchFacts DEF Event
  <2>2. \A i \in 1 .. Len(order) : order'[i] = order[i]
    BY <2>1, EnqueueFacts DEF Basic
  <2> QED
    BY <1>4, <2>1, <2>2
<1>7. CASE Resync
  <2>1. /\ work' = work /\ toSync' = toSync /\ listed' = listed /\ Resynced \subseteq Names
        /\ [n \in Resynced |-> Put(store[n])] \in [Resynced -> Delta]
        /\ Enqueue([n \in Resynced |-> Put(store[n])])
    BY <1>7, ResyncFacts
  <2>2. \A i \in 1 .. Len(order) : order'[i] = order[i]
    BY <2>1, EnqueueFacts DEF Basic
  <2> QED
    BY <1>4, <2>1, <2>2
<1>8. ASSUME NEW n \in Names, Applied(n), n = "first"
      PROVE  store'["first"] # 0
  <2>1. Pending(n) # <<>> /\ Pending(n) \in Seq(Delta) /\ store'[n] = Head(Pending(n)).ver
    BY <1>8, PendingFacts DEF Applied, Basic, TypeOK
  <2>2. Head(Pending(n)) = Pending(n)[1] /\ 1 \in DOMAIN Pending(n)
    BY <2>1, Rest
  <2> QED
    BY <1>8, <2>1, <2>2
<1>9. CASE Pop
  <2>1. PICK n \in Names : n = Head(order) /\ Applied(n)
    BY <1>9, PopApplies DEF Basic
  <2>2. /\ order # <<>> /\ order' = Tail(order) /\ work = NoWork
        /\ toSync' = IF toSync = 0 THEN 0 ELSE toSync - 1
    BY <1>9 DEF Pop
  <2>3. /\ n = order[1]
        /\ \A i \in DOMAIN order' : i \in Nat /\ i + 1 \in DOMAIN order /\ order'[i] = order[i + 1]
        /\ DOMAIN order' = 1 .. (Len(order) - 1) /\ Len(order) # 0
    BY <1>3, <2>1, <2>2, Rest, LenProperties
  <2>4. CASE n = "first"
    BY <1>8, <2>1, <2>4 DEF FirstQueued
  <2>5. CASE n # "first"
    <3>1. listed
      BY <2>2 DEF Basic, FifoInv
    <3>2. CASE store["first"] # 0
      BY <1>2, <3>2 DEF FirstQueued
    <3>3. CASE \E i \in 1 .. toSync : order[i] = "first"
      <4>1. PICK i \in 1 .. toSync : order[i] = "first"
        BY <3>3
      <4>2. i # 1
        BY <2>3, <2>5, <4>1
      <4>3. /\ i - 1 \in 1 .. toSync' /\ i - 1 \in DOMAIN order' /\ (i - 1) + 1 = i
        BY <1>3, <2>2, <2>3, <4>2
      <4>4. order'[i - 1] = "first"
        BY <2>3, <4>1, <4>3
      <4> QED
        BY <4>3, <4>4 DEF FirstQueued
    <3> QED
      BY <1>1, <2>2, <3>1, <3>2, <3>3 DEF FirstQueued
  <2> QED
    BY <2>4, <2>5
<1>10. CASE Process
  <2>1. PICK n \in Names : n = work.name /\ Applied(n)
    BY <1>10, ProcessApplies DEF Basic
  <2>2. order' = order /\ toSync' = toSync /\ listed' = listed
    BY <1>10 DEF Process, Apply, fifoVars
  <2>3. CASE n = "first"
    BY <1>8, <2>1, <2>3 DEF FirstQueued
  <2>4. CASE n # "first"
    BY <1>2, <2>1, <2>2, <2>4 DEF FirstQueued
  <2> QED
    BY <2>3, <2>4
<1>11. CASE UNCHANGED <<listed, work, toSync, order>>
  BY <1>4, <1>11
<1>12. Quiet \/ Handle => UNCHANGED <<listed, work, toSync, order>>
  BY DEF Quiet, Handle, fifoVars, cacheVars
<1>13. \A m \in Names : Written(m, TRUE) \/ Written(m, FALSE) => UNCHANGED <<listed, work, toSync, order>>
  BY DEF Written, fifoVars, cacheVars
<1> QED
  BY <1>5, <1>6, <1>7, <1>9, <1>10, <1>11, <1>12, <1>13, StepKinds DEF Basic

\* The first object is there from its creation to its deletion, and in the
\* store once the informer has synced.
LEMMA FirstStep ==
    ASSUME Basic, FirstThere, [AllNext]_allVars
    PROVE  FirstThere'
<1> SUFFICES ASSUME prog = "simple", pc' \in WithFirst
             PROVE  /\ objs'["first"] # 0
                    /\ \A i \in DOMAIN Pending("first")' : Pending("first")'[i].ver # 0
                    /\ \A k \in DOMAIN events' : events'[k].name = "first" => events'[k].ver # 0
                    /\ listed' => FirstQueued'
                    /\ pc' # "sync" => store'["first"] # 0
  <2>1. prog' = prog
    BY Grows
  <2> QED
    BY <2>1 DEF FirstThere, WithFirst
<1>1. "first" \in Names /\ prog \notin Plain
  BY OwnNames DEF Plain
<1>2. CASE pc = "createFirst" /\ pc' = "sync" /\ Written("first", TRUE)
  <2>1. ~listed /\ listed' = listed /\ rv \in Nat
    BY <1>2, VersionTypes DEF Basic, ProgramInv, Written
  <2>2. work' = work /\ deltas' = deltas /\ events' = events /\ objs' = [objs EXCEPT !["first"] = rv + 1]
    BY <1>2, <2>1 DEF Written, Write, cacheVars, fifoVars
  <2>3. DOMAIN Pending("first") = {} /\ events = <<>>
    BY <1>1, <2>1, Unlisted
  <2>4. DOMAIN Pending("first")' = {}
    BY <1>1, <2>2, <2>3, PendingFrame
  <2>5. objs'["first"] # 0
    BY <1>1, <2>1, <2>2 DEF Basic, TypeOK
  <2>6. DOMAIN events' = {}
    BY <2>2, <2>3
  <2> QED
    BY <1>2, <2>1, <2>4, <2>5, <2>6
<1>3. CASE pc \in WithFirst
  <2>1. /\ objs["first"] # 0
        /\ \A i \in DOMAIN Pending("first") : Pending("first")[i].ver # 0
        /\ \A k \in DOMAIN events : events[k].name = "first" => events[k].ver # 0
        /\ listed => FirstQueued
        /\ pc # "sync" => store["first"] # 0
    BY <1>3 DEF FirstThere, WithFirst
  <2>2. ASSUME NEW m \in Names, Written(m, TRUE) \/ Written(m, FALSE)
        PROVE  m # "first"
    BY <1>3, <2>2, OwnWrites DEF WithFirst
  <2>3. objs'["first"] # 0 /\ \A k \in DOMAIN events' : events'[k].name = "first" => events'[k].ver # 0
    <3>1. CASE /\ objs' = objs
               /\ \A k \in DOMAIN events' : \E l \in DOMAIN events : events'[k] = events[l]
      BY <2>1, <3>1
    <3>2. ASSUME NEW m \in Names, NEW ver \in Nat, Written(m, TRUE) \/ Written(m, FALSE),
                 objs' = [objs EXCEPT ![m] = ver],
                 \A k \in DOMAIN events' :
                    (\E l \in DOMAIN events : events'[k] = events[l]) \/ events'[k] = [name |-> m, ver |-> ver]
          PROVE  /\ objs'["first"] # 0
                 /\ \A k \in DOMAIN events' : events'[k].name = "first" => events'[k].ver # 0
      <4>1. m # "first"
        BY <2>2, <3>2
      <4> QED
        BY <1>1, <2>1, <3>2, <4>1 DEF Basic, TypeOK
    <3> QED
      BY <3>1, <3>2, ServerFrom
  <2>4. ASSUME NEW i \in DOMAIN Pending("first")'
        PROVE  Pending("first")'[i].ver # 0
    <3>1. \/ \E j \in DOMAIN Pending("first") : Pending("first")'[i] = Pending("first")[j]
          \/ Pending("first")'[i] = Brought("first")
          \/ /\ 1 \in DOMAIN events /\ events[1].name = "first"
             /\ Pending("first")'[i] = EventDelta(events[1])
          \/ store["first"] # 0 /\ Pending("first")'[i] = Put(store["first"])
      BY <1>1, <2>4, PendingFrom
    <3> QED
      BY <2>1, <3>1 DEF Brought, EventDelta, Put
  <2>5. listed' => FirstQueued'
    BY <2>1, FirstQueuedStep
  <2>6. store["first"] # 0 => store'["first"] # 0
    BY <1>1, <2>1, StoreFrom
  <2>7. pc' # "sync" => store["first"] # 0
    <3>1. CASE pc # "sync"
      BY <2>1, <3>1
    <3>2. CASE HasSynced
      <4>1. listed /\ toSync = 0 /\ work.name = NoKey
        BY <3>2 DEF HasSynced, NoWork
      <4>2. ~(\E i \in 1 .. toSync : order[i] = "first")
        BY <4>1
      <4> QED
        BY <2>1, <4>1, <4>2 DEF FirstQueued, NoKey
    <3> QED
      BY <1>3, <3>1, <3>2, SimpleMoves
  <2> QED
    BY <2>3, <2>4, <2>5, <2>6, <2>7
<1> QED
  BY <1>2, <1>3, SimpleMoves

-----------------------------------------------------------------------------
(* The invariant, and what follows from it.                                *)

\* It holds at the start.
LEMMA InitIInv == Init => IInv
<1> SUFFICES ASSUME Init PROVE IInv
  OBVIOUS
<1>1. Basic
  BY InitBasic
<1>2. \A n \in Names : store[n] = 0 /\ objs[n] \in {0, 1} /\ deltas[n] = <<>>
  BY DEF Init
<1>3. /\ work = NoWork /\ events = <<>> /\ notes = <<>> /\ seen = {} /\ rv = 1 /\ ~gone /\ ~listed
      /\ pc \in {"createFirst", "sync", "poll"} /\ (prog = "simple" => pc = "createFirst")
  BY DEF Init
<1>4. \A n \in Names : Pending(n) = <<>>
  BY <1>1, <1>2, <1>3, PendingFacts DEF Basic
<1>5. \A n \in Names : DOMAIN Pending(n) = {}
  BY <1>4
<1>6. DOMAIN events = {} /\ DOMAIN notes = {}
  BY <1>3
<1>7. RisingInv
  BY <1>2, <1>3, <1>5, <1>6
     DEF RisingInv, Rising, RisingStore, RisingPending, RisingEvents, Upto
<1>8. DeletionInv
  BY <1>5 DEF DeletionInv, Deletion
<1>9. NotesInv
  BY <1>2, <1>3, <1>6 DEF NotesInv, FirstFits, NextFits, LastFits, KnownFits
<1>10. TombstoneInv
  BY <1>5, <1>6 DEF TombstoneInv
<1>11. NothingGone
  BY <1>2, <1>3, <1>5, <1>6 DEF NothingGone
<1>12. PanicsExplained
  BY <1>3 DEF PanicsExplained
<1>13. SecondUnknown
  <2>1. "second" \in Names /\ (prog = "simple" => "second" \notin Foreign[prog])
    BY OwnNames DEF Init
  <2>2. prog = "simple" => objs["second"] = 0
    BY <2>1 DEF Init
  <2> QED
    BY <1>2, <1>5, <1>6, <2>1, <2>2 DEF SecondUnknown
<1>14. FirstThere
  BY <1>3 DEF FirstThere
<1> QED
  BY <1>1, <1>7, <1>8, <1>9, <1>10, <1>11, <1>12, <1>13, <1>14 DEF IInv, Basic

\* Every step keeps it.
LEMMA NextIInv == IInv /\ [AllNext]_allVars => IInv'
<1> SUFFICES ASSUME IInv, [AllNext]_allVars PROVE IInv'
  OBVIOUS
<1>1. /\ Basic /\ RisingInv /\ DeletionInv /\ NotesInv /\ TombstoneInv /\ NothingGone
      /\ PanicsExplained /\ SecondUnknown /\ FirstThere
  BY DEF IInv, Basic
<1>2. Basic'
  BY <1>1, BasicStep
<1>3. RisingInv' /\ DeletionInv' /\ NotesInv'
  BY <1>1, RisingStep, DeletionStep, NotesStep
<1>4. TombstoneInv' /\ NothingGone' /\ PanicsExplained'
  BY <1>1, TombstoneStep, NothingGoneStep, PanicStep
<1>5. SecondUnknown' /\ FirstThere'
  BY <1>1, SecondStep, FirstStep
<1> QED
  BY <1>2, <1>3, <1>4, <1>5 DEF IInv, Basic

\* It holds in every state of the composed specification.
LEMMA Invariance == AllSpec => []IInv
<1>1. AllInit => IInv
  BY InitIInv DEF AllInit
<1> QED
  BY <1>1, NextIInv, PTL DEF AllSpec

\* The goroutine that keeps the statistics has a Pod in hand when it updates
\* them, and room to count it.
LEMMA GoInvariance == AllSpec => []GoInv
<1>1. AllInit => GoInv
  <2> SUFFICES ASSUME GoInit PROVE GoInv
    BY DEF AllInit
  <2>1. sig = FALSE /\ printing = FALSE /\ polling = "done" /\ pods0 = NoKey /\ lastSeen = {}
    BY DEF GoInit
  <2>2. podCount \in 0 .. MaxPolls
    BY PollsAssumption DEF GoInit
  <2> QED
    BY <2>1, <2>2 DEF GoInv, GoTypeOK
<1>2. GoInv /\ [AllNext]_allVars => GoInv'
  <2> SUFFICES ASSUME GoInv, [AllNext]_allVars PROVE GoInv'
    OBVIOUS
  <2> USE DEF GoInv, GoTypeOK
  <2>1. CASE UNCHANGED goVars
    BY <2>1 DEF goVars, statsVars
  <2>2. CASE Signal \/ StopOnSignal \/ MainReceives \/ PrinterEnds
    BY <2>2 DEF Signal, StopOnSignal, MainReceives, PrinterEnds, statsVars
  <2>3. CASE StartStats
    BY <2>3 DEF StartStats, statsVars
  <2>4. CASE PollOnce
    <3>1. Present(store) \subseteq Names
      BY DEF Present
    <3> QED
      BY <2>4, <3>1 DEF PollOnce, statsVars
  <2>5. CASE UpdateLastSeen
    <3>1. podCount \in Nat /\ podCount < MaxPolls /\ podCount' = podCount + 1 /\ pods0 \in Names
      BY <2>5, PollsAssumption DEF UpdateLastSeen
    <3>2. podCount' \in 0 .. MaxPolls
      BY <3>1, PollsAssumption
    <3> QED
      BY <2>5, <3>1, <3>2 DEF UpdateLastSeen
  <2> QED
    BY <2>1, <2>2, <2>3, <2>4, <2>5 DEF AllNext, allVars, Goroutines
<1> QED
  BY <1>1, <1>2, PTL DEF AllSpec

\* Type correctness of the informer examples and of the advanced reflector
\* example; in particular the resource versions, the DeltaFIFO's count of the
\* first list and the counters stay within their bounds.
THEOREM TypeCorrect == AllSpec => [](TypeOK /\ GoTypeOK)
<1>1. IInv => TypeOK
  BY DEF IInv
<1>2. GoInv => GoTypeOK
  BY DEF GoInv
<1> QED
  BY <1>1, <1>2, Invariance, GoInvariance, PTL

\* Lister().List after WaitForCacheSync returns the object that the simple
\* programs created before they started the informer, and only that one:
\* HasSynced counts every key of the first list down to zero.
THEOREM ListerFindsExpected == AllSpec => []ExpectedFound
<1>1. IInv => ExpectedFound
  <2> SUFFICES ASSUME IInv, pc = "list"
               PROVE  Present(store) \cap {"first", "second"} = {"first"}
    BY DEF ExpectedFound
  <2>1. prog = "simple"
    BY DEF IInv, ProgramInv, PlacesOf, TypeOK, Programs
  <2>2. store["first"] # 0 /\ store["second"] = 0
    BY <2>1 DEF IInv, SecondUnknown, FirstThere
  <2> QED
    BY <2>2, OwnNames DEF Present
<1> QED
  BY <1>1, Invariance, PTL

\* A program panics only after a deletion, and an informer program only when a
\* relist made a tombstone of it.
THEOREM PanicsHaveReasons == AllSpec => []PanicsExplained
<1>1. IInv => PanicsExplained
  BY DEF IInv
<1> QED
  BY <1>1, Invariance, PTL

\* Neither a relist, a resync nor a late event takes an object in the cache
\* back to an older version.
THEOREM CacheNeverGoesBack == AllSpec => NeverBack
<1>1. IInv /\ [AllNext]_allVars =>
         [\A n \in Names : store[n] # 0 /\ store'[n] # 0 => store'[n] >= store[n]]_vars
  <2> SUFFICES ASSUME IInv, [AllNext]_allVars, NEW n \in Names, store'[n] # 0
               PROVE  store'[n] >= store[n]
    OBVIOUS
  <2>1. Basic /\ RisingInv
    BY DEF IInv, Basic
  <2>2. Basic'
    BY <2>1, BasicStep
  <2>3. store[n] <= store'[n]
    BY <2>1, NoStepBack DEF Upto
  <2>4. store[n] \in Int /\ store'[n] \in Int
    <3>1. prog' = prog
      BY <2>1, Grows
    <3>2. Versions \subseteq Nat /\ Versions' = Versions
      BY <2>1, <3>1, VersionTypes, SameTypes DEF Basic
    <3>3. store[n] \in Versions
      BY <2>1 DEF Basic, TypeOK
    <3>4. store'[n] \in Versions'
      BY <2>2 DEF Basic, TypeOK
    <3>5. store[n] \in Nat /\ store'[n] \in Nat
      BY <3>2, <3>3, <3>4, Zenon
    <3> QED
      BY <3>5
  <2> QED
    BY <2>3, <2>4
<1> QED
  BY <1>1, Invariance, PTL DEF AllSpec, NeverBack

\* The handlers hear of an object's addition first, and of nothing between its
\* deletion and its next addition, whatever relists, resyncs and compressed
\* deltas do.
THEOREM HandlersToldInOrder == AllSpec => EventOrder
<1>1. IInv /\ [AllNext]_allVars =>
         [notes # <<>> /\ notes' = Tail(notes) =>
             (Head(notes).type = "add" <=> Head(notes).name \notin seen)]_vars
  <2> SUFFICES ASSUME IInv, notes # <<>>
               PROVE  Head(notes).type = "add" <=> Head(notes).name \notin seen
    OBVIOUS
  <2>1. notes \in Seq(Note) /\ FirstFits(notes, seen)
    BY DEF IInv, TypeOK, NotesInv
  <2>2. Head(notes) = notes[1] /\ 1 \in DOMAIN notes /\ DOMAIN notes = 1 .. Len(notes)
        /\ Len(notes) \in Nat
    BY <2>1, Rest, LenProperties
  <2>3. ~Between(notes, 0, 1, notes[1].name)
    BY <2>2 DEF Between
  <2> QED
    BY <2>1, <2>2, <2>3 DEF FirstFits
<1> QED
  BY <1>1, Invariance, PTL DEF AllSpec, EventOrder
=============================================================================
