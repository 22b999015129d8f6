------------------------- MODULE AdvancedReflector -------------------------
(***************************************************************************)
(* The advanced reflector example, on the Reflector of InformerExamples    *)
(* (its program "advanced"): main and three goroutines, of which one stops *)
(* the Reflector on a signal, one prints statistics and one keeps them.    *)
(* The channel of the signals has room for one; both main and the first    *)
(* goroutine receive from it.                                              *)
(***************************************************************************)
EXTENDS InformerExamples

CONSTANT MaxPolls  \* how often podCount is counted up

ASSUME PollsAssumption == MaxPolls \in Nat

VARIABLES sig,       \* a signal is in sigCh
          printing,  \* the goroutine that prints runs
          polling,   \* the goroutine that polls: "list", "update" or "done"
          pods0,     \* the Pod it took from its List
          lastSeen,  \* the keys of Stats.lastSeen
          podCount   \* Stats.podCount, over all namespaces

statsVars == <<lastSeen, podCount>>
goVars    == <<sig, printing, polling, pods0, statsVars>>
allVars   == <<vars, goVars>>

GoTypeOK ==
    /\ sig \in BOOLEAN /\ printing \in BOOLEAN
    /\ polling \in {"list", "update", "done"}
    /\ pods0 \in Names \cup {NoKey}
    /\ lastSeen \subseteq Names /\ podCount \in 0 .. MaxPolls

GoInit ==
    /\ sig = FALSE
    /\ printing = FALSE
    /\ polling = "done"
    /\ pods0 = NoKey
    /\ lastSeen = {} /\ podCount = 0

Advanced == prog = "advanced" /\ Running

reflectorVars == <<prog, key, serverVars, events, listed, fifoVars, cacheVars, budgetVars>>

\* A signal that finds the channel full is dropped.
Signal ==
    /\ Advanced
    /\ sig' = TRUE
    /\ UNCHANGED <<vars, printing, polling, pods0, statsVars>>

\* Mutant: the goroutine goes on receiving after it has closed stopCh.
StopOnEverySignal ==
    /\ Advanced /\ sig
    /\ sig' = FALSE
    /\ stopped' = TRUE
    /\ UNCHANGED <<reflectorVars, pc, printing, polling, pods0, statsVars>>

\* The goroutine that closes stopCh: it receives once.
StopOnSignal ==
    /\ Advanced /\ sig /\ ~stopped
    /\ sig' = FALSE
    /\ stopped' = TRUE
    /\ UNCHANGED <<reflectorVars, pc, printing, polling, pods0, statsVars>>

\* main has slept for two seconds and starts the two other goroutines.
StartStats ==
    /\ Advanced /\ pc = "sync"
    /\ pc' = "block"
    /\ printing' = TRUE /\ polling' = "list"
    /\ UNCHANGED <<reflectorVars, stopped, sig, pods0, statsVars>>

\* The printing goroutine sees stopCh closed.  Until then it calls Print,
\* which changes nothing.
PrinterEnds ==
    /\ Advanced /\ printing /\ stopped
    /\ printing' = FALSE
    /\ UNCHANGED <<vars, sig, polling, pods0, statsVars>>

\* store.List(), and the first of what it returned, if anything; or the end.
PollOnce ==
    /\ Advanced /\ polling = "list"
    /\ IF stopped THEN polling' = "done" /\ UNCHANGED pods0
       ELSE /\ polling' = "update"
            /\ podCount < MaxPolls
            /\ pods0' \in Present(store)
    /\ UNCHANGED <<vars, sig, printing, statsVars>>

\* UpdateLastSeen: one critical section of Stats.mu.
UpdateLastSeen ==
    /\ Advanced /\ polling = "update"
    /\ lastSeen' = lastSeen \cup {pods0}
    /\ podCount' = podCount + 1
    /\ polling' = "list" /\ pods0' = NoKey
    /\ UNCHANGED <<vars, sig, printing>>

\* main receives a signal itself, prints and returns, which ends the process.
MainReceives ==
    /\ Advanced /\ pc = "block" /\ sig
    /\ sig' = FALSE
    /\ pc' = "exit"
    /\ UNCHANGED <<reflectorVars, stopped, printing, polling, pods0, statsVars>>

Goroutines ==
    \/ StopOnSignal \/ MainReceives \/ StartStats
    \/ PrinterEnds \/ PollOnce \/ UpdateLastSeen

AllInit == Init /\ GoInit

AllNext ==
    \/ Next /\ UNCHANGED goVars
    \/ Signal \/ Goroutines

\* Goroutines run (each has finitely many steps to take, so that one of them
\* does is all that is needed); no signal has to come.
AllFairness == Fairness /\ WF_allVars(Goroutines)

AllSpec == AllInit /\ [][AllNext]_allVars /\ AllFairness

-----------------------------------------------------------------------------
(* Properties.                                                             *)

\* Two receivers share a channel with room for one signal.  A signal that got
\* in ends the program or, when the goroutine takes it, stops the Reflector;
\* after that only main receives, so that the next one that gets in ends the
\* program.  (One signal may not do, and nobody has to send a third, whatever
\* was dropped.)
SignalsEnd ==
    /\ sig ~> (pc = "exit" \/ (stopped /\ ~sig))
    /\ [][stopped /\ sig /\ ~sig' => pc' = "exit"]_allVars
=============================================================================
