-------------------------- MODULE AdmissionWebhook --------------------------
(***************************************************************************)
(* The two hand-written admission webhooks, and the API server that calls  *)
(* them while it creates an object:                                        *)
(*                                                                         *)
(*   by-service    /mutate, then /validate, for Deployments and Services:  *)
(*                 add the recommended labels, require them;               *)
(*   by-baremetal  /mutate for Pods: add the miner-type annotation.        *)
(*                                                                         *)
(* Both are registered with failure policy Fail: a call that is not        *)
(* answered refuses the object.  A JSON patch "add" at the path of a map   *)
(* that exists replaces the whole map.                                     *)
(***************************************************************************)
EXTENDS Naturals, FiniteSets

CONSTANTS Required,     \* requiredLabels, the keys of addLabels
          Others,       \* other label keys
          Namespaces,   \* namespaces the configurations select
          Ignored,      \* ignoredNamespaces
          MaxRequests

ASSUME WebhookAssumption ==
    /\ Required \cap Others = {}
    /\ MaxRequests \in Nat

VARIABLES serving,   \* the webhook servers are up
          phase,     \* where the API server is with the object
          sent,      \* the object as the client sent it
          obj,       \* the object as it is now
          again,     \* it was sent as it had been stored before
          store,     \* the objects stored so far
          requests

webhookVars == <<serving, phase, sent, obj, again, store, requests>>

\* Values of a label: the client's own, the empty string, NA, or no label.
Unset  == "unset"
NA     == "not_available"
Values == {"value", "", NA, Unset}

\* An annotation counts when it has the value the code looks for: "off" of the
\* two switches (n, no, false or off), "mutated" of the status.
Annotations == {"validate off", "mutate off", "mutated", "miner-type", "note"}

Labels  == Required \cup Others
Kinds   == {"Deployment", "Service", "Pod"}
Objects == [kind : Kinds, ns : Namespaces, labels : [Labels -> Values],
            annotations : SUBSET Annotations]

-----------------------------------------------------------------------------
(* The decisions of webhook.go.                                            *)

admissionRequired(off, o) ==
    /\ o.ns \notin Ignored
    /\ off \notin o.annotations

\* Mutant: the status annotation is not looked at.
mutationRequiredAlways(o) == admissionRequired("mutate off", o)

mutationRequired(o) ==
    /\ admissionRequired("mutate off", o)
    /\ "mutated" \notin o.annotations

validationRequired(o) == admissionRequired("validate off", o)

\* availableAnnotations is never assigned in mutate, so the whole map is
\* replaced by the one annotation to add.
updateAnnotation(o) == {"mutated"}

\* Only the labels that are missing or empty, in place of all labels.
updateLabels(o) ==
    [l \in Labels |-> IF l \in Required /\ o.labels[l] \in {Unset, ""}
                      THEN NA ELSE Unset]

createPatch(o) ==
    [o EXCEPT !.annotations = updateAnnotation(o), !.labels = updateLabels(o)]

mutate(o) == IF mutationRequired(o) THEN createPatch(o) ELSE o

\* Mutant: one label is enough.
validateAny(o) ==
    validationRequired(o) => \E l \in Required : o.labels[l] # Unset

\* Allowed, of the response.
validate(o) ==
    validationRequired(o) => \A l \in Required : o.labels[l] # Unset

\* by-baremetal/main.go adds to the annotations there are.
mutatePod(o) == [o EXCEPT !.annotations = @ \cup {"miner-type"}]

-----------------------------------------------------------------------------
WebhookTypeOK ==
    /\ serving \in BOOLEAN
    /\ phase \in {"idle", "mutate", "validate", "stored", "denied", "failed"}
    /\ sent \in Objects /\ obj \in Objects
    /\ again \in BOOLEAN
    /\ store \subseteq Objects
    /\ requests \in 0 .. MaxRequests

WebhookInit ==
    /\ serving = TRUE
    /\ phase = "idle"
    /\ sent \in Objects /\ obj = sent
    /\ again = FALSE
    /\ store = {}
    /\ requests = 0

Ended == {"stored", "denied", "failed"}

Send(o) ==
    /\ requests < MaxRequests /\ requests' = requests + 1
    /\ phase' = "mutate"
    /\ sent' = o /\ obj' = o
    /\ UNCHANGED <<serving, store>>

\* A client creates the object of the initial state.
Create ==
    /\ phase = "idle"
    /\ Send(sent)
    /\ UNCHANGED again

\* ... or one exported from the cluster: kubectl get -o yaml, then create.
Recreate ==
    /\ phase \in Ended
    /\ \E o \in store : Send(o)
    /\ again' = TRUE

\* The mutating call, answered by the server for the kind of the object.  The
\* configuration for Pods has no validating one.
CallMutate ==
    /\ phase = "mutate" /\ serving
    /\ IF obj.kind = "Pod"
       THEN /\ obj' = mutatePod(obj)
            /\ phase' = "stored" /\ store' = store \cup {obj'}
       ELSE /\ obj' = mutate(obj)
            /\ phase' = "validate" /\ UNCHANGED store
    /\ UNCHANGED <<serving, sent, again, requests>>

CallValidate ==
    /\ phase = "validate" /\ serving
    /\ IF validate(obj)
       THEN phase' = "stored" /\ store' = store \cup {obj}
       ELSE phase' = "denied" /\ UNCHANGED store
    /\ UNCHANGED <<serving, sent, obj, again, requests>>

CallFails ==
    /\ phase \in {"mutate", "validate"} /\ ~serving
    /\ phase' = "failed"
    /\ UNCHANGED <<serving, sent, obj, again, store, requests>>

\* The signal, and Shutdown, which lets the call under way finish; the Pod of
\* the server is started again some time.
Shutdown   == serving  /\ serving' = FALSE /\ UNCHANGED <<phase, sent, obj, again, store, requests>>
ServeAgain == ~serving /\ serving' = TRUE  /\ UNCHANGED <<phase, sent, obj, again, store, requests>>

WebhookNext ==
    \/ Create \/ Recreate
    \/ CallMutate \/ CallValidate \/ CallFails
    \/ Shutdown \/ ServeAgain

WebhookSpec == WebhookInit /\ [][WebhookNext]_webhookVars

-----------------------------------------------------------------------------
(* Properties.                                                             *)

\* What admission refuses, told from the object as the client sent it: where
\* mutate has its turn, any required label with a value of the client's own,
\* because the patch drops it, and the annotation that switches validation
\* off does not help, because the patch drops that too; elsewhere, missing
\* labels, unless validation is off.
Refusable(o) ==
    /\ o.kind # "Pod" /\ o.ns \notin Ignored
    /\ IF mutationRequired(o)
       THEN \E l \in Required : o.labels[l] \notin {Unset, ""}
       ELSE "validate off" \notin o.annotations /\ \E l \in Required : o.labels[l] = Unset

\* The two calls, with the patch of one between them, deny exactly that:
\* validate judges the object as mutate left it, switches included.
DenialsExplained ==
    /\ phase = "denied" => Refusable(sent)
    /\ phase = "stored" => ~Refusable(sent)

\* What is in the cluster can be created again from an export: it is neither
\* denied nor changed, i.e. admission is idempotent.
Recreatable ==
    again => /\ phase # "denied"
             /\ phase \in {"validate", "stored"} => obj = sent

\* The answer to the first creation does not depend on how empty labels are
\* written: with no recommended label set, the object gets all of them.
UnlabelledGetsNA ==
    /\ phase = "validate" /\ mutationRequired(sent)
    /\ \A l \in Required : sent.labels[l] \in {Unset, ""}
    => /\ \A l \in Required : obj.labels[l] = NA
       /\ validate(obj)

\* README: an object with all labels is created, and keeps their values.
LabelledAdmitted ==
    sent.kind # "Pod" /\ (\A l \in Required : sent.labels[l] \notin {Unset, ""})
        => /\ phase # "denied"
           /\ phase = "stored" => \A l \in Required : obj.labels[l] = sent.labels[l]
=============================================================================
