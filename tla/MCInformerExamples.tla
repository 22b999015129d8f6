------------------------- MODULE MCInformerExamples -------------------------
(***************************************************************************)
(* Model-checking instance of InformerExamples and AdvancedReflector.  One *)
(* object of others comes and goes; the programs that only watch, or poll  *)
(* a Reflector's store, meet one that was there before, too.               *)
(***************************************************************************)
EXTENDS AdvancedReflector

ForeignObjects ==
    [p \in Programs |-> IF p \in {"simple", "controller"} THEN {"other"} ELSE {"kept", "other"}]

EarlyObjects == {"kept"}

OtherWrites ==
    [p \in Programs |-> CASE p = "simple" -> 1 [] p = "advanced" -> 2 [] OTHER -> 3]
=============================================================================
