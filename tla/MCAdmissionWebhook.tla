------------------------- MODULE MCAdmissionWebhook -------------------------
(***************************************************************************)
(* Model-checking instances of AdmissionWebhook: two of the six required   *)
(* labels, one other.                                                      *)
(***************************************************************************)
EXTENDS AdmissionWebhook
=============================================================================
