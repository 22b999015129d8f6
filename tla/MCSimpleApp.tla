---------------------------- MODULE MCSimpleApp -----------------------------
(***************************************************************************)
(* Model-checking instances of SimpleApp.                                  *)
(***************************************************************************)
EXTENDS SimpleApp
=============================================================================
