-------------------------- MODULE MCClientScripts --------------------------
(***************************************************************************)
(* Model-checking instance of ClientScripts: processes are model values.   *)
(***************************************************************************)
EXTENDS ClientScripts
=============================================================================
