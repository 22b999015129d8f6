---------------------------- MODULE MCCalculate -----------------------------
(***************************************************************************)
(* Model-checking instances of Calculate: four-bit integers, operands at   *)
(* the ends of their range and around zero.                                *)
(***************************************************************************)
EXTENDS Calculate

Edges == {-Half, -1, 0, Half - 1}
=============================================================================
