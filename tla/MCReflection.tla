---------------------------- MODULE MCReflection ----------------------------
(***************************************************************************)
(* Two outcomes make a reflection due; two reflections at a time, and one  *)
(* note of a scope may stay.                                               *)
(***************************************************************************)
EXTENDS Reflection

=============================================================================
