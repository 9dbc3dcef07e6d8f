-------------------------- MODULE MCRoundLifecycle --------------------------
(***************************************************************************)
(* The life of a round with one executor, two requests at the API (the     *)
(* second one is an answer nobody waits for any more), two rounds and one  *)
(* or two faults.  The runs that look for a temporal counterexample have   *)
(* no symmetry, which would be unsound for them.                           *)
(***************************************************************************)
EXTENDS RoundLifecycle

=============================================================================
