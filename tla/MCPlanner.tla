----------------------------- MODULE MCPlanner -----------------------------
(***************************************************************************)
(* The planner on a small instance: one or two requests at a time, two     *)
(* rounds, a widening bound of one, a cap and a ceiling of two or three    *)
(* calls, so that a widening can overrun its bound, a ceiling can refuse a *)
(* start, a plan can come back empty and two starts can give up the same   *)
(* late round.                                                             *)
(***************************************************************************)
EXTENDS Planner, TLC

Symmetry == Permutations(Handlers)

=============================================================================
