---------------------------- MODULE MCModelCalls ----------------------------
(***************************************************************************)
(* Model calls on a small instance: two requests, so that both find the    *)
(* token expired and the traces overlap; one nudge, two attempts, a        *)
(* retention of one trace, so that a running one is pruned, a preview of   *)
(* one fragment, so that it is capped, and one restart.                    *)
(***************************************************************************)
EXTENDS ModelCalls, TLC

NoEnv == [form |-> "empty", block |-> Absent]
Symmetry == Permutations(Handlers)

=============================================================================
