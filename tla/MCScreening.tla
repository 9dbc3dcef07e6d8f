---------------------------- MODULE MCScreening ----------------------------
(***************************************************************************)
(* The screener on small tables.  With one role, a second posting          *)
(* collapses unless the first is gone.                                     *)
(***************************************************************************)
EXTENDS Screening, TLC

CONSTANTS i1, i2, A, B, p1, p2

TwoIds == {i1, i2}
OneId == {i1}
OneRole == [id \in Ids |-> "role"]
TwoCodes == {A, B}
OneCode == {A}
OnePass == {p1}
TwoPasses == {p1, p2}
Symmetry == Permutations(Ids) \cup Permutations(Codes) \cup Permutations(Passes)

=============================================================================
