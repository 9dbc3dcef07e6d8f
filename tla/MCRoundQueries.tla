--------------------------- MODULE MCRoundQueries ---------------------------
(***************************************************************************)
(* The queries of a round on small answers: up to four queries, cut to     *)
(* three, under one plain label or none, so that labels are missing and    *)
(* repeated.                                                               *)
(***************************************************************************)
EXTENDS RoundQueries

Plain(word) == [word |-> word, tail |-> << >>]

PlainLabels == {Plain(""), Plain("a")}

=============================================================================
